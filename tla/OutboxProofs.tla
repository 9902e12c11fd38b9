---------------------------- MODULE OutboxProofs ----------------------------
(***************************************************************************)
(* Proofs about Outbox for any number of jobs, replicas, slots and tokens, *)
(* any budgets, leases and clock skew.                                     *)
(***************************************************************************)
EXTENDS Outbox, TLAPS

----------------------------------------------------------------------------
(* Rows and slots have their types *)

\* No row.
LEMMA AbsentIsRow ==
    /\ AbsentRow \in Row
    /\ AbsentRow.status = "absent"
    /\ AbsentRow.attempts = 0
    /\ AbsentRow.lockedBy = NoToken
  BY DEF Row, AbsentRow

\* A row written as pending.
LEMMA PendingIsRow ==
    ASSUME NEW n \in Nat, NEW at \in Nat
    PROVE  /\ PendingRow(n, at) \in Row
           /\ PendingRow(n, at).status = "pending"
           /\ PendingRow(n, at).attempts = n
           /\ PendingRow(n, at).lockedBy = NoToken
  BY AbsentIsRow DEF Row, PendingRow

\* A row written by a claim.
LEMMA RunningIsRow ==
    ASSUME NEW n \in Nat, NEW u \in Int, NEW t \in Token
    PROVE  /\ RunningRow(n, u, t) \in Row
           /\ RunningRow(n, u, t).status = "running"
           /\ RunningRow(n, u, t).attempts = n
           /\ RunningRow(n, u, t).lockedBy = t
  BY AbsentIsRow DEF Row, RunningRow

\* A row written as done or dead.
LEMMA EndedIsRow ==
    ASSUME NEW s \in {"done", "dead"}, NEW n \in Nat, NEW u \in Int
    PROVE  /\ EndedRow(s, n, u) \in Row
           /\ EndedRow(s, n, u).status = s
           /\ EndedRow(s, n, u).attempts = n
           /\ EndedRow(s, n, u).lockedBy = NoToken
  BY AbsentIsRow DEF Row, EndedRow

\* Idle and started slots are slot states.
LEMMA SlotTypes ==
    ASSUME NEW j \in Job, NEW t \in Token, NEW n \in Nat
    PROVE  /\ IdleSlot \in SlotState
           /\ StartedSlot(j, t, n) \in SlotState
           /\ IdleSlot.pc = "idle" /\ IdleSlot.job = NoJob
           /\ StartedSlot(j, t, n).pc = "running"
           /\ StartedSlot(j, t, n).job = j
           /\ StartedSlot(j, t, n).token = t
           /\ StartedSlot(j, t, n).attempts = n
  BY DEF SlotState, IdleSlot, StartedSlot

\* The instant of retention is an integer on any clock.
LEMMA RetainType ==
    ASSUME NEW r \in Replica
    PROVE  /\ Skew[r] \in Nat
           /\ RetainUntil(r, RetainDone) \in Int
           /\ RetainUntil(r, RetainDead) \in Int
  BY OutboxConstants DEF RetainUntil

\* Time keeps a row's type, status, attempts and lock.
LEMMA AgedRow ==
    ASSUME NEW row \in Row
    PROVE  /\ Aged(row) \in Row
           /\ Aged(row).status = row.status
           /\ Aged(row).attempts = row.attempts
           /\ Aged(row).lockedBy = row.lockedBy
  BY OutboxConstants DEF Aged, Sooner, Row

----------------------------------------------------------------------------
(* The inductive invariant *)

\* What every step keeps. SnapshotCurrent is what makes AttemptBudget inductive
\* (finish trusts the attempts of the claim), OneOwner what makes the fence a
\* fence; both rest on the freshness of tokens.
IInv == TypeOK /\ AttemptBudget /\ OneOwner /\ SnapshotCurrent

\* The empty table of a new database satisfies the invariant.
LEMMA InitInv == Init => IInv
<1> SUFFICES ASSUME Init PROVE IInv
  OBVIOUS
<1>1. TypeOK
  BY OutboxConstants
  DEF Init, TypeOK, Row, AbsentRow, SlotState, IdleSlot, Modes
<1>2. AttemptBudget
  BY OutboxConstants DEF Init, AttemptBudget, AbsentRow
<1>3. OneOwner /\ SnapshotCurrent
  BY DEF Init, OneOwner, SnapshotCurrent, Owns, IdleSlot
<1> QED
  BY <1>1, <1>2, <1>3 DEF IInv

\* Row j keeps what the invariant speaks of.
KeptRow(j) == /\ jobs'[j].status = jobs[j].status
              /\ jobs'[j].attempts = jobs[j].attempts
              /\ jobs'[j].lockedBy = jobs[j].lockedBy

\* Row j is left to nobody, within its budget.
FreedRow(j) == /\ jobs'[j].status # "running"
               /\ jobs'[j].lockedBy = NoToken
               /\ jobs'[j].attempts <= MaxAttempts[j]
               /\ jobs'[j].status = "pending" =>
                      jobs'[j].attempts < MaxAttempts[j]

\* Slot w keeps its claim.
KeptSlot(w) == /\ slots'[w].job = slots[w].job
               /\ slots'[w].token = slots[w].token
               /\ slots'[w].attempts = slots[w].attempts
               /\ slots'[w].pc # "idle" => slots[w].pc # "idle"

\* Every step but a claim: rows are kept or freed, slots keep their claim or go
\* idle, and the invariant holds again.
LEMMA NoClaimStep ==
    ASSUME IInv,
           jobs' \in [Job -> Row],
           slots' \in [Slot -> SlotState],
           mode' \in [Replica -> Modes],
           \A j \in Job : KeptRow(j) \/ FreedRow(j),
           \A w \in Slot : KeptSlot(w) \/ slots'[w].pc = "idle"
    PROVE  IInv'
<1>1. TypeOK'
  BY DEF IInv, TypeOK, KeptRow, FreedRow, KeptSlot
<1>2. AttemptBudget'
  BY DEF IInv, TypeOK, AttemptBudget, KeptRow, FreedRow
<1>3. \A w \in Slot : Owns(w)' => /\ Owns(w)
                                 /\ slots'[w].job = slots[w].job
                                 /\ slots'[w].attempts = slots[w].attempts
                                 /\ KeptRow(slots[w].job)
  BY DEF IInv, TypeOK, Owns, KeptRow, FreedRow, KeptSlot
<1>4. OneOwner'
  BY <1>3 DEF IInv, OneOwner
<1>5. SnapshotCurrent'
  BY <1>3 DEF IInv, TypeOK, SnapshotCurrent, KeptRow
<1> QED
  BY <1>1, <1>2, <1>4, <1>5 DEF IInv

\* A due job has budget left for the attempt the claim counts.
LEMMA DueHasBudget ==
    ASSUME IInv, NEW r \in Replica, NEW j \in Due(r)
    PROVE  j \in Job /\ jobs[j].attempts < MaxAttempts[j]
  BY DEF IInv, AttemptBudget, Due

\* Claims are the other steps: the rows in S run under a token nobody has, one
\* attempt more is counted, and each slot of W starts one of them.
LEMMA ClaimStep ==
    ASSUME IInv, NEW r \in Replica, NEW t \in FreshTokens,
           NEW S \in SUBSET Due(r), NEW W \in SUBSET Slot,
           NEW take \in [W -> S],
           \A v, w \in W : v # w => take[v] # take[w],
           jobs' = [j \in Job |->
                      IF j \in S
                      THEN RunningRow(jobs[j].attempts + 1, Lease + Skew[r], t)
                      ELSE jobs[j]],
           slots' = [w \in Slot |->
                       IF w \in W
                       THEN StartedSlot(take[w], t, jobs[take[w]].attempts + 1)
                       ELSE slots[w]],
           mode' \in [Replica -> Modes]
    PROVE  IInv'
<1>1. /\ t \in Token
      /\ t # NoToken
      /\ \A j \in Job : jobs[j].lockedBy # t
      /\ \A w \in Slot : slots[w].token # t
  BY OutboxConstants DEF FreshTokens
<1>2. \A j \in S : j \in Job /\ jobs[j].attempts + 1 \in 1..MaxAttempts[j]
  BY DueHasBudget, OutboxConstants DEF IInv, TypeOK, Row
<1>3. \A j \in S : /\ jobs'[j] \in Row
                   /\ jobs'[j].status = "running"
                   /\ jobs'[j].attempts = jobs[j].attempts + 1
                   /\ jobs'[j].lockedBy = t
  <2> TAKE j \in S
  <2>1. jobs[j].attempts + 1 \in Nat /\ Lease + Skew[r] \in Int
    BY <1>2, OutboxConstants DEF IInv, TypeOK, Row
  <2>2. jobs'[j] = RunningRow(jobs[j].attempts + 1, Lease + Skew[r], t)
    BY <1>2
  <2> QED
    BY <2>1, <2>2, <1>1, RunningIsRow
<1>4. \A w \in W : /\ slots'[w] \in SlotState
                   /\ slots'[w].pc = "running"
                   /\ slots'[w].job = take[w]
                   /\ slots'[w].token = t
                   /\ slots'[w].attempts = jobs[take[w]].attempts + 1
                   /\ take[w] \in S
  <2> TAKE w \in W
  <2>1. take[w] \in S /\ take[w] \in Job /\ jobs[take[w]].attempts + 1 \in Nat
    BY <1>2 DEF IInv, TypeOK, Row
  <2>2. slots'[w] = StartedSlot(take[w], t, jobs[take[w]].attempts + 1)
    OBVIOUS
  <2> QED
    BY <2>1, <2>2, <1>1, SlotTypes
<1>5. \A j \in Job \ S : jobs'[j] = jobs[j]
  OBVIOUS
<1>6. \A w \in Slot \ W : slots'[w] = slots[w]
  OBVIOUS
<1>7. TypeOK'
  <2>1. jobs' \in [Job -> Row]
    BY <1>3, <1>5 DEF IInv, TypeOK
  <2>2. slots' \in [Slot -> SlotState]
    BY <1>4, <1>6 DEF IInv, TypeOK
  <2>3. \A j \in Job : jobs'[j].status = "running" <=> jobs'[j].lockedBy # NoToken
    BY <1>1, <1>3, <1>5 DEF IInv, TypeOK
  <2>4. \A w \in Slot : slots'[w].pc # "idle" =>
                          slots'[w].job \in Job /\ slots'[w].token \in Token
    BY <1>1, <1>2, <1>4, <1>6 DEF IInv, TypeOK
  <2> QED
    BY <2>1, <2>2, <2>3, <2>4 DEF TypeOK
<1>8. AttemptBudget'
  <2> SUFFICES ASSUME NEW j \in Job
               PROVE  /\ jobs'[j].status = "pending" =>
                            jobs'[j].attempts < MaxAttempts[j]
                      /\ jobs'[j].status = "running" =>
                            jobs'[j].attempts \in 1..MaxAttempts[j]
                      /\ jobs'[j].attempts <= MaxAttempts[j]
    BY DEF AttemptBudget
  <2>1. CASE j \in S
    <3>1. jobs'[j].attempts \in 1..MaxAttempts[j] /\ MaxAttempts[j] \in Nat
      BY <2>1, <1>2, <1>3, OutboxConstants
    <3>2. jobs'[j].status = "running"
      BY <2>1, <1>3
    <3>3. jobs'[j].attempts <= MaxAttempts[j]
      BY <3>1
    <3> QED
      BY <3>1, <3>2, <3>3
  <2>2. CASE j \notin S
    <3>1. jobs'[j] = jobs[j]
      BY <2>2, <1>5
    <3> QED
      BY <3>1 DEF IInv, AttemptBudget
  <2> QED
    BY <2>1, <2>2
<1>9. \A w \in Slot \ W : Owns(w)' => /\ Owns(w)
                                      /\ slots[w].job \in Job \ S
  <2> SUFFICES ASSUME NEW w \in Slot \ W, Owns(w)'
               PROVE  Owns(w) /\ slots[w].job \in Job \ S
    OBVIOUS
  <2>1. slots'[w] = slots[w]
    BY <1>6
  <2>2. slots[w].pc # "idle" /\ slots[w].job \in Job /\ slots[w].token # t
    BY <2>1, <1>1 DEF Owns, IInv, TypeOK
  <2>3. jobs'[slots[w].job].lockedBy = slots[w].token
    BY <2>1 DEF Owns
  <2>4. slots[w].job \notin S
    BY <2>2, <2>3, <1>3
  <2>5. jobs'[slots[w].job] = jobs[slots[w].job]
    BY <2>2, <2>4, <1>5
  <2> QED
    BY <2>1, <2>2, <2>4, <2>5 DEF Owns
<1>10. OneOwner'
  <2> SUFFICES ASSUME NEW v \in Slot, NEW w \in Slot, Owns(v)', Owns(w)',
                      slots'[v].job = slots'[w].job
               PROVE  v = w
    BY DEF OneOwner
  <2>1. CASE v \in W /\ w \in W
    <3>1. take[v] = take[w]
      BY <2>1, <1>4
    <3> QED
      BY <2>1, <3>1
  <2>2. CASE v \notin W /\ w \notin W
    BY <2>2, <1>6, <1>9 DEF IInv, OneOwner
  <2>3. CASE v \in W /\ w \notin W
    <3>1. slots'[v].job \in S
      BY <2>3, <1>4
    <3>2. slots'[w].job \notin S
      BY <2>3, <1>6, <1>9
    <3> QED
      BY <3>1, <3>2
  <2>4. CASE v \notin W /\ w \in W
    <3>1. slots'[w].job \in S
      BY <2>4, <1>4
    <3>2. slots'[v].job \notin S
      BY <2>4, <1>6, <1>9
    <3> QED
      BY <3>1, <3>2
  <2> QED
    BY <2>1, <2>2, <2>3, <2>4
<1>11. SnapshotCurrent'
  <2> SUFFICES ASSUME NEW w \in Slot, Owns(w)'
               PROVE  slots'[w].attempts = jobs'[slots'[w].job].attempts
    BY DEF SnapshotCurrent
  <2>1. CASE w \in W
    BY <2>1, <1>3, <1>4
  <2>2. CASE w \notin W
    BY <2>2, <1>5, <1>6, <1>9 DEF IInv, SnapshotCurrent
  <2> QED
    BY <2>1, <2>2
<1> QED
  BY <1>7, <1>8, <1>10, <1>11 DEF IInv

\* The row an owner writes is unlocked and within the budget: a retry is chosen
\* only when the attempts of the claim, which are the row's, leave room.
LEMMA ResultIsFree ==
    ASSUME IInv, NEW w \in Slot, Owns(w), NEW d \in Delay
    PROVE  LET j == slots[w].job
               row == ResultRow(w, d)
           IN  /\ j \in Job
               /\ row \in Row
               /\ row.status # "running"
               /\ row.lockedBy = NoToken
               /\ row.attempts <= MaxAttempts[j]
               /\ row.status = "pending" => row.attempts < MaxAttempts[j]
<1> DEFINE j == slots[w].job
           r == ReplicaOf[w]
           n == jobs[j].attempts
<1>1. /\ j \in Job /\ r \in Replica
      /\ n \in Nat /\ n \in 1..MaxAttempts[j] /\ MaxAttempts[j] \in Nat
      /\ slots[w].attempts = n
      /\ d \in Nat
  BY OutboxConstants
  DEF Owns, IInv, TypeOK, Row, AttemptBudget, SnapshotCurrent
<1>2. /\ Skew[r] \in Nat
      /\ RetainUntil(r, RetainDone) \in Int
      /\ RetainUntil(r, RetainDead) \in Int
  BY <1>1, RetainType
<1>3. n - 1 \in Nat /\ n > 0 /\ n - 1 < MaxAttempts[j] /\ n <= MaxAttempts[j]
  BY <1>1
<1> HIDE DEF j, r, n
<1>4. CASE slots[w].result = "ok"
  <2>1. ResultRow(w, d) = EndedRow("done", n, RetainUntil(r, RetainDone))
    BY <1>4 DEF ResultRow, j, r, n
  <2> QED
    BY <2>1, <1>1, <1>2, <1>3, EndedIsRow DEF j
<1>5. CASE slots[w].result # "ok" /\ slots[w].cause = "shutdown"
  <2>1. ResultRow(w, d) = PendingRow(n - 1, Skew[r])
    BY <1>3, <1>5 DEF ResultRow, j, r, n
  <2> QED
    BY <2>1, <1>1, <1>2, <1>3, PendingIsRow DEF j
<1>6. CASE /\ slots[w].result # "ok" /\ slots[w].cause # "shutdown"
           /\ slots[w].result = "permanent" \/ n >= MaxAttempts[j]
  <2>1. ResultRow(w, d) = EndedRow("dead", n, RetainUntil(r, RetainDead))
    BY <1>1, <1>6 DEF ResultRow, j, r, n
  <2> QED
    BY <2>1, <1>1, <1>2, <1>3, EndedIsRow DEF j
<1>7. CASE /\ slots[w].result # "ok" /\ slots[w].cause # "shutdown"
           /\ slots[w].result # "permanent" /\ ~(n >= MaxAttempts[j])
  <2>1. ResultRow(w, d) = PendingRow(n, Skew[r] + d)
    BY <1>1, <1>7 DEF ResultRow, j, r, n
  <2>2. Skew[r] + d \in Nat /\ n < MaxAttempts[j]
    BY <1>1, <1>2, <1>7
  <2> QED
    BY <2>1, <2>2, <1>1, <1>3, PendingIsRow DEF j
<1> QED
  BY <1>4, <1>5, <1>6, <1>7

\* An idle slot.
LEMMA IdleIsSlot == IdleSlot \in SlotState /\ IdleSlot.pc = "idle"
  BY DEF SlotState, IdleSlot

\* Every step keeps the invariant.
LEMMA NextInv == IInv /\ [Next]_vars => IInv'
<1> SUFFICES ASSUME IInv, [Next]_vars PROVE IInv'
  OBVIOUS
<1> USE DEF KeptRow, FreedRow, KeptSlot
<1>t. /\ jobs \in [Job -> Row]
      /\ slots \in [Slot -> SlotState]
      /\ mode \in [Replica -> Modes]
  BY DEF IInv, TypeOK
<1>k. \A j \in Job : MaxAttempts[j] \in Nat \ {0}
  BY OutboxConstants
<1>1. ASSUME NEW r \in Replica, NEW j \in Job, NEW d \in Delay,
             Enqueue(r, j, d)
      PROVE  IInv'
  <2>1. Skew[r] + d \in Nat
    BY OutboxConstants
  <2>2. jobs' = [jobs EXCEPT ![j] = PendingRow(0, Skew[r] + d)]
        /\ UNCHANGED <<slots, mode>>
    BY <1>1 DEF Enqueue
  <2> QED
    BY <2>1, <2>2, <1>t, <1>k, PendingIsRow, NoClaimStep
<1>2. ASSUME NEW r \in Replica, NEW j \in Job, Retry(r, j)
      PROVE  IInv'
  <2> DEFINE n == IF jobs[j].status = "dead" THEN 0 ELSE jobs[j].attempts
  <2>1. Skew[r] \in Nat /\ n \in Nat /\ n < MaxAttempts[j]
    BY <1>2, <1>t, <1>k, OutboxConstants DEF Retry, IInv, AttemptBudget, Row
  <2>2. jobs' = [jobs EXCEPT ![j] = PendingRow(n, Skew[r])]
        /\ UNCHANGED <<slots, mode>>
    BY <1>2 DEF Retry
  <2> HIDE DEF n
  <2> QED
    BY <2>1, <2>2, <1>t, <1>k, PendingIsRow, NoClaimStep
<1>3. ASSUME NEW r \in Replica, Cleanup(r)
      PROVE  IInv'
  BY <1>3, <1>t, <1>k, AbsentIsRow, NoClaimStep DEF Cleanup, Outdated
<1>4. ASSUME NEW r \in Replica, Poll(r)
      PROVE  IInv'
  <2>1. PICK t \in FreshTokens, W \in SUBSET Slot :
           \E take \in [W -> Due(r)] : Claim(r, t, take)
    BY <1>4 DEF Poll, PollFor, FreeSlots, SlotsOf
  <2>2. PICK take : take \in [W -> Due(r)] /\ Claim(r, t, take)
    BY <2>1
  <2>3. PICK S \in SUBSET Due(r) : S = {take[w] : w \in W}
    BY <2>2
  <2>4. take \in [W -> S] /\ \A v, w \in W : v # w => take[v] # take[w]
    BY <2>2, <2>3 DEF Claim
  <2>5. jobs' = [j \in Job |->
                   IF j \in S
                   THEN RunningRow(jobs[j].attempts + 1, Lease + Skew[r], t)
                   ELSE jobs[j]]
    BY <2>2, <2>3, Zenon DEF Claim
  <2>6. slots' = [w \in Slot |->
                    IF w \in W
                    THEN StartedSlot(take[w], t, jobs[take[w]].attempts + 1)
                    ELSE slots[w]]
    BY <2>2 DEF Claim
  <2>7. mode' \in [Replica -> Modes]
    BY <2>2, <1>t DEF Claim, Modes
  <2> QED
    BY <2>4, <2>5, <2>6, <2>7, ClaimStep
<1>5. ASSUME NEW r \in Replica, ClaimAnswerLost(r)
      PROVE  IInv'
  <2>1. PICK t \in FreshTokens, S \in SUBSET Due(r) :
           jobs' = [j \in Job |->
                      IF j \in S
                      THEN RunningRow(jobs[j].attempts + 1, Lease + Skew[r], t)
                      ELSE jobs[j]]
    BY <1>5 DEF ClaimAnswerLost
  <2> DEFINE W == {}
             take == [w \in W |-> 0]
  <2>2. W \in SUBSET Slot /\ take \in [W -> S]
    OBVIOUS
  <2>3. slots' = [w \in Slot |->
                    IF w \in W
                    THEN StartedSlot(take[w], t, jobs[take[w]].attempts + 1)
                    ELSE slots[w]]
    BY <1>5, <1>t DEF ClaimAnswerLost
  <2>4. mode' \in [Replica -> Modes]
    BY <1>5, <1>t DEF ClaimAnswerLost, Modes
  <2>5. \A v, w \in W : v # w => take[v] # take[w]
    OBVIOUS
  <2> HIDE DEF W, take
  <2> QED
    BY <2>1, <2>2, <2>3, <2>4, <2>5, ClaimStep
<1>6. ASSUME NEW r \in Replica, ReapStuck(r)
      PROVE  IInv'
  <2>1. \A j \in Stuck(r) : /\ j \in Job /\ jobs[j].attempts \in Nat
                             /\ jobs[j].attempts <= MaxAttempts[j]
    BY <1>t DEF Stuck, IInv, AttemptBudget, Row
  <2>2. RetainUntil(r, RetainDead) \in Int
    BY RetainType
  <2>3. \A j \in Stuck(r) : jobs'[j] \in Row /\ FreedRow(j)
    BY <1>6, <2>1, <2>2, EndedIsRow DEF ReapStuck
  <2>4. \A j \in Job \ Stuck(r) : jobs'[j] = jobs[j]
    BY <1>6 DEF ReapStuck
  <2>5. jobs' \in [Job -> Row]
    BY <1>6, <1>t, <2>3, <2>4 DEF ReapStuck
  <2> QED
    BY <1>6, <1>t, <2>3, <2>4, <2>5, NoClaimStep DEF ReapStuck
<1>7. ASSUME NEW r \in Replica,
             \/ Start(r) \/ Shutdown(r) \/ LoopsEnd(r) \/ ShutdownReturns(r)
      PROVE  IInv'
  BY <1>7, <1>t, NoClaimStep
  DEF Start, Shutdown, LoopsEnd, ShutdownReturns, Modes
<1>8. ASSUME NEW r \in Replica, CancelJobs(r)
      PROVE  IInv'
  BY <1>8, <1>t, NoClaimStep DEF CancelJobs, Modes, SlotState
<1>9. ASSUME NEW r \in Replica, Crash(r)
      PROVE  IInv'
  BY <1>9, <1>t, IdleIsSlot, NoClaimStep DEF Crash, Modes
<1>10. ASSUME NEW w \in Slot, Heartbeat(w)
       PROVE  IInv'
  <2>1. CASE Owns(w)
    <3>1. slots[w].job \in Job /\ Lease + Skew[ReplicaOf[w]] \in Int
      BY <2>1, OutboxConstants DEF Owns, IInv, TypeOK
    <3>2. jobs' = [jobs EXCEPT ![slots[w].job].lockedUntil =
                                  Lease + Skew[ReplicaOf[w]]]
          /\ UNCHANGED <<slots, mode>>
      BY <1>10, <2>1 DEF Heartbeat
    <3>3. jobs' \in [Job -> Row]
      BY <3>1, <3>2, <1>t DEF Row
    <3>4. \A j \in Job : KeptRow(j)
      BY <3>1, <3>2, <1>t DEF Row
    <3> QED
      BY <3>2, <3>3, <3>4, <1>t, NoClaimStep
  <2>2. CASE ~Owns(w)
    BY <1>10, <2>2, <1>t, NoClaimStep DEF Heartbeat, SlotState
  <2> QED
    BY <2>1, <2>2
<1>11. ASSUME NEW w \in Slot, NEW result \in {"ok", "fail", "permanent"},
              HandlerReturns(w, result)
       PROVE  IInv'
  BY <1>11, <1>t, NoClaimStep DEF HandlerReturns, SlotState
<1>12. ASSUME NEW w \in Slot, NEW d \in Delay, Finish(w, d)
       PROVE  IInv'
  <2>1. /\ slots' \in [Slot -> SlotState]
        /\ \A v \in Slot : KeptSlot(v) \/ slots'[v].pc = "idle"
        /\ mode' \in [Replica -> Modes]
    BY <1>12, <1>t, IdleIsSlot DEF Finish
  <2>2. CASE slots[w].cause # "lost" /\ Owns(w)
    <3>1. jobs' = [jobs EXCEPT ![slots[w].job] = ResultRow(w, d)]
      BY <1>12, <2>2 DEF Finish
    <3>2. slots[w].job \in Job /\ ResultRow(w, d) \in Row
      BY <2>2, ResultIsFree
    <3>3. FreedRow(slots[w].job)
      BY <2>2, <3>1, <3>2, <1>t, ResultIsFree
    <3>4. jobs' \in [Job -> Row] /\ \A j \in Job : KeptRow(j) \/ FreedRow(j)
      <4>1. \A j \in Job : j # slots[w].job => KeptRow(j)
        BY <3>1, <1>t
      <4>2. jobs' \in [Job -> Row]
        BY <3>1, <3>2, <1>t
      <4> QED
        BY <4>1, <4>2, <3>3, Zenon
    <3> QED
      BY <2>1, <3>4, NoClaimStep
  <2>3. CASE ~(slots[w].cause # "lost" /\ Owns(w))
    BY <1>12, <2>1, <2>3, <1>t, NoClaimStep DEF Finish
  <2> QED
    BY <2>2, <2>3
<1>13. ASSUME NEW w \in Slot, FinishFails(w)
       PROVE  IInv'
  BY <1>13, <1>t, IdleIsSlot, NoClaimStep DEF FinishFails
<1>14. ASSUME Tick PROVE IInv'
  BY <1>14, <1>t, AgedRow, NoClaimStep DEF Tick
<1>15. ASSUME UNCHANGED vars PROVE IInv'
  BY <1>15, <1>t, NoClaimStep DEF vars
<1> QED
  BY <1>1, <1>2, <1>3, <1>4, <1>5, <1>6, <1>7, <1>8, <1>9, <1>10, <1>11,
     <1>12, <1>13, <1>14, <1>15 DEF Next

----------------------------------------------------------------------------
(* The theorems *)

\* For every instance the invariant holds in all reachable states.
THEOREM InvariantHolds == Spec => []IInv
  BY InitInv, NextInv, PTL DEF Spec

\* The type invariant: a row is locked exactly while it is running, whatever the
\* pollers, heartbeats, reapers and crashes of any number of replicas do.
THEOREM TypeCorrect == Spec => []TypeOK
<1>1. IInv => TypeOK
  BY DEF IInv
<1> QED
  BY InvariantHolds, <1>1, PTL

\* No job is started more often than its max_attempts allows, although the claim
\* query does not compare the attempts of a pending row with it.
THEOREM BudgetKept == Spec => []AttemptBudget
<1>1. IInv => AttemptBudget
  BY DEF IInv
<1> QED
  BY InvariantHolds, <1>1, PTL

\* At most one worker slot of all replicas can write a job's row, however many
\* run its handler.
THEOREM SingleOwner == Spec => []OneOwner
<1>1. IInv => OneOwner
  BY DEF IInv
<1> QED
  BY InvariantHolds, <1>1, PTL

\* finish never decides on a stale attempt count: if its write can succeed, the
\* attempts it saw at the claim are the row's.
THEOREM SnapshotValid == Spec => []SnapshotCurrent
<1>1. IInv => SnapshotCurrent
  BY DEF IInv
<1> QED
  BY InvariantHolds, <1>1, PTL

----------------------------------------------------------------------------
(* What a step does to a running row, and to a row it kills *)

\* No step takes a running row from its owner before the lease is over.
LEMMA LeaseStep ==
    ASSUME IInv, [Next]_vars, NEW i \in Job, LeavesOwner(i)
    PROVE  LeaseIsOver(i) \/ OwnerRecords(i)
<1> USE DEF LeavesOwner
<1>t. /\ jobs \in [Job -> Row]
      /\ slots \in [Slot -> SlotState]
  BY DEF IInv, TypeOK
<1>1. ASSUME NEW r \in Replica, NEW j \in Job, NEW d \in Delay,
             Enqueue(r, j, d)
      PROVE  FALSE
  BY <1>1, <1>t, AbsentIsRow DEF Enqueue
<1>2. ASSUME NEW r \in Replica, NEW j \in Job, Retry(r, j)
      PROVE  FALSE
  BY <1>2, <1>t DEF Retry
<1>3. ASSUME NEW r \in Replica, Cleanup(r)
      PROVE  FALSE
  BY <1>3, <1>t DEF Cleanup, Outdated
<1>4. ASSUME NEW r \in Replica, Poll(r) \/ ClaimAnswerLost(r)
      PROVE  LeaseIsOver(i)
  <2>1. jobs'[i] # jobs[i] => i \in Due(r)
    <3>1. CASE Poll(r)
      <4>1. PICK t \in FreshTokens, W \in SUBSET FreeSlots(r) :
               \E take \in [W -> Due(r)] : Claim(r, t, take)
        BY <3>1 DEF Poll, PollFor
      <4>2. PICK take \in [W -> Due(r)] : Claim(r, t, take)
        BY <4>1
      <4> QED
        BY <4>2 DEF Claim
    <3>2. CASE ClaimAnswerLost(r)
      BY <3>2 DEF ClaimAnswerLost
    <3> QED
      BY <1>4, <3>1, <3>2
  <2>2. i \in Due(r)
    BY <2>1
  <2> QED
    BY <2>2 DEF Due, LeaseIsOver
<1>5. ASSUME NEW r \in Replica, ReapStuck(r)
      PROVE  LeaseIsOver(i)
  BY <1>5, <1>t DEF ReapStuck, Stuck, LeaseIsOver
<1>6. ASSUME NEW r \in Replica,
             \/ Start(r) \/ Shutdown(r) \/ LoopsEnd(r) \/ ShutdownReturns(r)
             \/ CancelJobs(r) \/ Crash(r)
      PROVE  FALSE
  BY <1>6 DEF Start, Shutdown, LoopsEnd, ShutdownReturns, CancelJobs, Crash
<1>7. ASSUME NEW w \in Slot, Heartbeat(w)
      PROVE  FALSE
  BY <1>7, <1>t DEF Heartbeat, Row
<1>8. ASSUME NEW w \in Slot, NEW result \in {"ok", "fail", "permanent"},
             HandlerReturns(w, result)
      PROVE  FALSE
  BY <1>8 DEF HandlerReturns
<1>9. ASSUME NEW w \in Slot, NEW d \in Delay, Finish(w, d)
      PROVE  OwnerRecords(i)
  <2>1. Owns(w) /\ slots[w].job = i
    BY <1>9, <1>t DEF Finish
  <2>2. slots'[w].pc = "idle"
    BY <1>9, <1>t, IdleIsSlot DEF Finish
  <2> QED
    BY <1>9, <2>1, <2>2 DEF Finish, Owns, OwnerRecords
<1>10. ASSUME NEW w \in Slot, FinishFails(w)
       PROVE  FALSE
  BY <1>10 DEF FinishFails
<1>11. ASSUME Tick
       PROVE  FALSE
  BY <1>11, <1>t, AgedRow DEF Tick
<1>12. ASSUME UNCHANGED vars
       PROVE  FALSE
  BY <1>12 DEF vars
<1> QED
  BY <1>1, <1>2, <1>3, <1>4, <1>5, <1>6, <1>7, <1>8, <1>9, <1>10, <1>11,
     <1>12 DEF Next

\* In every behaviour a running row changes hands only after its lease, or
\* because the present owner recorded a result: stale workers write nothing.
THEOREM LeaseFence == Spec => LeaseRespected
<1>1. IInv /\ [Next]_vars =>
        [\A j \in Job : LeavesOwner(j) => LeaseIsOver(j) \/ OwnerRecords(j)]_vars
  BY LeaseStep
<1> QED
  BY InvariantHolds, <1>1, PTL DEF Spec, LeaseRespected

\* A result that kills the job comes of a permanent error or of the last attempt.
LEMMA DeadResult ==
    ASSUME IInv, NEW w \in Slot, Owns(w), NEW d \in Delay,
           ResultRow(w, d).status = "dead"
    PROVE  \/ jobs[slots[w].job].attempts = MaxAttempts[slots[w].job]
           \/ slots[w].result = "permanent"
<1> DEFINE j == slots[w].job
           r == ReplicaOf[w]
           n == jobs[j].attempts
<1>1. /\ j \in Job /\ r \in Replica /\ d \in Nat
      /\ n \in Nat /\ n \in 1..MaxAttempts[j] /\ MaxAttempts[j] \in Nat
      /\ slots[w].attempts = n
  BY OutboxConstants
  DEF Owns, IInv, TypeOK, Row, AttemptBudget, SnapshotCurrent
<1>2. Skew[r] \in Nat /\ Skew[r] + d \in Nat /\ n - 1 \in Nat
      /\ RetainUntil(r, RetainDone) \in Int
  BY <1>1, RetainType
<1>3. SUFFICES ASSUME n < MaxAttempts[j], slots[w].result # "permanent"
               PROVE  FALSE
  BY <1>1
<1>4. \/ ResultRow(w, d) = EndedRow("done", n, RetainUntil(r, RetainDone))
      \/ ResultRow(w, d) = PendingRow(n - 1, Skew[r])
      \/ ResultRow(w, d) = PendingRow(n, Skew[r] + d)
  BY <1>1, <1>3 DEF ResultRow
<1> HIDE DEF j, r, n
<1> QED
  BY <1>1, <1>2, <1>4, EndedIsRow, PendingIsRow

\* No step kills a job that has attempts left, a permanent error apart.
LEMMA DeathStep ==
    ASSUME IInv, [Next]_vars, NEW i \in Job, Dies(i)
    PROVE  \/ jobs[i].attempts = MaxAttempts[i]
           \/ \E w \in Slot : /\ Owns(w)
                              /\ slots[w].job = i
                              /\ slots[w].result = "permanent"
<1> USE DEF Dies
<1>t. /\ jobs \in [Job -> Row]
      /\ slots \in [Slot -> SlotState]
  BY DEF IInv, TypeOK
<1>k. Skew \in [Replica -> Nat] /\ Delay \subseteq Nat /\ Lease \in Nat
  BY OutboxConstants
<1>1. ASSUME NEW r \in Replica, NEW j \in Job, NEW d \in Delay,
             Enqueue(r, j, d)
      PROVE  FALSE
  BY <1>1, <1>t DEF Enqueue, PendingRow, AbsentRow
<1>2. ASSUME NEW r \in Replica, NEW j \in Job, Retry(r, j)
      PROVE  FALSE
  BY <1>2, <1>t DEF Retry, PendingRow, AbsentRow
<1>3. ASSUME NEW r \in Replica, Cleanup(r)
      PROVE  FALSE
  BY <1>3, <1>t, AbsentIsRow DEF Cleanup
<1>4. ASSUME NEW r \in Replica, Poll(r) \/ ClaimAnswerLost(r)
      PROVE  FALSE
  <2>1. \/ jobs'[i] = jobs[i]
        \/ \E t \in Token :
              jobs'[i] = RunningRow(jobs[i].attempts + 1, Lease + Skew[r], t)
    <3>1. CASE Poll(r)
      <4>1. PICK t \in FreshTokens, W \in SUBSET FreeSlots(r) :
               \E take \in [W -> Due(r)] : Claim(r, t, take)
        BY <3>1 DEF Poll, PollFor
      <4> QED
        BY <4>1 DEF Claim, FreshTokens
    <3>2. CASE ClaimAnswerLost(r)
      BY <3>2 DEF ClaimAnswerLost, FreshTokens
    <3> QED
      BY <1>4, <3>1, <3>2
  <2>2. jobs[i].attempts + 1 \in Nat /\ Lease + Skew[r] \in Int
    BY <1>t, <1>k DEF Row
  <2> QED
    BY <2>1, <2>2, RunningIsRow
<1>5. ASSUME NEW r \in Replica, ReapStuck(r)
      PROVE  jobs[i].attempts = MaxAttempts[i]
  <2>1. i \in Stuck(r)
    BY <1>5 DEF ReapStuck
  <2>2. jobs[i].attempts \in Nat /\ MaxAttempts[i] \in Nat
        /\ jobs[i].attempts <= MaxAttempts[i]
    BY <1>t, OutboxConstants DEF IInv, AttemptBudget, Row
  <2> QED
    BY <2>1, <2>2 DEF Stuck
<1>6. ASSUME NEW r \in Replica,
             \/ Start(r) \/ Shutdown(r) \/ LoopsEnd(r) \/ ShutdownReturns(r)
             \/ CancelJobs(r) \/ Crash(r)
      PROVE  FALSE
  BY <1>6 DEF Start, Shutdown, LoopsEnd, ShutdownReturns, CancelJobs, Crash
<1>7. ASSUME NEW w \in Slot, Heartbeat(w)
      PROVE  FALSE
  BY <1>7, <1>t DEF Heartbeat, Row
<1>8. ASSUME NEW w \in Slot, NEW result \in {"ok", "fail", "permanent"},
             HandlerReturns(w, result)
      PROVE  FALSE
  BY <1>8 DEF HandlerReturns
<1>9. ASSUME NEW w \in Slot, NEW d \in Delay, Finish(w, d)
      PROVE  \/ jobs[i].attempts = MaxAttempts[i]
             \/ Owns(w) /\ slots[w].job = i /\ slots[w].result = "permanent"
  <2>1. /\ Owns(w) /\ slots[w].job = i
        /\ jobs'[i] = ResultRow(w, d)
    BY <1>9, <1>t DEF Finish
  <2> QED
    BY <2>1, DeadResult
<1>10. ASSUME NEW w \in Slot, FinishFails(w)
       PROVE  FALSE
  BY <1>10 DEF FinishFails
<1>11. ASSUME Tick
       PROVE  FALSE
  BY <1>11, <1>t, AgedRow DEF Tick
<1>12. ASSUME UNCHANGED vars
       PROVE  FALSE
  BY <1>12 DEF vars
<1> QED
  BY <1>1, <1>2, <1>3, <1>4, <1>5, <1>6, <1>7, <1>8, <1>9, <1>10, <1>11,
     <1>12 DEF Next

\* In every behaviour a job is dead-lettered only by a permanent error or with
\* its budget spent; takeovers, crashes, lost answers and shutdowns kill none.
THEOREM DeathIsEarned == Spec => NoEarlyDeath
<1>1. IInv /\ [Next]_vars =>
        [\A j \in Job : Dies(j) =>
            \/ jobs[j].attempts = MaxAttempts[j]
            \/ \E w \in Slot : /\ Owns(w)
                               /\ slots[w].job = j
                               /\ slots[w].result = "permanent"]_vars
  BY DeathStep
<1> QED
  BY InvariantHolds, <1>1, PTL DEF Spec, NoEarlyDeath

----------------------------------------------------------------------------
(* Uniqueness of live dedupe keys *)

\* A job comes to life only where the unique index admits it, and alone.
LEMMA LiveStep ==
    ASSUME IInv, [Next]_vars, NEW i \in Job, Live(i)'
    PROVE  \/ Live(i)
           \/ /\ IndexAdmits(i)
              /\ \A k \in Job \ {i} : jobs'[k] = jobs[k]
<1>t. jobs \in [Job -> Row]
  BY DEF IInv, TypeOK
<1>s. jobs'[i].status = jobs[i].status => Live(i)
  BY DEF Live
<1>1. ASSUME NEW r \in Replica, NEW j \in Job, NEW d \in Delay,
             Enqueue(r, j, d)
      PROVE  \/ Live(i)
             \/ IndexAdmits(i) /\ \A k \in Job \ {i} : jobs'[k] = jobs[k]
  BY <1>1, <1>s, <1>t DEF Enqueue
<1>2. ASSUME NEW r \in Replica, NEW j \in Job, Retry(r, j)
      PROVE  \/ Live(i)
             \/ IndexAdmits(i) /\ \A k \in Job \ {i} : jobs'[k] = jobs[k]
  BY <1>2, <1>s, <1>t DEF Retry
<1>3. ASSUME NEW r \in Replica, Cleanup(r)
      PROVE  Live(i)
  BY <1>3, <1>s, AbsentIsRow DEF Cleanup, Live
<1>4. ASSUME NEW r \in Replica, Poll(r) \/ ClaimAnswerLost(r)
      PROVE  Live(i)
  <2>1. jobs'[i] = jobs[i] \/ i \in Due(r)
    <3>1. CASE Poll(r)
      <4>1. PICK t \in FreshTokens, W \in SUBSET FreeSlots(r) :
               \E take \in [W -> Due(r)] : Claim(r, t, take)
        BY <3>1 DEF Poll, PollFor
      <4> QED
        BY <4>1 DEF Claim
    <3>2. CASE ClaimAnswerLost(r)
      BY <3>2 DEF ClaimAnswerLost
    <3> QED
      BY <1>4, <3>1, <3>2
  <2> QED
    BY <1>s, <2>1 DEF Due, Live
<1>5. ASSUME NEW r \in Replica, ReapStuck(r)
      PROVE  Live(i)
  BY <1>5, <1>s DEF ReapStuck, Stuck, Live
<1>6. ASSUME NEW w \in Slot, Heartbeat(w)
      PROVE  Live(i)
  BY <1>6, <1>s, <1>t DEF Heartbeat, Row
<1>7. ASSUME NEW w \in Slot, NEW d \in Delay, Finish(w, d)
      PROVE  Live(i)
  BY <1>7, <1>s, <1>t DEF Finish, Owns, Live
<1>8. ASSUME Tick
      PROVE  Live(i)
  BY <1>8, <1>s, <1>t, AgedRow DEF Tick
<1>9. ASSUME UNCHANGED jobs
      PROVE  Live(i)
  BY <1>9, <1>s
<1> QED
  BY <1>1, <1>2, <1>3, <1>4, <1>5, <1>6, <1>7, <1>8, <1>9
  DEF Next, Start, Shutdown, LoopsEnd, CancelJobs, ShutdownReturns, Crash,
      HandlerReturns, FinishFails, vars

\* No two live jobs ever share a kind and a dedupe key, however Enqueue, Retry
\* and the workers of any number of replicas interleave: Retry of a dead job
\* respects the index as Enqueue does, and nothing else makes a job live.
THEOREM KeysUnique == Spec => []OneLivePerKey
<1>1. Init => OneLivePerKey
  BY AbsentIsRow DEF Init, OneLivePerKey, Live
<1>2. IInv /\ OneLivePerKey /\ [Next]_vars => OneLivePerKey'
  <2> SUFFICES ASSUME IInv, OneLivePerKey, [Next]_vars,
                      NEW i \in Job, NEW j \in Job,
                      i # j, Live(i)', Live(j)',
                      Kind[i] = Kind[j], DedupeKey[i] = DedupeKey[j]
               PROVE  DedupeKey[i] = NoKey
    BY DEF OneLivePerKey
  <2>1. CASE Live(i) /\ Live(j)
    BY <2>1 DEF OneLivePerKey
  <2>2. CASE ~Live(i)
    <3>1. IndexAdmits(i) /\ \A k \in Job \ {i} : jobs'[k] = jobs[k]
      BY <2>2, LiveStep
    <3>2. Live(j)
      BY <3>1 DEF Live
    <3> QED
      BY <3>1, <3>2 DEF IndexAdmits
  <2>3. CASE ~Live(j)
    <3>1. IndexAdmits(j) /\ \A k \in Job \ {j} : jobs'[k] = jobs[k]
      BY <2>3, LiveStep
    <3>2. Live(i)
      BY <3>1 DEF Live
    <3> QED
      BY <3>1, <3>2 DEF IndexAdmits
  <2> QED
    BY <2>1, <2>2, <2>3
<1> QED
  BY InvariantHolds, <1>1, <1>2, PTL DEF Spec

----------------------------------------------------------------------------
(* The table, its leases and tokens implement the leased queue *)

\* An idle slot works on nothing.
IdleIsEmpty == \A w \in Slot : slots[w].pc = "idle" => slots[w].job = NoJob

\* Slots go idle through IdleSlot only.
LEMMA IdleStep == IInv /\ IdleIsEmpty /\ [Next]_vars => IdleIsEmpty'
<1> SUFFICES ASSUME IInv, IdleIsEmpty, [Next]_vars,
                    NEW w \in Slot, slots'[w].pc = "idle"
             PROVE  slots'[w].job = NoJob
  BY DEF IdleIsEmpty
<1>t. slots \in [Slot -> SlotState]
  BY DEF IInv, TypeOK
<1>i. slots'[w] = slots[w] \/ slots'[w] = IdleSlot => slots'[w].job = NoJob
  BY DEF IdleIsEmpty, IdleSlot
<1>1. ASSUME NEW r \in Replica, Poll(r)
      PROVE  slots'[w] = slots[w]
  <2>1. PICK t \in FreshTokens, W \in SUBSET FreeSlots(r) :
           \E take \in [W -> Due(r)] : Claim(r, t, take)
    BY <1>1 DEF Poll, PollFor
  <2> QED
    BY <2>1 DEF Claim, StartedSlot
<1>2. ASSUME NEW r \in Replica, CancelJobs(r)
      PROVE  slots'[w] = slots[w]
  BY <1>2, <1>t DEF CancelJobs, SlotState
<1>3. ASSUME NEW r \in Replica, Crash(r)
      PROVE  slots'[w] = slots[w] \/ slots'[w] = IdleSlot
  BY <1>3 DEF Crash
<1>4. ASSUME NEW v \in Slot,
             \/ Heartbeat(v)
             \/ \E result \in {"ok", "fail", "permanent"} :
                   HandlerReturns(v, result)
      PROVE  slots'[w] = slots[w]
  BY <1>4, <1>t DEF Heartbeat, HandlerReturns, SlotState
<1>5. ASSUME NEW v \in Slot, FinishFails(v) \/ \E d \in Delay : Finish(v, d)
      PROVE  slots'[w] = slots[w] \/ slots'[w] = IdleSlot
  BY <1>5, <1>t DEF Finish, FinishFails
<1>6. ASSUME UNCHANGED slots
      PROVE  slots'[w] = slots[w]
  BY <1>6
<1> QED
  BY <1>i, <1>1, <1>2, <1>3, <1>4, <1>5, <1>6
  DEF Next, Enqueue, Retry, Cleanup, ClaimAnswerLost, ReapStuck, Start, Shutdown,
      LoopsEnd, ShutdownReturns, Tick, vars

\* The queue sees a row's phase through its status alone.
LEMMA PhaseTold ==
    ASSUME NEW j \in Job
    PROVE  /\ jobs[j].status = "pending" => PhaseOf(j) = "queued"
           /\ jobs[j].status = "running" => PhaseOf(j) = "held"
           /\ jobs[j].status \in {"done", "dead"} => PhaseOf(j) = "ended"
           /\ jobs[j].status = "absent" => PhaseOf(j) = "absent"
           /\ jobs'[j].status = "pending" => PhaseOf(j)' = "queued"
           /\ jobs'[j].status = "running" => PhaseOf(j)' = "held"
           /\ jobs'[j].status \in {"done", "dead"} => PhaseOf(j)' = "ended"
           /\ jobs'[j].status = "absent" => PhaseOf(j)' = "absent"
           /\ jobs'[j].status = jobs[j].status => PhaseOf(j)' = PhaseOf(j)
  BY DEF PhaseOf

\* Nobody holds a row that is not running.
LEMMA NoHolders ==
    ASSUME NEW j \in Job, jobs'[j].status # "running"
    PROVE  HoldersOf(j)' = {}
  BY DEF HoldersOf, Owns

\* What the queue sees of job j does not change.
SameItem(j) == /\ PhaseOf(j)' = PhaseOf(j)
               /\ HoldersOf(j)' = HoldersOf(j)
               /\ jobs'[j].attempts = jobs[j].attempts

\* Slot w works on as before.
SameSlot(w) == /\ slots'[w].job = slots[w].job
               /\ slots'[w].token = slots[w].token
               /\ slots'[w].pc = "idle" <=> slots[w].pc = "idle"

\* Who holds a row that keeps its lock: the holders that did not stop.
LEMMA HoldersLeft ==
    ASSUME NEW j \in Job, KeptRow(j), NEW A \in SUBSET Slot,
           \A w \in A : slots'[w] = IdleSlot,
           \A w \in Slot \ A : SameSlot(w)
    PROVE  HoldersOf(j)' = HoldersOf(j) \ A
<1>1. \A w \in A : ~Owns(w)'
  BY IdleIsSlot DEF Owns
<1>2. \A w \in Slot \ A : slots[w].job = j => (Owns(w)' <=> Owns(w))
  BY DEF Owns, KeptRow, SameSlot
<1>3. \A w \in Slot \ A : slots'[w].job = slots[w].job
  BY DEF SameSlot
<1> QED
  BY <1>1, <1>2, <1>3 DEF HoldersOf

\* A row that keeps status, attempts and lock, while the slots work on.
LEMMA KeptIsSame ==
    ASSUME \A w \in Slot : SameSlot(w), NEW j \in Job, KeptRow(j)
    PROVE  SameItem(j)
<1>1. HoldersOf(j)' = HoldersOf(j) \ {}
  BY HoldersLeft
<1>2. PhaseOf(j)' = PhaseOf(j)
  BY PhaseTold DEF KeptRow
<1> QED
  BY <1>1, <1>2 DEF SameItem, KeptRow

\* Slots that stop without a write leave their jobs as they are.
LEMMA LeaveStep ==
    ASSUME UNCHANGED jobs, NEW A \in SUBSET Slot,
           \A w \in A : slots'[w] = IdleSlot,
           \A w \in Slot \ A : slots'[w] = slots[w]
    PROVE  Queue!Leave(A)
<1>1. /\ \A j \in Job : KeptRow(j)
      /\ \A w \in Slot \ A : SameSlot(w)
  BY DEF KeptRow, SameSlot
<1>2. \A j \in Job : HoldersOf(j)' = HoldersOf(j) \ A
  BY <1>1, HoldersLeft
<1>3. \A j \in Job : PhaseOf(j)' = PhaseOf(j)
  BY PhaseTold
<1>4. \A w \in A : slots'[w].job = NoJob
  BY DEF IdleSlot
<1> QED
  BY <1>2, <1>3, <1>4 DEF Queue!Leave

\* The slots of W that take job j.
TakersOf(W, take, j) == {w \in W : take[w] = j}

\* The slots of W take the jobs in S, and the queue sees nothing else.
Taking(S, W, take) ==
    /\ S \in SUBSET Job
    /\ \A j \in S : /\ PhaseOf(j) \in {"queued", "held"}
                    /\ PhaseOf(j)' = "held"
                    /\ HoldersOf(j)' = TakersOf(W, take, j)
                    /\ jobs[j].attempts < MaxAttempts[j]
                    /\ jobs'[j].attempts = jobs[j].attempts + 1
    /\ \A j \in Job \ S : SameItem(j)
    /\ \A w \in W : slots[w].job = NoJob /\ slots'[w].job = take[w]
    /\ \A w \in Slot \ W : slots'[w] = slots[w]

\* A claim of the jobs in S for the slots of W, under a fresh token, takes them.
LEMMA TakenByClaim ==
    ASSUME IInv, IdleIsEmpty, NEW r \in Replica, NEW t \in FreshTokens,
           NEW S \in SUBSET Due(r), NEW W \in SUBSET Slot,
           NEW take \in [W -> S],
           \A w \in W : slots[w].pc = "idle",
           jobs' = [j \in Job |->
                      IF j \in S
                      THEN RunningRow(jobs[j].attempts + 1, Lease + Skew[r], t)
                      ELSE jobs[j]],
           slots' = [w \in Slot |->
                       IF w \in W
                       THEN StartedSlot(take[w], t, jobs[take[w]].attempts + 1)
                       ELSE slots[w]]
    PROVE  Taking(S, W, take)
<1>1. t \in Token /\ \A w \in Slot : slots[w].token # t
  BY DEF FreshTokens
<1>2. \A j \in S : /\ j \in Job
                   /\ jobs[j].status \in {"pending", "running"}
                   /\ jobs[j].attempts < MaxAttempts[j]
                   /\ jobs[j].attempts + 1 \in Nat
  BY DueHasBudget DEF Due, IInv, TypeOK, Row
<1>3. \A j \in S : /\ jobs'[j].status = "running"
                   /\ jobs'[j].attempts = jobs[j].attempts + 1
                   /\ jobs'[j].lockedBy = t
  <2> TAKE j \in S
  <2>1. Lease + Skew[r] \in Int
    BY OutboxConstants
  <2>2. jobs'[j] = RunningRow(jobs[j].attempts + 1, Lease + Skew[r], t)
    BY <1>2
  <2> QED
    BY <1>1, <1>2, <2>1, <2>2, RunningIsRow
<1>4. \A j \in Job \ S : jobs'[j] = jobs[j]
  OBVIOUS
<1>5. \A w \in W : /\ slots'[w].pc = "running"
                   /\ slots'[w].job = take[w]
                   /\ slots'[w].token = t
                   /\ take[w] \in S
  BY DEF StartedSlot
<1>6. \A w \in Slot \ W : slots'[w] = slots[w]
  OBVIOUS
<1>7. ASSUME NEW j \in S
      PROVE  HoldersOf(j)' = TakersOf(W, take, j)
  <2>1. ASSUME NEW w \in W
        PROVE  Owns(w)' /\ slots'[w].job = take[w]
    <3>1. /\ slots'[w].pc = "running" /\ slots'[w].job = take[w]
          /\ slots'[w].token = t /\ take[w] \in S
      BY <1>5, <2>1
    <3>2. jobs'[take[w]].status = "running" /\ jobs'[take[w]].lockedBy = t
      BY <1>3, <3>1
    <3> QED
      BY <3>1, <3>2 DEF Owns
  <2>2. ASSUME NEW w \in Slot \ W, slots'[w].job = j
        PROVE  ~Owns(w)'
    <3>1. jobs'[j].lockedBy = t /\ slots'[w].token # t
      BY <1>1, <1>3, <1>6, <1>7, <2>2
    <3> QED
      BY <2>2, <3>1 DEF Owns
  <2> QED
    BY <2>1, <2>2 DEF HoldersOf, TakersOf
<1>8. ASSUME NEW j \in Job \ S
      PROVE  SameItem(j)
  <2>1. ASSUME NEW w \in W
        PROVE  slots'[w].job # j /\ ~Owns(w)
    <3>1. slots'[w].job = take[w] /\ take[w] \in S
      BY <1>5, <2>1
    <3>2. slots'[w].job # j
      BY <1>8, <3>1
    <3> QED
      BY <2>1, <3>2 DEF Owns
  <2>2. ASSUME NEW w \in Slot \ W, slots[w].job = j
        PROVE  Owns(w)' <=> Owns(w)
    BY <1>4, <1>6, <2>2 DEF Owns
  <2>3. HoldersOf(j)' = HoldersOf(j)
    BY <1>6, <2>1, <2>2 DEF HoldersOf
  <2> QED
    BY <1>4, <2>3, PhaseTold DEF SameItem
<1>9. \A j \in S : PhaseOf(j) \in {"queued", "held"} /\ PhaseOf(j)' = "held"
  BY <1>2, <1>3, PhaseTold
<1>10. \A w \in W : slots[w].job = NoJob
  BY DEF IdleIsEmpty
<1> QED
  BY <1>2, <1>3, <1>5, <1>6, <1>7, <1>8, <1>9, <1>10 DEF Taking

\* The row an owner writes ends the job, or queues it with the attempt spent or
\* given back.
LEMMA ResultAttempts ==
    ASSUME IInv, NEW w \in Slot, Owns(w), NEW d \in Delay, NEW j, j = slots[w].job
    PROVE  \/ /\ ResultRow(w, d).status \in {"done", "dead"}
              /\ ResultRow(w, d).attempts = jobs[j].attempts
           \/ /\ ResultRow(w, d).status = "pending"
              /\ ResultRow(w, d).attempts \in {jobs[j].attempts,
                                               jobs[j].attempts - 1}
<1> DEFINE r == ReplicaOf[w]
           n == jobs[j].attempts
<1>1. j \in Job /\ r \in Replica /\ n \in Nat /\ n > 0 /\ d \in Nat
  BY OutboxConstants DEF Owns, IInv, TypeOK, Row, AttemptBudget
<1>2. /\ Skew[r] \in Nat /\ Skew[r] + d \in Nat /\ n - 1 \in Nat
      /\ RetainUntil(r, RetainDone) \in Int
      /\ RetainUntil(r, RetainDead) \in Int
  BY <1>1, RetainType
<1>3. \/ ResultRow(w, d) = EndedRow("done", n, RetainUntil(r, RetainDone))
      \/ ResultRow(w, d) = EndedRow("dead", n, RetainUntil(r, RetainDead))
      \/ ResultRow(w, d) = PendingRow(n - 1, Skew[r])
      \/ ResultRow(w, d) = PendingRow(n, Skew[r] + d)
  BY <1>1 DEF ResultRow
<1> HIDE DEF r, n
<1>4. \/ /\ ResultRow(w, d).status \in {"done", "dead"}
         /\ ResultRow(w, d).attempts = n
      \/ /\ ResultRow(w, d).status = "pending"
         /\ ResultRow(w, d).attempts \in {n, n - 1}
  BY <1>1, <1>2, <1>3, EndedIsRow, PendingIsRow
<1> QED
  BY <1>4 DEF n

\* An owner that writes its result decides its job, and stops.
LEMMA DecideStep ==
    ASSUME IInv, NEW w \in Slot, NEW d \in Delay, Finish(w, d),
           slots[w].cause # "lost", Owns(w), NEW j, j = slots[w].job
    PROVE  j \in Job /\ Queue!Decide(w, j)
<1>1. /\ jobs' = [jobs EXCEPT ![j] = ResultRow(w, d)]
      /\ slots' = [slots EXCEPT ![w] = IdleSlot]
  BY DEF Finish
<1>2. /\ j \in Job
      /\ ResultRow(w, d) \in Row
      /\ ResultRow(w, d).status = "pending" =>
            ResultRow(w, d).attempts < MaxAttempts[j]
  BY ResultIsFree
<1>3. /\ jobs'[j] = ResultRow(w, d)
      /\ \A k \in Job \ {j} : jobs'[k] = jobs[k]
  BY <1>1, <1>2 DEF IInv, TypeOK
<1>4. /\ slots'[w].job = NoJob
      /\ \A v \in Slot \ {w} : slots'[v] = slots[v]
  BY <1>1 DEF IInv, TypeOK, IdleSlot
<1>5. HoldersOf(j)' = {} /\ w \in HoldersOf(j)
  <2>1. jobs'[j].status # "running"
    BY <1>3, ResultIsFree
  <2> QED
    BY <1>2, <2>1, NoHolders DEF HoldersOf
<1>6. ASSUME NEW k \in Job \ {j}
      PROVE  SameItem(k)
  <2>1. PhaseOf(k)' = PhaseOf(k) /\ jobs'[k].attempts = jobs[k].attempts
    BY <1>3, PhaseTold
  <2>2. HoldersOf(k)' = HoldersOf(k)
    <3>1. ~(Owns(w) /\ slots[w].job = k) /\ ~(slots'[w].job = k)
      BY <1>4, OutboxConstants
    <3>2. ASSUME NEW v \in Slot \ {w}, slots[v].job = k
          PROVE  Owns(v)' <=> Owns(v)
      BY <1>3, <1>4, <3>2 DEF Owns
    <3> QED
      BY <1>4, <3>1, <3>2 DEF HoldersOf
  <2> QED
    BY <2>1, <2>2 DEF SameItem
<1> DEFINE used == [k \in Job |-> jobs[k].attempts]
<1>7. used[j] = jobs[j].attempts
  BY <1>2
<1> HIDE DEF used
<1>8. \/ Queue!Put(j, "ended", {}, used[j])
      \/ \E n \in {used[j], used[j] - 1} :
            n < MaxAttempts[j] /\ Queue!Put(j, "queued", {}, n)
  <2>1. CASE /\ ResultRow(w, d).status \in {"done", "dead"}
             /\ ResultRow(w, d).attempts = jobs[j].attempts
    <3>1. PhaseOf(j)' = "ended" /\ jobs'[j].attempts = used[j]
      BY <1>2, <1>3, <1>7, <2>1, PhaseTold
    <3>2. Queue!Put(j, "ended", {}, used[j])
      BY <1>2, <1>5, <1>6, <3>1 DEF Queue!Put, SameItem
    <3> QED
      BY <3>2
  <2>2. CASE /\ ResultRow(w, d).status = "pending"
             /\ ResultRow(w, d).attempts \in {jobs[j].attempts,
                                              jobs[j].attempts - 1}
    <3>1. PICK n \in {used[j], used[j] - 1} : n = ResultRow(w, d).attempts
      BY <1>7, <2>2
    <3>2. PhaseOf(j)' = "queued" /\ jobs'[j].attempts = n
      BY <1>2, <1>3, <2>2, <3>1, PhaseTold
    <3>3. Queue!Put(j, "queued", {}, n)
      BY <1>2, <1>5, <1>6, <3>2 DEF Queue!Put, SameItem
    <3>4. n < MaxAttempts[j]
      BY <1>2, <2>2, <3>1
    <3> QED
      BY <3>3, <3>4, Zenon
  <2> QED
    BY <2>1, <2>2, ResultAttempts
<1>9. /\ [v \in Slot |-> slots[v].job][w] = j
      /\ w \in [k \in Job |-> HoldersOf(k)][j]
      /\ [v \in Slot |-> slots[v].job]' =
           [[v \in Slot |-> slots[v].job] EXCEPT ![w] = NoJob]
  BY <1>2, <1>4, <1>5
<1>10. CASE Queue!Put(j, "ended", {}, used[j])
  <2>1. Queue!Put(j, "ended", {}, [k \in Job |-> jobs[k].attempts][j])
    BY <1>10 DEF used
  <2>2. Queue!Decide(w, j)
    BY <1>9, <2>1 DEF Queue!Decide, Queue!Put
  <2> QED
    BY <1>2, <2>2
<1>11. CASE \E n \in {used[j], used[j] - 1} :
               n < MaxAttempts[j] /\ Queue!Put(j, "queued", {}, n)
  BY <1>2, <1>9, <1>11, Zenon DEF Queue!Decide, used
<1> QED
  BY <1>2, <1>8, <1>10, <1>11

\* Every step of the job queue is a step of the leased queue, or none.
LEMMA QueueStep ==
    ASSUME IInv, IdleIsEmpty, [Next]_vars
    PROVE  Queue!QNext \/ UNCHANGED Queue!qvars
<1>t. /\ jobs \in [Job -> Row]
      /\ slots \in [Slot -> SlotState]
  BY DEF IInv, TypeOK
<1>k. /\ \A j \in Job : jobs'[j] = jobs[j] => KeptRow(j)
      /\ \A w \in Slot : slots'[w] = slots[w] => SameSlot(w)
  <2>1. \A j \in Job : jobs'[j] = jobs[j] => KeptRow(j)
    BY DEF KeptRow
  <2>2. \A w \in Slot : slots'[w] = slots[w] => SameSlot(w)
    BY DEF SameSlot
  <2> QED
    BY <2>1, <2>2
<1>s. ASSUME \A j \in Job : KeptRow(j), \A w \in Slot : SameSlot(w)
      PROVE  UNCHANGED Queue!qvars
  <2>1. \A j \in Job : SameItem(j)
    BY <1>s, KeptIsSame
  <2> QED
    BY <1>s, <2>1 DEF SameItem, SameSlot, Queue!qvars
<1>o. ASSUME UNCHANGED slots, NEW j \in Job,
             \A k \in Job \ {j} : jobs'[k] = jobs[k],
             jobs'[j].status = "pending", jobs'[j].attempts = 0
      PROVE  /\ Queue!Put(j, "queued", {}, 0)
             /\ UNCHANGED [w \in Slot |-> slots[w].job]
  <2>1. \A k \in Job \ {j} : SameItem(k)
    BY <1>k, <1>o, KeptIsSame
  <2>2. PhaseOf(j)' = "queued" /\ HoldersOf(j)' = {}
    BY <1>o, PhaseTold, NoHolders
  <2> QED
    BY <1>o, <2>1, <2>2 DEF Queue!Put, SameItem
<1>1. ASSUME NEW r \in Replica, NEW j \in Job, NEW d \in Delay,
             Enqueue(r, j, d)
      PROVE  Queue!QNext
  <2>1. /\ Skew[r] + d \in Nat
        /\ jobs[j] = AbsentRow
        /\ jobs' = [jobs EXCEPT ![j] = PendingRow(0, Skew[r] + d)]
        /\ slots' = slots
    BY <1>1, OutboxConstants DEF Enqueue
  <2>2. /\ jobs'[j].status = "pending" /\ jobs'[j].attempts = 0
        /\ \A k \in Job \ {j} : jobs'[k] = jobs[k]
    BY <1>t, <2>1, PendingIsRow
  <2>3. [k \in Job |-> PhaseOf(k)][j] = "absent"
    BY <2>1, AbsentIsRow, PhaseTold
  <2>4. Queue!Submit(j)
    BY <1>o, <2>1, <2>2, <2>3, Zenon DEF Queue!Submit
  <2> QED
    BY <2>4 DEF Queue!QNext
<1>2. ASSUME NEW r \in Replica, NEW j \in Job, Retry(r, j)
      PROVE  Queue!QNext \/ UNCHANGED Queue!qvars
  <2>1. Skew[r] \in Nat /\ slots' = slots
    BY <1>2, OutboxConstants DEF Retry
  <2>2. CASE jobs[j].status = "dead"
    <3>1. jobs' = [jobs EXCEPT ![j] = PendingRow(0, Skew[r])]
      BY <1>2, <2>2 DEF Retry
    <3>2. /\ jobs'[j].status = "pending" /\ jobs'[j].attempts = 0
          /\ \A k \in Job \ {j} : jobs'[k] = jobs[k]
      BY <1>t, <2>1, <3>1, PendingIsRow
    <3>3. [k \in Job |-> PhaseOf(k)][j] = "ended"
      BY <2>2, PhaseTold
    <3>4. Queue!Revive(j)
      BY <1>o, <2>1, <3>2, <3>3, Zenon DEF Queue!Revive
    <3> QED
      BY <3>4 DEF Queue!QNext
  <2>3. CASE jobs[j].status = "pending"
    <3>1. jobs' = [jobs EXCEPT ![j] = PendingRow(jobs[j].attempts, Skew[r])]
      BY <1>2, <2>3 DEF Retry
    <3>2. jobs[j].attempts \in Nat /\ jobs[j].lockedBy = NoToken
      BY <2>3 DEF IInv, TypeOK, Row
    <3>3. KeptRow(j) /\ \A k \in Job \ {j} : jobs'[k] = jobs[k]
      BY <1>t, <2>1, <2>3, <3>1, <3>2, PendingIsRow DEF KeptRow
    <3> QED
      BY <1>k, <1>s, <2>1, <3>3
  <2> QED
    BY <1>2, <2>2, <2>3 DEF Retry
<1>3. ASSUME NEW r \in Replica, Cleanup(r)
      PROVE  Queue!QNext
  <2>1. PICK S \in SUBSET Job :
          /\ \A j \in S : jobs[j].status \in {"done", "dead"}
          /\ jobs' = [j \in Job |-> IF j \in S THEN AbsentRow ELSE jobs[j]]
          /\ slots' = slots
    BY <1>3 DEF Cleanup, Outdated
  <2>2. ASSUME NEW j \in S
        PROVE  /\ j \in Job /\ PhaseOf(j) = "ended" /\ PhaseOf(j)' = "absent"
               /\ HoldersOf(j)' = {} /\ jobs'[j].attempts = 0
    BY <2>1, <2>2, AbsentIsRow, PhaseTold, NoHolders
  <2>3. \A j \in Job \ S : SameItem(j)
    BY <1>k, <2>1, KeptIsSame
  <2>4. Queue!Forget(S)
    BY <2>1, <2>2, <2>3 DEF Queue!Forget, SameItem
  <2> QED
    BY <2>4 DEF Queue!QNext
<1>4. ASSUME NEW r \in Replica, Poll(r)
      PROVE  Queue!QNext
  <2>1. PICK t \in FreshTokens, W \in SUBSET FreeSlots(r) :
           \E take \in [W -> Due(r)] : Claim(r, t, take)
    BY <1>4 DEF Poll, PollFor
  <2>2. PICK take : take \in [W -> Due(r)] /\ Claim(r, t, take)
    BY <2>1
  <2>3. PICK S \in SUBSET Due(r) : S = {take[w] : w \in W}
    BY <2>2
  <2>4. take \in [W -> S] /\ \A v, w \in W : v # w => take[v] # take[w]
    BY <2>2, <2>3 DEF Claim
  <2>5. jobs' = [j \in Job |->
                   IF j \in S
                   THEN RunningRow(jobs[j].attempts + 1, Lease + Skew[r], t)
                   ELSE jobs[j]]
    BY <2>2, <2>3, Zenon DEF Claim
  <2>6. slots' = [w \in Slot |->
                    IF w \in W
                    THEN StartedSlot(take[w], t, jobs[take[w]].attempts + 1)
                    ELSE slots[w]]
    BY <2>2 DEF Claim
  <2>7. W \in SUBSET Slot /\ \A w \in W : slots[w].pc = "idle"
    BY DEF FreeSlots, SlotsOf
  <2>t. Taking(S, W, take)
    BY <2>4, <2>5, <2>6, <2>7, TakenByClaim
  <2>8. /\ S \in SUBSET Job
        /\ \A j \in S : /\ PhaseOf(j) \in {"queued", "held"}
                        /\ PhaseOf(j)' = "held"
                        /\ HoldersOf(j)' = TakersOf(W, take, j)
                        /\ jobs[j].attempts < MaxAttempts[j]
                        /\ jobs'[j].attempts = jobs[j].attempts + 1
        /\ \A j \in Job \ S : SameItem(j)
        /\ \A w \in W : slots[w].job = NoJob /\ slots'[w].job = take[w]
        /\ \A w \in Slot \ W : slots'[w] = slots[w]
    BY <2>t DEF Taking
  <2>9. Queue!Take(take)
    <3>1. DOMAIN take = W /\ {take[w] : w \in DOMAIN take} = S
      BY <2>2, <2>3
    <3>2. /\ \A v, w \in W : v # w => take[v] # take[w]
          /\ \A w \in W : [a \in Slot |-> slots[a].job][w] = NoJob
          /\ \A j \in S : [k \in Job |-> PhaseOf(k)][j] \in {"queued", "held"}
          /\ \A j \in S : [k \in Job |-> jobs[k].attempts][j] < MaxAttempts[j]
      BY <2>4, <2>7, <2>8
    <3>3. [j \in Job |-> PhaseOf(j)]' =
            [j \in Job |-> IF j \in S THEN "held"
                           ELSE [k \in Job |-> PhaseOf(k)][j]]
      BY <2>8 DEF SameItem
    <3>4. [j \in Job |-> HoldersOf(j)]' =
            [j \in Job |-> IF j \in S THEN {w \in W : take[w] = j}
                           ELSE [k \in Job |-> HoldersOf(k)][j]]
      BY <2>8 DEF SameItem, TakersOf
    <3>5. [j \in Job |-> jobs[j].attempts]' =
            [j \in Job |-> IF j \in S THEN [k \in Job |-> jobs[k].attempts][j] + 1
                           ELSE [k \in Job |-> jobs[k].attempts][j]]
      BY <2>8 DEF SameItem
    <3>6. [w \in Slot |-> slots[w].job]' =
            [w \in Slot |-> IF w \in W THEN take[w]
                            ELSE [a \in Slot |-> slots[a].job][w]]
      BY <2>8
    <3> QED
      BY <3>1, <3>2, <3>3, <3>4, <3>5, <3>6, Zenon DEF Queue!Take
  <2>10. take \in [W -> Job]
    BY <2>4, <2>8
  <2> QED
    BY <2>7, <2>9, <2>10 DEF Queue!QNext
<1>5. ASSUME NEW r \in Replica, ClaimAnswerLost(r)
      PROVE  Queue!QNext
  <2>1. PICK t \in FreshTokens, S \in SUBSET Due(r) :
           jobs' = [j \in Job |->
                      IF j \in S
                      THEN RunningRow(jobs[j].attempts + 1, Lease + Skew[r], t)
                      ELSE jobs[j]]
    BY <1>5 DEF ClaimAnswerLost
  <2> DEFINE W == {}
             take == [w \in W |-> NoJob]
  <2>2. W \in SUBSET Slot /\ take \in [W -> S]
        /\ \A w \in W : slots[w].pc = "idle"
    OBVIOUS
  <2>3. slots' = [w \in Slot |->
                    IF w \in W
                    THEN StartedSlot(take[w], t, jobs[take[w]].attempts + 1)
                    ELSE slots[w]]
    BY <1>5, <1>t DEF ClaimAnswerLost
  <2> HIDE DEF W, take
  <2>t. Taking(S, W, take)
    BY <2>1, <2>2, <2>3, TakenByClaim
  <2>4. /\ S \in SUBSET Job
        /\ \A j \in S : /\ PhaseOf(j) \in {"queued", "held"}
                        /\ PhaseOf(j)' = "held"
                        /\ HoldersOf(j)' = TakersOf(W, take, j)
                        /\ jobs[j].attempts < MaxAttempts[j]
                        /\ jobs'[j].attempts = jobs[j].attempts + 1
        /\ \A j \in Job \ S : SameItem(j)
    BY <2>t DEF Taking
  <2>5. \A j \in S : HoldersOf(j)' = {}
    BY <2>4 DEF W, TakersOf
  <2>6. Queue!Waste(S)
    <3>1. /\ \A j \in S : [k \in Job |-> PhaseOf(k)][j] \in {"queued", "held"}
          /\ \A j \in S : [k \in Job |-> jobs[k].attempts][j] < MaxAttempts[j]
      BY <2>4
    <3>2. [j \in Job |-> PhaseOf(j)]' =
            [j \in Job |-> IF j \in S THEN "held"
                           ELSE [k \in Job |-> PhaseOf(k)][j]]
      BY <2>4 DEF SameItem
    <3>3. [j \in Job |-> HoldersOf(j)]' =
            [j \in Job |-> IF j \in S THEN {} ELSE [k \in Job |-> HoldersOf(k)][j]]
      BY <2>4, <2>5 DEF SameItem
    <3>4. [j \in Job |-> jobs[j].attempts]' =
            [j \in Job |-> IF j \in S THEN [k \in Job |-> jobs[k].attempts][j] + 1
                           ELSE [k \in Job |-> jobs[k].attempts][j]]
      BY <2>4 DEF SameItem
    <3>5. UNCHANGED [w \in Slot |-> slots[w].job]
      BY <1>5 DEF ClaimAnswerLost
    <3> QED
      BY <3>1, <3>2, <3>3, <3>4, <3>5, Zenon DEF Queue!Waste
  <2> QED
    BY <2>4, <2>6 DEF Queue!QNext
<1>6. ASSUME NEW r \in Replica, ReapStuck(r)
      PROVE  Queue!QNext
  <2>1. PICK S \in SUBSET Job : S = Stuck(r)
    BY DEF Stuck
  <2>2. /\ jobs' = [j \in Job |->
                      IF j \in S
                      THEN EndedRow("dead", jobs[j].attempts,
                                    RetainUntil(r, RetainDead))
                      ELSE jobs[j]]
        /\ slots' = slots
    BY <1>6, <2>1 DEF ReapStuck
  <2>3. ASSUME NEW j \in S
        PROVE  /\ PhaseOf(j) = "held" /\ jobs[j].attempts >= MaxAttempts[j]
               /\ PhaseOf(j)' = "ended" /\ HoldersOf(j)' = {}
               /\ jobs'[j].attempts = jobs[j].attempts
    <3>1. /\ j \in Job /\ jobs[j].status = "running"
          /\ jobs[j].attempts >= MaxAttempts[j] /\ jobs[j].attempts \in Nat
      BY <1>t, <2>1, <2>3 DEF Stuck, Row
    <3>2. RetainUntil(r, RetainDead) \in Int
      BY RetainType
    <3>3. jobs'[j].status = "dead" /\ jobs'[j].attempts = jobs[j].attempts
      BY <2>2, <2>3, <3>1, <3>2, EndedIsRow
    <3> QED
      BY <3>1, <3>3, PhaseTold, NoHolders
  <2>4. \A j \in Job \ S : SameItem(j)
    BY <1>k, <2>2, KeptIsSame
  <2>5. Queue!Bury(S)
    BY <2>2, <2>3, <2>4 DEF Queue!Bury, SameItem
  <2> QED
    BY <2>5 DEF Queue!QNext
<1>7. ASSUME \/ UNCHANGED vars
             \/ \E r \in Replica : \/ Start(r) \/ Shutdown(r) \/ LoopsEnd(r)
                                   \/ ShutdownReturns(r)
      PROVE  UNCHANGED Queue!qvars
  BY <1>7, <1>k, <1>s DEF Start, Shutdown, LoopsEnd, ShutdownReturns, vars
<1>8. ASSUME NEW r \in Replica, CancelJobs(r)
      PROVE  UNCHANGED Queue!qvars
  <2>1. \A w \in Slot : SameSlot(w)
    BY <1>8, <1>t DEF CancelJobs, SameSlot, SlotState
  <2> QED
    BY <1>8, <1>k, <1>s, <2>1 DEF CancelJobs
<1>9. ASSUME NEW r \in Replica, Crash(r)
      PROVE  Queue!QNext
  <2>1. PICK A \in SUBSET Slot : A = SlotsOf(r)
    BY DEF SlotsOf
  <2>2. /\ UNCHANGED jobs
        /\ \A w \in A : slots'[w] = IdleSlot
        /\ \A w \in Slot \ A : slots'[w] = slots[w]
    BY <1>9, <2>1 DEF Crash
  <2>3. Queue!Leave(A)
    BY <2>2, LeaveStep
  <2> QED
    BY <2>3 DEF Queue!QNext
<1>10. ASSUME NEW w \in Slot, Heartbeat(w)
       PROVE  UNCHANGED Queue!qvars
  <2>1. \A j \in Job : KeptRow(j)
    BY <1>10, <1>t DEF Heartbeat, KeptRow, Row
  <2>2. \A v \in Slot : SameSlot(v)
    BY <1>10, <1>t DEF Heartbeat, SameSlot, SlotState
  <2> QED
    BY <1>s, <2>1, <2>2
<1>11. ASSUME NEW w \in Slot, NEW result \in {"ok", "fail", "permanent"},
              HandlerReturns(w, result)
       PROVE  UNCHANGED Queue!qvars
  <2>1. \A v \in Slot : SameSlot(v)
    BY <1>11, <1>t DEF HandlerReturns, SameSlot, SlotState
  <2> QED
    BY <1>11, <1>k, <1>s, <2>1 DEF HandlerReturns
<1>12. ASSUME NEW w \in Slot, NEW d \in Delay, Finish(w, d),
              slots[w].cause # "lost" /\ Owns(w)
       PROVE  Queue!QNext
  <2>1. PICK j : j = slots[w].job
    OBVIOUS
  <2>2. j \in Job /\ Queue!Decide(w, j)
    BY <1>12, <2>1, DecideStep
  <2> QED
    BY <2>2 DEF Queue!QNext
<1>13. ASSUME NEW w \in Slot,
              \/ FinishFails(w)
              \/ \E d \in Delay : /\ Finish(w, d)
                                  /\ ~(slots[w].cause # "lost" /\ Owns(w))
       PROVE  Queue!QNext
  <2>1. UNCHANGED jobs /\ slots' = [slots EXCEPT ![w] = IdleSlot]
    BY <1>13 DEF Finish, FinishFails
  <2>2. PICK A \in SUBSET Slot : A = {w}
    OBVIOUS
  <2>3. /\ \A v \in A : slots'[v] = IdleSlot
        /\ \A v \in Slot \ A : slots'[v] = slots[v]
    BY <1>t, <2>1, <2>2
  <2>4. Queue!Leave(A)
    BY <2>1, <2>3, LeaveStep
  <2> QED
    BY <2>4 DEF Queue!QNext
<1>14. ASSUME Tick PROVE UNCHANGED Queue!qvars
  <2>1. \A j \in Job : KeptRow(j)
    BY <1>14, <1>t, AgedRow DEF Tick, KeptRow
  <2> QED
    BY <1>14, <1>k, <1>s, <2>1 DEF Tick
<1> QED
  BY <1>1, <1>2, <1>3, <1>4, <1>5, <1>6, <1>7, <1>8, <1>9, <1>10, <1>11,
     <1>12, <1>13, <1>14, Zenon DEF Next

\* The job table implements the leased queue, for any number of jobs, replicas
\* and slots and any clock skew: only the holder of the claim token decides a
\* job, a stale worker's heartbeat or result is a step that changes nothing, and
\* no job is started more often than max_attempts, attempts given back apart.
THEOREM RefinesQueue == Spec => ImplementsQueue
<1>1. Init => Queue!QInit /\ IdleIsEmpty
  <2> SUFFICES ASSUME Init PROVE Queue!QInit /\ IdleIsEmpty
    OBVIOUS
  <2>1. \A j \in Job : PhaseOf(j) = "absent" /\ jobs[j].attempts = 0
    BY AbsentIsRow, PhaseTold DEF Init
  <2>2. \A w \in Slot : slots[w].job = NoJob /\ slots[w].pc = "idle"
    BY DEF Init, IdleSlot
  <2>3. \A j \in Job : HoldersOf(j) = {}
    BY <2>2 DEF HoldersOf, Owns
  <2> QED
    BY <2>1, <2>2, <2>3 DEF Queue!QInit, IdleIsEmpty
<1>2. IInv /\ IdleIsEmpty /\ [Next]_vars => [Queue!QNext]_(Queue!qvars)
  BY QueueStep
<1> QED
  BY InvariantHolds, IdleStep, <1>1, <1>2, PTL
  DEF Spec, ImplementsQueue, Queue!QSpec
=============================================================================
