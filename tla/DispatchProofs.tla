--------------------------- MODULE DispatchProofs ---------------------------
(***************************************************************************)
(* Proofs about Dispatch for any number of chains, generations, processes, *)
(* goroutines and tokens, any lease, delays and not-ready wait.            *)
(***************************************************************************)
EXTENDS Dispatch, TLAPS

----------------------------------------------------------------------------
(* Deliveries, rows and attempts have their types *)

\* A delivery is a chain and a generation.
LEMMA DeliveryParts ==
    /\ \A c \in Chain, g \in Generation :
          <<c, g>> \in Delivery /\ <<c, g>>[1] = c /\ <<c, g>>[2] = g
    /\ \A i \in Delivery : /\ i[1] \in Chain
                           /\ i[2] \in Generation
                           /\ i = <<i[1], i[2]>>
  BY DEF Delivery

\* No row.
LEMMA AbsentIsRow ==
    /\ AbsentRow \in Row
    /\ AbsentRow.status = "absent"
    /\ AbsentRow.attempts = 0
    /\ AbsentRow.leaseToken = NoToken
  BY DEF Row, AbsentRow

\* A row with the two columns of a lease written.
WithLease(row, u, t) == [row EXCEPT !.leaseUntil = u, !.leaseToken = t]

\* A row with its attempts counted, under a status or a time for the next one.
Started(row, n) == [row EXCEPT !.status = "pending", !.attempts = n]

Scheduled(row, n, at) == [row EXCEPT !.attempts = n, !.nextAttemptAt = at]

\* Each of the three writes keeps the row's type and the other columns.
LEMMA ColumnWrites ==
    ASSUME NEW row \in Row, NEW n \in Nat, NEW at \in Nat, NEW u \in Int,
           NEW t \in Token \cup {NoToken}
    PROVE  /\ WithLease(row, u, t) \in Row
           /\ WithLease(row, u, t).status = row.status
           /\ WithLease(row, u, t).attempts = row.attempts
           /\ WithLease(row, u, t).leaseToken = t
           /\ Started(row, n) \in Row
           /\ Started(row, n).status = "pending"
           /\ Started(row, n).attempts = n
           /\ Scheduled(row, n, at) \in Row
           /\ Scheduled(row, n, at).status = row.status
           /\ Scheduled(row, n, at).attempts = n
<1>1. /\ WithLease(row, u, t) \in Row
      /\ WithLease(row, u, t).status = row.status
      /\ WithLease(row, u, t).attempts = row.attempts
      /\ WithLease(row, u, t).leaseToken = t
  BY DEF Row, WithLease
<1>2. /\ Started(row, n) \in Row
      /\ Started(row, n).status = "pending"
      /\ Started(row, n).attempts = n
  BY DEF Row, Started
<1>3. /\ Scheduled(row, n, at) \in Row
      /\ Scheduled(row, n, at).status = row.status
      /\ Scheduled(row, n, at).attempts = n
  BY DEF Row, Scheduled
<1> QED
  BY <1>1, <1>2, <1>3

\* A row leased for an attempt.
LEMMA LeasedIsRow ==
    ASSUME NEW row \in Row, NEW n \in Nat, NEW t \in Token
    PROVE  /\ LeasedRow(row, n, t) \in Row
           /\ LeasedRow(row, n, t).status = "pending"
           /\ LeasedRow(row, n, t).attempts = n
           /\ LeasedRow(row, n, t).leaseToken = t
<1>1. LeasedRow(row, n, t) = WithLease(Started(row, n), Lease, t)
  BY DEF LeasedRow, WithLease, Started
<1>2. Lease \in Int
  BY DispatchConstants
<1> QED
  BY <1>1, <1>2, ColumnWrites

\* A row whose lease is given up.
LEMMA WaitingIsRow ==
    ASSUME NEW row \in Row, NEW n \in Nat, NEW at \in Nat, NEW age \in Int
    PROVE  WaitingRow(row, n, at, age) \in Row
<1> DEFINE freed == WithLease(Scheduled(row, n, at), 0, NoToken)
<1>1. freed \in Row
  BY ColumnWrites
<1>2. WaitingRow(row, n, at, age) = [freed EXCEPT !.notReady = age]
  BY DEF WaitingRow, WithLease, Scheduled
<1> HIDE DEF freed
<1> QED
  BY <1>1, <1>2 DEF Row

LEMMA WaitingColumns ==
    ASSUME NEW row \in Row, NEW n, NEW at, NEW age
    PROVE  /\ WaitingRow(row, n, at, age).status = row.status
           /\ WaitingRow(row, n, at, age).attempts = n
           /\ WaitingRow(row, n, at, age).leaseToken = NoToken
  BY DEF WaitingRow, Row

\* A row that ended.
LEMMA EndedIsRow ==
    ASSUME NEW row \in Row, NEW s \in {"delivered", "dead", "cancelled"}
    PROVE  /\ EndedRow(row, s) \in Row
           /\ EndedRow(row, s).status = s
           /\ EndedRow(row, s).attempts = row.attempts
           /\ EndedRow(row, s).leaseToken = NoToken
<1>1. row.attempts \in Nat
  BY DEF Row
<1> QED
  BY <1>1, AbsentIsRow DEF Row, EndedRow

\* Time keeps a row's type, status, attempts and token, and moves only pending
\* rows.
LEMMA AgedRow ==
    ASSUME NEW row \in Row
    PROVE  /\ Aged(row) \in Row
           /\ Aged(row).status = row.status
           /\ Aged(row).attempts = row.attempts
           /\ Aged(row).leaseToken = row.leaseToken
           /\ row.status # "pending" => Aged(row) = row
<1>1. CASE row.status # "pending"
  BY <1>1 DEF Aged
<1>2. CASE row.status = "pending"
  <2> DEFINE at == Sooner(row.nextAttemptAt, 0)
             until == IF Leased(row) THEN Sooner(row.leaseUntil, -1)
                                     ELSE row.leaseUntil
             age == IF row.notReady \in 0..(NotReadyWait - 1)
                    THEN row.notReady + 1 ELSE row.notReady
  <2>1. at \in Nat /\ until \in Int /\ age \in Int
    BY DispatchConstants DEF Row, Sooner
  <2>2. Aged(row) = [row EXCEPT !.nextAttemptAt = at, !.leaseUntil = until,
                                !.notReady = age]
    BY <1>2 DEF Aged
  <2> HIDE DEF at, until, age
  <2> QED
    BY <2>1, <2>2, <1>2 DEF Row
<1> QED
  BY <1>1, <1>2

\* Idle and started goroutines are slot states.
LEMMA IdleIsSlot == /\ IdleSlot \in SlotState
                    /\ IdleSlot.pc = "idle"
                    /\ IdleSlot.row = NoDelivery
  BY DEF SlotState, IdleSlot, Outcomes

\* The attempt of a publisher, and one of a sweeper.
FastSlot(i, t, n) == StartedSlot(i, t, n, TRUE)

SweptSlot(i, t, n) == StartedSlot(i, t, n, FALSE)

LEMMA StartedIsSlot ==
    ASSUME NEW i \in Delivery, NEW t \in Token, NEW n \in Nat
    PROVE  /\ FastSlot(i, t, n) \in SlotState
           /\ FastSlot(i, t, n).pc = "running"
           /\ FastSlot(i, t, n).row = i
           /\ FastSlot(i, t, n).token = t
           /\ FastSlot(i, t, n).attempts = n
           /\ SweptSlot(i, t, n) \in SlotState
           /\ SweptSlot(i, t, n).pc = "running"
           /\ SweptSlot(i, t, n).row = i
           /\ SweptSlot(i, t, n).token = t
           /\ SweptSlot(i, t, n).attempts = n
  BY DEF SlotState, FastSlot, SweptSlot, StartedSlot, Outcomes

\* An attempt that came to an end.
LEMMA FinishingIsSlot ==
    ASSUME NEW s \in SlotState, NEW outcome \in Outcomes
    PROVE  [s EXCEPT !.pc = "finishing", !.outcome = outcome] \in SlotState
  BY DEF SlotState

----------------------------------------------------------------------------
(* The inductive invariant *)

\* Every process was wired with the same maxAttempts.
OneLimit == \E n \in MaxAttempts : MaxAttempts = {n}

\* A row that does not exist has no attempts, lease or streak left over.
AbsentIsEmpty ==
    \A i \in Delivery : rows[i].status = "absent" => rows[i] = AbsentRow

\* A goroutine that runs no attempt works on nothing.
IdleIsEmpty ==
    \A w \in Slot : slots[w].pc = "idle" => slots[w].row = NoDelivery

\* Of all the goroutines that run an attempt of a delivery, at most one passes
\* the fence.
OneHolder ==
    \A v, w \in Slot :
        Fenced(v) /\ Fenced(w) /\ slots[v].row = slots[w].row => v = w

\* While its write can succeed, an attempt knows the attempts of its row.
SnapshotCurrent ==
    \A w \in Slot : Fenced(w) => slots[w].attempts = rows[slots[w].row].attempts

\* A row without a lease has an attempt left; a leased one is within the limit;
\* and a row that a reaper still holds the token of has spent its attempts.
LimitKept ==
    \A i \in Delivery, n \in MaxAttempts :
        /\ Waiting(rows[i]) => rows[i].attempts < n
        /\ Leased(rows[i]) => rows[i].attempts <= n
        /\ \A r \in Replica, t \in Token :
              /\ <<i, t>> \in reaping[r]
              /\ rows[i].status = "pending"
              /\ rows[i].leaseToken = t
              => rows[i].attempts >= n

\* What every step keeps. The fence (OneHolder, SnapshotCurrent) rests on fresh
\* tokens, and the limits rest on the fence.
IInv ==
    /\ TypeOK
    /\ AbsentIsEmpty
    /\ IdleIsEmpty
    /\ OneHolder
    /\ SnapshotCurrent
    /\ DeadLettersAreDead
    /\ OneLiveGeneration
    /\ OneLimit => LimitKept

\* The empty ledger satisfies the invariant.
LEMMA InitInv == Init => IInv
<1> SUFFICES ASSUME Init PROVE IInv
  OBVIOUS
<1>1. TypeOK
  BY AbsentIsRow, IdleIsSlot DEF Init, TypeOK
<1>2. AbsentIsEmpty /\ IdleIsEmpty /\ OneHolder /\ SnapshotCurrent
  BY IdleIsSlot
  DEF Init, AbsentIsEmpty, IdleIsEmpty, OneHolder, SnapshotCurrent, Fenced
<1>3. DeadLettersAreDead
  BY DEF Init, DeadLettersAreDead
<1>4. OneLiveGeneration
  BY AbsentIsRow, DeliveryParts DEF Init, OneLiveGeneration
<1>5. LimitKept
  BY AbsentIsRow DEF Init, LimitKept, Waiting, Leased
<1> QED
  BY <1>1, <1>2, <1>3, <1>4, <1>5 DEF IInv

----------------------------------------------------------------------------
(* What a step may do to a row and to an attempt *)

\* Row i keeps what the invariant speaks of.
KeptRow(i) ==
    /\ rows'[i].status = rows[i].status
    /\ rows'[i].attempts = rows[i].attempts
    /\ rows'[i].leaseToken = rows[i].leaseToken
    /\ rows[i].status = "absent" => rows'[i] = rows[i]

\* A pending row ends.
EndsRow(i) ==
    /\ rows[i].status = "pending"
    /\ rows'[i].status \in {"delivered", "dead", "cancelled"}
    /\ rows'[i].leaseToken = NoToken

\* A pending row waits for another attempt, which it has left.
RequeuesRow(i) ==
    /\ rows[i].status = "pending"
    /\ rows'[i].status = "pending"
    /\ rows'[i].leaseToken = NoToken
    /\ OneLimit => \A n \in MaxAttempts : rows'[i].attempts < n

\* A new generation of a row the filter names waits for its first attempt.
ReplaysRow(i) ==
    /\ i[2] - 1 \in Generation
    /\ rows[<<i[1], i[2] - 1>>].status \in Replayable
    /\ rows[i].status = "absent"
    /\ rows'[i].status = "pending"
    /\ rows'[i].leaseToken = NoToken
    /\ rows'[i].attempts = 0

ForgetsRow(i) == i[1] \in Forgettable /\ rows'[i] = AbsentRow

\* The attempt of goroutine w stays what it was started as.
KeptSlot(w) ==
    /\ slots'[w].row = slots[w].row
    /\ slots'[w].token = slots[w].token
    /\ slots'[w].attempts = slots[w].attempts
    /\ slots'[w].pc = "idle" <=> slots[w].pc = "idle"

\* Only rows that are dead are announced, or about to be.
AnnouncesDead ==
    \A i \in Delivery :
        i \in letters' \/ (\E r \in Replica : <<r, i>> \in owed') =>
            \/ i \in letters
            \/ \E r \in Replica : <<r, i>> \in owed
            \/ rows'[i].status = "dead"

\* Every variable has the set it ranges over.
Domains ==
    /\ rows \in [Delivery -> Row]
    /\ slots \in [Slot -> SlotState]
    /\ mode \in [Replica -> {"down", "up", "stopped"}]
    /\ limit \in [Replica -> MaxAttempts]
    /\ reaping \in [Replica -> SUBSET (Delivery \X Token)]
    /\ owed \subseteq Replica \X Delivery
    /\ letters \subseteq Delivery

\* Every step but a claim and a scan of the reaper.
LEMMA NoLeaseStep ==
    ASSUME IInv, Domains',
           \A i \in Delivery : \/ KeptRow(i) \/ EndsRow(i) \/ RequeuesRow(i)
                               \/ ReplaysRow(i) \/ ForgetsRow(i),
           \A w \in Slot : KeptSlot(w) \/ slots'[w] = IdleSlot,
           \A r \in Replica : reaping'[r] \subseteq reaping[r],
           AnnouncesDead
    PROVE  IInv'
<1>a. AbsentRow.status = "absent" /\ AbsentRow.leaseToken = NoToken
  BY AbsentIsRow
<1>1. TypeOK'
  <2>1. \A i \in Delivery : rows'[i].leaseToken # NoToken =>
                               rows'[i].status = "pending"
    BY <1>a DEF IInv, TypeOK, KeptRow, EndsRow, RequeuesRow, ReplaysRow,
                ForgetsRow
  <2>2. \A w \in Slot : slots'[w].pc # "idle" =>
             slots'[w].row \in Delivery /\ slots'[w].token \in Token
    BY IdleIsSlot DEF IInv, TypeOK, KeptSlot
  <2> QED
    BY <2>1, <2>2 DEF TypeOK, Domains
<1>2. AbsentIsEmpty'
  BY DEF IInv, AbsentIsEmpty, KeptRow, EndsRow, RequeuesRow, ReplaysRow,
         ForgetsRow
<1>3. IdleIsEmpty'
  BY IdleIsSlot DEF IInv, IdleIsEmpty, KeptSlot
<1>4. ASSUME NEW w \in Slot, Fenced(w)'
      PROVE  /\ Fenced(w)
             /\ KeptSlot(w)
             /\ slots[w].row \in Delivery
             /\ KeptRow(slots[w].row)
  <2>1. KeptSlot(w) /\ slots[w].pc # "idle"
    BY <1>4, IdleIsSlot DEF Fenced, KeptSlot
  <2>2. slots[w].row \in Delivery /\ slots[w].token # NoToken
    BY <2>1, DispatchConstants DEF IInv, TypeOK
  <2>3. /\ rows'[slots[w].row].status = "pending"
        /\ rows'[slots[w].row].leaseToken = slots[w].token
    BY <1>4, <2>1 DEF Fenced, KeptSlot
  <2>4. KeptRow(slots[w].row)
    BY <2>2, <2>3, <1>a DEF EndsRow, RequeuesRow, ReplaysRow, ForgetsRow
  <2> QED
    BY <2>1, <2>2, <2>3, <2>4 DEF Fenced, KeptRow
<1>5. OneHolder'
  BY <1>4 DEF IInv, OneHolder, KeptSlot
<1>6. SnapshotCurrent'
  <2> SUFFICES ASSUME NEW w \in Slot, Fenced(w)'
               PROVE  slots'[w].attempts = rows'[slots'[w].row].attempts
    BY DEF SnapshotCurrent
  <2> QED
    BY <1>4 DEF IInv, SnapshotCurrent, KeptSlot, KeptRow
<1>7. DeadLettersAreDead'
  <2> SUFFICES ASSUME NEW i \in Delivery, i[1] \notin Forgettable,
                      i \in letters' \/ \E r \in Replica : <<r, i>> \in owed'
               PROVE  rows'[i].status = "dead"
    BY DEF DeadLettersAreDead
  <2>1. rows[i].status = "dead" \/ rows'[i].status = "dead"
    BY DEF AnnouncesDead, IInv, DeadLettersAreDead
  <2> QED
    BY <2>1 DEF KeptRow, EndsRow, RequeuesRow, ReplaysRow, ForgetsRow
<1>8. OneLiveGeneration'
  <2> SUFFICES ASSUME "pending" \notin Replayable,
                      NEW c \in Chain \ Forgettable, NEW g \in Generation,
                      g + 1 \in Generation,
                      rows'[<<c, g + 1>>].status # "absent"
               PROVE  rows'[<<c, g>>].status \in {"delivered", "dead", "cancelled"}
    BY DEF OneLiveGeneration, Terminal
  <2> DEFINE i == <<c, g>>
             k == <<c, g + 1>>
  <2>1. /\ i \in Delivery /\ k \in Delivery
        /\ i[1] = c /\ k[1] = c /\ k[2] = g + 1
    BY DeliveryParts
  <2>2. <<k[1], k[2] - 1>> = i
    BY <2>1, DispatchConstants DEF Generation
  <2> HIDE DEF i, k
  <2>3. rows[i].status \in {"delivered", "dead", "cancelled"}
    <3>1. CASE rows[k].status # "absent"
      BY <3>1 DEF IInv, OneLiveGeneration, Terminal, i, k
    <3>2. CASE rows[k].status = "absent"
      <4>1. ReplaysRow(k)
        BY <3>2, <2>1 DEF KeptRow, EndsRow, RequeuesRow, ForgetsRow, k
      <4> QED
        BY <4>1, <2>2, DispatchConstants DEF ReplaysRow
    <3> QED
      BY <3>1, <3>2
  <2>4. KeptRow(i)
    BY <2>1, <2>3 DEF EndsRow, RequeuesRow, ReplaysRow, ForgetsRow
  <2> QED
    BY <2>3, <2>4 DEF KeptRow, i
<1>9. OneLimit => LimitKept'
  <2> SUFFICES ASSUME OneLimit, NEW i \in Delivery, NEW n \in MaxAttempts
               PROVE  /\ Waiting(rows'[i]) => rows'[i].attempts < n
                      /\ Leased(rows'[i]) => rows'[i].attempts <= n
                      /\ \A r \in Replica, t \in Token :
                            /\ <<i, t>> \in reaping'[r]
                            /\ rows'[i].status = "pending"
                            /\ rows'[i].leaseToken = t
                            => rows'[i].attempts >= n
    BY DEF LimitKept
  <2>1. n \in Nat \ {0}
    BY DispatchConstants
  <2>2. CASE KeptRow(i)
    <3>1. /\ Waiting(rows[i]) => rows[i].attempts < n
          /\ Leased(rows[i]) => rows[i].attempts <= n
          /\ \A r \in Replica, t \in Token :
                /\ <<i, t>> \in reaping[r]
                /\ rows[i].status = "pending"
                /\ rows[i].leaseToken = t
                => rows[i].attempts >= n
      BY DEF IInv, LimitKept
    <3> QED
      BY <3>1, <2>2 DEF KeptRow, Waiting, Leased
  <2>3. CASE EndsRow(i)
    BY <2>3 DEF EndsRow, Waiting, Leased
  <2>4. CASE RequeuesRow(i) \/ ReplaysRow(i)
    BY <2>1, <2>4, DispatchConstants DEF RequeuesRow, ReplaysRow, Waiting, Leased
  <2>5. CASE ForgetsRow(i)
    BY <2>5, <1>a DEF ForgetsRow, Waiting, Leased
  <2> QED
    BY <2>2, <2>3, <2>4, <2>5
<1> QED
  BY <1>1, <1>2, <1>3, <1>5, <1>6, <1>7, <1>8, <1>9 DEF IInv, OneLimit

\* Row i is leased under token t for an attempt it has left: a first one of a row
\* that did not exist, or one more of a pending row.
LeasesRow(i, t) ==
    /\ \/ rows[i].status = "absent" /\ i[2] = 0
       \/ rows[i].status = "pending"
    /\ rows'[i].status = "pending"
    /\ rows'[i].leaseToken = t
    /\ OneLimit => \A n \in MaxAttempts : rows'[i].attempts <= n

\* Goroutine w starts the attempt of row i that was leased under t.
StartsSlot(w, i, t) ==
    /\ slots'[w].pc = "running"
    /\ slots'[w].row = i
    /\ slots'[w].token = t
    /\ slots'[w].attempts = rows'[i].attempts

\* The steps that lease rows: an enqueue, a sweep, or a claim whose answer is
\* lost (W is empty then).
LEMMA LeaseStep ==
    ASSUME IInv, Domains', NEW t \in FreshTokens,
           NEW S \in SUBSET Delivery, NEW W \in SUBSET Slot, NEW take \in [W -> S],
           \A v, w \in W : v # w => take[v] # take[w],
           \A i \in S : LeasesRow(i, t),
           \A i \in Delivery \ S : rows'[i] = rows[i],
           \A w \in W : StartsSlot(w, take[w], t),
           \A w \in Slot \ W : slots'[w] = slots[w],
           UNCHANGED <<reaping, owed, letters>>
    PROVE  IInv'
<1>1. /\ t \in Token
      /\ t # NoToken
      /\ \A w \in Slot : slots[w].token # t
      /\ \A r \in Replica, i \in Delivery : <<i, t>> \notin reaping[r]
  <2>1. t \in Token /\ t # NoToken /\ \A w \in Slot : slots[w].token # t
    BY DispatchConstants DEF FreshTokens
  <2>2. ASSUME NEW r \in Replica, NEW i \in Delivery, <<i, t>> \in reaping[r]
        PROVE  FALSE
    <3>1. t \in {p[2] : p \in reaping[r]}
      BY <2>2
    <3>2. t \in UNION {{p[2] : p \in reaping[q]} : q \in Replica}
      BY <3>1
    <3> QED
      BY <3>2 DEF FreshTokens
  <2> QED
    BY <2>1, <2>2
<1>2. TypeOK'
  <2>1. \A i \in Delivery : rows'[i].leaseToken # NoToken =>
                               rows'[i].status = "pending"
    BY DEF IInv, TypeOK, LeasesRow
  <2>2. \A w \in Slot : slots'[w].pc # "idle" =>
             slots'[w].row \in Delivery /\ slots'[w].token \in Token
    BY <1>1 DEF IInv, TypeOK, StartsSlot
  <2> QED
    BY <2>1, <2>2 DEF TypeOK, Domains
<1>3. AbsentIsEmpty' /\ IdleIsEmpty'
  BY DEF IInv, AbsentIsEmpty, IdleIsEmpty, LeasesRow, StartsSlot
<1>4. ASSUME NEW w \in Slot \ W, Fenced(w)'
      PROVE  /\ Fenced(w)
             /\ slots'[w] = slots[w]
             /\ slots[w].row \in Delivery \ S
             /\ rows'[slots[w].row] = rows[slots[w].row]
  <2>1. /\ slots'[w] = slots[w] /\ slots[w].pc # "idle"
        /\ slots[w].row \in Delivery
    BY <1>4 DEF Fenced, IInv, TypeOK
  <2>2. rows'[slots[w].row].leaseToken = slots[w].token
    BY <1>4, <2>1 DEF Fenced
  <2>3. slots[w].row \notin S
    BY <2>2, <1>1 DEF LeasesRow
  <2> QED
    BY <1>4, <2>1, <2>3 DEF Fenced
<1>5. OneHolder'
  <2> SUFFICES ASSUME NEW v \in Slot, NEW w \in Slot, Fenced(v)', Fenced(w)',
                      slots'[v].row = slots'[w].row
               PROVE  v = w
    BY DEF OneHolder
  <2>1. CASE v \in W /\ w \in W
    BY <2>1 DEF StartsSlot
  <2>2. CASE v \notin W /\ w \notin W
    BY <2>2, <1>4 DEF IInv, OneHolder
  <2>3. CASE v \in W /\ w \notin W
    BY <2>3, <1>4 DEF StartsSlot
  <2>4. CASE v \notin W /\ w \in W
    BY <2>4, <1>4 DEF StartsSlot
  <2> QED
    BY <2>1, <2>2, <2>3, <2>4
<1>6. SnapshotCurrent'
  <2> SUFFICES ASSUME NEW w \in Slot, Fenced(w)'
               PROVE  slots'[w].attempts = rows'[slots'[w].row].attempts
    BY DEF SnapshotCurrent
  <2>1. CASE w \in W
    BY <2>1 DEF StartsSlot
  <2>2. CASE w \notin W
    BY <2>2, <1>4 DEF IInv, SnapshotCurrent
  <2> QED
    BY <2>1, <2>2
<1>7. DeadLettersAreDead'
  <2>1. \A i \in Delivery : rows[i].status = "dead" => rows'[i] = rows[i]
    BY DEF LeasesRow
  <2> QED
    BY <2>1 DEF IInv, DeadLettersAreDead
<1>8. OneLiveGeneration'
  <2> SUFFICES ASSUME "pending" \notin Replayable,
                      NEW c \in Chain \ Forgettable, NEW g \in Generation,
                      g + 1 \in Generation,
                      rows'[<<c, g + 1>>].status # "absent"
               PROVE  rows'[<<c, g>>].status \in {"delivered", "dead", "cancelled"}
    BY DEF OneLiveGeneration, Terminal
  <2>1. /\ <<c, g>> \in Delivery /\ <<c, g + 1>> \in Delivery
        /\ <<c, g + 1>>[2] = g + 1
        /\ g + 1 # 0
    BY DeliveryParts, DispatchConstants DEF Generation
  <2>2. rows[<<c, g + 1>>].status # "absent"
    BY <2>1 DEF LeasesRow
  <2>3. rows[<<c, g>>].status \in {"delivered", "dead", "cancelled"}
    BY <2>2 DEF IInv, OneLiveGeneration, Terminal
  <2>4. <<c, g>> \notin S
    BY <2>3 DEF LeasesRow
  <2> QED
    BY <2>1, <2>3, <2>4
<1>9. OneLimit => LimitKept'
  <2> SUFFICES ASSUME OneLimit, NEW i \in Delivery, NEW n \in MaxAttempts
               PROVE  /\ Waiting(rows'[i]) => rows'[i].attempts < n
                      /\ Leased(rows'[i]) => rows'[i].attempts <= n
                      /\ \A r \in Replica, u \in Token :
                            /\ <<i, u>> \in reaping[r]
                            /\ rows'[i].status = "pending"
                            /\ rows'[i].leaseToken = u
                            => rows'[i].attempts >= n
    BY DEF LimitKept
  <2>1. CASE i \in S
    BY <2>1, <1>1 DEF LeasesRow, Waiting, Leased
  <2>2. CASE i \notin S
    BY <2>2 DEF IInv, LimitKept
  <2> QED
    BY <2>1, <2>2
<1> QED
  BY <1>2, <1>3, <1>5, <1>6, <1>7, <1>8, <1>9 DEF IInv, OneLimit
----------------------------------------------------------------------------
(* Every step keeps the invariant *)

\* The row a fenced attempt writes has given up its lease and ended, or waits
\* with an attempt left: the attempts it counts with are the row's.
LEMMA ResultIsFree ==
    ASSUME IInv, NEW w \in Slot, Fenced(w), NEW d \in Delay
    PROVE  LET i == slots[w].row
               row == ResultRow(w, d)
           IN  /\ i \in Delivery
               /\ rows[i].status = "pending"
               /\ row \in Row
               /\ row.leaseToken = NoToken
               /\ \/ /\ row.status \in {"delivered", "dead", "cancelled"}
                     /\ row.attempts = rows[i].attempts
                  \/ /\ row.status = "pending"
                     /\ row.attempts \in {rows[i].attempts, rows[i].attempts - 1}
                     /\ OneLimit => \A n \in MaxAttempts : row.attempts < n
<1> DEFINE i == slots[w].row
           n == slots[w].attempts
           r == ReplicaOf[w]
<1>1. /\ i \in Delivery /\ rows[i] \in Row /\ r \in Replica
      /\ rows[i].status = "pending" /\ rows[i].leaseToken # NoToken
      /\ n \in Nat /\ n = rows[i].attempts
      /\ d \in Nat /\ limit[r] \in MaxAttempts /\ limit[r] \in Nat
      /\ rows[i].notReady \in Int
  <2>1. /\ i \in Delivery /\ slots[w].token \in Token
        /\ rows[i].status = "pending" /\ rows[i].leaseToken # NoToken
    BY DispatchConstants DEF Fenced, IInv, TypeOK
  <2>2. rows[i] \in Row /\ r \in Replica /\ slots[w] \in SlotState
    BY <2>1, DispatchConstants DEF IInv, TypeOK
  <2>3. n \in Nat /\ n = rows[i].attempts
    BY <2>2 DEF IInv, SnapshotCurrent, SlotState
  <2>4. d \in Nat /\ limit[r] \in MaxAttempts /\ limit[r] \in Nat
    BY <2>2, DispatchConstants DEF IInv, TypeOK
  <2>5. rows[i].notReady \in Int
    BY <2>2 DEF Row
  <2> QED
    BY <2>1, <2>2, <2>3, <2>4, <2>5
<1>2. OneLimit => \A m \in MaxAttempts : /\ m \in Nat /\ m > 0
                                         /\ n <= m
                                         /\ m = limit[r]
  BY <1>1, DispatchConstants DEF IInv, LimitKept, Leased, OneLimit
<1>3. /\ Refund(n) \in Nat
      /\ Refund(n) \in {n, n - 1}
      /\ OneLimit => \A m \in MaxAttempts : Refund(n) < m
  BY <1>1, <1>2 DEF Refund
<1>4. \/ \E s \in {"delivered", "dead", "cancelled"} :
            ResultRow(w, d) = EndedRow(rows[i], s)
      \/ \E at \in Nat, age \in Int :
            ResultRow(w, d) = WaitingRow(rows[i], Refund(n), at, age)
      \/ /\ n < limit[r]
         /\ ResultRow(w, d) = WaitingRow(rows[i], n, d, -1)
  <2>1. CASE slots[w].outcome \in {"ok", "gone", "denied"}
    BY <2>1 DEF ResultRow
  <2>2. CASE slots[w].outcome = "noProvider"
    <3>1. ResultRow(w, d) = WaitingRow(rows[i], Refund(n), d, rows[i].notReady)
      BY <2>2 DEF ResultRow
    <3> QED
      BY <3>1, <1>1
  <2>3. CASE /\ slots[w].outcome \notin {"ok", "gone", "denied", "noProvider"}
             /\ mode[r] = "stopped"
    <3>1. ResultRow(w, d) = WaitingRow(rows[i], Refund(n), 0, rows[i].notReady)
      BY <2>3 DEF ResultRow
    <3> QED
      BY <3>1, <1>1
  <2>4. CASE /\ slots[w].outcome = "notReady" /\ StillWaits(rows[i])
             /\ mode[r] # "stopped"
    <3> DEFINE age == IF rows[i].notReady < 0 THEN 0 ELSE rows[i].notReady
    <3>1. age \in Int
      BY <1>1
    <3>2. ResultRow(w, d) = WaitingRow(rows[i], Refund(n), d, age)
      BY <2>4 DEF ResultRow
    <3> QED
      BY <3>1, <3>2, <1>1
  <2>5. CASE /\ slots[w].outcome \notin {"ok", "gone", "denied", "noProvider"}
             /\ ~(slots[w].outcome = "notReady" /\ StillWaits(rows[i]))
             /\ mode[r] # "stopped"
    BY <2>5 DEF ResultRow
  <2> QED
    BY <2>1, <2>2, <2>3, <2>4, <2>5
<1>r. rows[i] \in Row /\ rows[i].status = "pending"
  BY <1>1
<1>n. n \in Nat /\ Refund(n) \in Nat /\ d \in Nat
  BY <1>1, <1>3
<1> HIDE DEF i, n, r
<1>5. CASE \E s \in {"delivered", "dead", "cancelled"} :
             ResultRow(w, d) = EndedRow(rows[i], s)
  BY <1>5, <1>1, EndedIsRow DEF i
<1>6. CASE \E at \in Nat, age \in Int :
             ResultRow(w, d) = WaitingRow(rows[i], Refund(n), at, age)
  <2>1. PICK at \in Nat, age \in Int :
           ResultRow(w, d) = WaitingRow(rows[i], Refund(n), at, age)
    BY <1>6
  <2>2. /\ ResultRow(w, d) \in Row
        /\ ResultRow(w, d).status = "pending"
        /\ ResultRow(w, d).attempts = Refund(n)
        /\ ResultRow(w, d).leaseToken = NoToken
    <3>1. ResultRow(w, d) \in Row
      BY <2>1, <1>r, <1>n, WaitingIsRow
    <3> QED
      BY <2>1, <3>1, <1>r, WaitingColumns
  <2>3. /\ ResultRow(w, d).attempts \in {rows[i].attempts, rows[i].attempts - 1}
        /\ OneLimit => \A m \in MaxAttempts : ResultRow(w, d).attempts < m
    BY <2>2, <1>1, <1>3
  <2> QED
    BY <2>2, <2>3, <1>1, Zenon DEF i
<1>7. CASE /\ n < limit[r]
           /\ ResultRow(w, d) = WaitingRow(rows[i], n, d, -1)
  <2>1. /\ ResultRow(w, d) \in Row
        /\ ResultRow(w, d).status = "pending"
        /\ ResultRow(w, d).attempts = n
        /\ ResultRow(w, d).leaseToken = NoToken
    <3>1. ResultRow(w, d) \in Row
      BY <1>7, <1>r, <1>n, WaitingIsRow
    <3> QED
      BY <1>7, <3>1, <1>r, WaitingColumns
  <2>2. OneLimit => \A m \in MaxAttempts : n < m
    BY <1>7, <1>2
  <2>3. /\ ResultRow(w, d).attempts \in {rows[i].attempts, rows[i].attempts - 1}
        /\ OneLimit => \A m \in MaxAttempts : ResultRow(w, d).attempts < m
    BY <2>1, <2>2, <1>1, Zenon
  <2> QED
    BY <2>1, <2>3, <1>1, Zenon DEF i
<1> QED
  BY <1>4, <1>5, <1>6, <1>7

\* What the rows of a claim look like: due rows, one attempt more, under a token
\* nobody has.
LEMMA ClaimedRows ==
    ASSUME IInv, NEW r \in Replica, NEW t \in FreshTokens,
           NEW S \in SUBSET Due(r), ClaimRows(S, t)
    PROVE  /\ t \in Token
           /\ S \in SUBSET Delivery
           /\ rows' \in [Delivery -> Row]
           /\ \A i \in S : /\ LeasesRow(i, t)
                           /\ rows'[i].attempts = rows[i].attempts + 1
                           /\ rows[i].attempts + 1 \in Nat
                           /\ rows[i].status = "pending"
                           /\ rows[i].attempts < limit[r]
           /\ \A i \in Delivery \ S : rows'[i] = rows[i]
<1>1. t \in Token /\ S \in SUBSET Delivery /\ limit[r] \in MaxAttempts
  BY DEF FreshTokens, Due, IInv, TypeOK
<1>2. ASSUME NEW i \in S
      PROVE  /\ LeasesRow(i, t)
             /\ rows'[i] \in Row
             /\ rows'[i].attempts = rows[i].attempts + 1
             /\ rows[i].attempts + 1 \in Nat
             /\ rows[i].status = "pending"
             /\ rows[i].attempts < limit[r]
  <2>1. /\ i \in Delivery /\ rows[i] \in Row /\ rows[i].attempts \in Nat
        /\ rows[i].attempts + 1 \in Nat
        /\ rows[i].status = "pending" /\ rows[i].attempts < limit[r]
        /\ rows'[i] = LeasedRow(rows[i], rows[i].attempts + 1, t)
    BY <1>1, <1>2 DEF Due, IInv, TypeOK, Row, ClaimRows
  <2>2. OneLimit => \A n \in MaxAttempts : n = limit[r] /\ n \in Nat
    BY <1>1, DispatchConstants DEF OneLimit
  <2>3. OneLimit => \A n \in MaxAttempts : rows[i].attempts + 1 <= n
    BY <2>1, <2>2
  <2> QED
    BY <2>1, <2>3, <1>1, LeasedIsRow DEF LeasesRow
<1>3. \A i \in Delivery \ S : rows'[i] = rows[i]
  BY DEF ClaimRows
<1>4. rows' \in [Delivery -> Row]
  <2>1. \A i \in Delivery : rows'[i] \in Row
    BY <1>2, <1>3 DEF IInv, TypeOK
  <2> QED
    BY <2>1 DEF ClaimRows
<1> QED
  BY <1>1, <1>2, <1>3, <1>4
\* A new occurrence is leased to its publisher.
LEMMA EnqueuedRow ==
    ASSUME IInv, NEW i \in Delivery, NEW t \in FreshTokens, EnqueueRow(i, t)
    PROVE  /\ t \in Token
           /\ rows' \in [Delivery -> Row]
           /\ LeasesRow(i, t)
           /\ rows[i].status = "absent"
           /\ rows'[i].attempts = 1
           /\ \A k \in Delivery \ {i} : rows'[k] = rows[k]
<1>1. t \in Token /\ rows \in [Delivery -> Row]
  BY DEF FreshTokens, IInv, TypeOK
<1>2. /\ LeasedRow(AbsentRow, 1, t) \in Row
      /\ LeasedRow(AbsentRow, 1, t).status = "pending"
      /\ LeasedRow(AbsentRow, 1, t).attempts = 1
      /\ LeasedRow(AbsentRow, 1, t).leaseToken = t
  BY <1>1, AbsentIsRow, LeasedIsRow
<1>3. rows' = [rows EXCEPT ![i] = LeasedRow(AbsentRow, 1, t)]
      /\ i[2] = 0 /\ rows[i].status = "absent"
  BY DEF EnqueueRow
<1>4. \A n \in MaxAttempts : 1 <= n
  BY DispatchConstants
<1> QED
  BY <1>1, <1>2, <1>3, <1>4 DEF LeasesRow

\* Every step keeps the invariant.
LEMMA NextInv == IInv /\ [Next]_vars => IInv'
<1> SUFFICES ASSUME IInv, [Next]_vars PROVE IInv'
  OBVIOUS
<1>t. Domains
  BY DEF IInv, TypeOK, Domains
<1>k. /\ \A i \in Delivery : rows'[i] = rows[i] => KeptRow(i)
      /\ \A w \in Slot : slots'[w] = slots[w] => KeptSlot(w)
  BY DEF KeptRow, KeptSlot
<1>1. ASSUME NEW r \in Replica, NEW i \in Delivery, Enqueue(r, i)
      PROVE  IInv'
  <2>1. PICK t \in FreshTokens, w \in Slot :
          /\ EnqueueRow(i, t)
          /\ slots' = [slots EXCEPT ![w] = FastSlot(i, t, 1)]
    BY <1>1 DEF Enqueue, FreeSlots, SlotsOf, FastSlot
  <2>2. UNCHANGED <<mode, limit, reaping, owed, letters>>
    BY <1>1 DEF Enqueue
  <2>3. /\ t \in Token
        /\ rows' \in [Delivery -> Row]
        /\ LeasesRow(i, t)
        /\ rows'[i].attempts = 1
        /\ \A k \in Delivery \ {i} : rows'[k] = rows[k]
    BY <2>1, EnqueuedRow
  <2> DEFINE S == {i}
             W == {w}
             take == [v \in W |-> i]
  <2>4. /\ StartsSlot(w, i, t)
        /\ slots' \in [Slot -> SlotState]
        /\ \A v \in Slot \ {w} : slots'[v] = slots[v]
    BY <2>1, <2>3, <1>t, StartedIsSlot DEF StartsSlot, Domains
  <2>5. Domains'
    BY <2>2, <2>3, <2>4, <1>t DEF Domains
  <2>6. /\ S \in SUBSET Delivery /\ W \in SUBSET Slot /\ take \in [W -> S]
        /\ \A v, u \in W : v # u => take[v] # take[u]
        /\ \A k \in S : LeasesRow(k, t)
        /\ \A k \in Delivery \ S : rows'[k] = rows[k]
        /\ \A v \in W : StartsSlot(v, take[v], t)
        /\ \A v \in Slot \ W : slots'[v] = slots[v]
    BY <2>3, <2>4
  <2> HIDE DEF S, W, take
  <2> QED
    BY <2>2, <2>5, <2>6, LeaseStep
<1>2. ASSUME NEW r \in Replica, NEW i \in Delivery, EnqueueUnattended(r, i)
      PROVE  IInv'
  <2>1. PICK t \in FreshTokens : EnqueueRow(i, t)
    BY <1>2 DEF EnqueueUnattended
  <2>2. UNCHANGED <<slots, mode, limit, reaping, owed, letters>>
    BY <1>2 DEF EnqueueUnattended
  <2>3. /\ rows' \in [Delivery -> Row]
        /\ LeasesRow(i, t)
        /\ \A k \in Delivery \ {i} : rows'[k] = rows[k]
    BY <2>1, EnqueuedRow
  <2> DEFINE S == {i}
             W == {}
             take == [v \in W |-> i]
  <2>4. Domains'
    BY <2>2, <2>3, <1>t DEF Domains
  <2>5. /\ S \in SUBSET Delivery /\ W \in SUBSET Slot /\ take \in [W -> S]
        /\ \A v, u \in W : v # u => take[v] # take[u]
        /\ \A k \in S : LeasesRow(k, t)
        /\ \A k \in Delivery \ S : rows'[k] = rows[k]
        /\ \A v \in W : StartsSlot(v, take[v], t)
        /\ \A v \in Slot \ W : slots'[v] = slots[v]
    BY <2>2, <2>3
  <2> HIDE DEF S, W, take
  <2> QED
    BY <2>2, <2>4, <2>5, LeaseStep
<1>3. ASSUME NEW r \in Replica, NEW i \in Delivery, EmitDeadLetter(r, i)
      PROVE  IInv'
  <2>1. Domains'
    BY <1>3, <1>t DEF EmitDeadLetter, Domains
  <2>2. AnnouncesDead
    BY <1>3 DEF EmitDeadLetter, AnnouncesDead
  <2> QED
    BY <1>3, <1>k, <2>1, <2>2, NoLeaseStep DEF EmitDeadLetter
<1>4. ASSUME NEW r \in Replica, NEW i \in Delivery, NEW t \in Token,
             Reap(r, i, t)
      PROVE  IInv'
  <2>1. /\ reaping' \in [Replica -> SUBSET (Delivery \X Token)]
        /\ \A q \in Replica : reaping'[q] \subseteq reaping[q]
    BY <1>4, <1>t DEF Reap, Domains
  <2>2. CASE rows[i].status = "pending" /\ rows[i].leaseToken = t
    <3>1. /\ rows' = [rows EXCEPT ![i] = EndedRow(rows[i], "dead")]
          /\ owed' = owed \cup {<<r, i>>}
          /\ UNCHANGED <<slots, mode, limit, letters>>
      BY <1>4, <2>2 DEF Reap
    <3>2. /\ EndedRow(rows[i], "dead") \in Row
          /\ EndedRow(rows[i], "dead").status = "dead"
          /\ EndedRow(rows[i], "dead").leaseToken = NoToken
      BY <1>t, EndedIsRow DEF Domains
    <3>3. Domains'
      BY <1>t, <2>1, <3>1, <3>2 DEF Domains
    <3>4. EndsRow(i) /\ \A k \in Delivery \ {i} : rows'[k] = rows[k]
      BY <1>t, <2>2, <3>1, <3>2 DEF EndsRow, Domains
    <3>5. AnnouncesDead
      <4>1. rows'[i].status = "dead"
        BY <1>t, <3>1, <3>2 DEF Domains
      <4> QED
        BY <3>1, <4>1 DEF AnnouncesDead
    <3> QED
      BY <1>k, <2>1, <3>1, <3>3, <3>4, <3>5, NoLeaseStep
  <2>3. CASE ~(rows[i].status = "pending" /\ rows[i].leaseToken = t)
    <3>1. UNCHANGED <<rows, slots, mode, limit, owed, letters>>
      BY <1>4, <2>3 DEF Reap
    <3>2. Domains' /\ AnnouncesDead
      BY <1>t, <2>1, <3>1 DEF Domains, AnnouncesDead
    <3> QED
      BY <1>k, <2>1, <3>1, <3>2, NoLeaseStep
  <2> QED
    BY <2>2, <2>3
<1>5. ASSUME NEW c \in Chain, NEW g \in Generation, Replay(c, g)
      PROVE  IInv'
  <2> DEFINE i == <<c, g + 1>>
  <2>1. /\ i \in Delivery /\ i[1] = c /\ i[2] - 1 = g
        /\ <<c, g>> \in Delivery
    BY <1>5, DeliveryParts, DispatchConstants DEF Replay, Generation
  <2>2. /\ rows' = [rows EXCEPT ![i].status = "pending"]
        /\ rows[i].status = "absent"
        /\ rows[<<c, g>>].status \in Replayable
        /\ UNCHANGED <<slots, mode, limit, reaping, owed, letters>>
    BY <1>5 DEF Replay
  <2> HIDE DEF i
  <2>3. rows[i] = AbsentRow
    BY <2>1, <2>2 DEF IInv, AbsentIsEmpty
  <2>4. /\ rows'[i] \in Row
        /\ rows'[i].status = "pending"
        /\ rows'[i].leaseToken = NoToken
        /\ rows'[i].attempts = 0
    BY <1>t, <2>1, <2>2, <2>3, AbsentIsRow DEF Domains, Row
  <2>5. \A k \in Delivery \ {i} : rows'[k] = rows[k]
    BY <1>t, <2>2 DEF Domains
  <2>6. ReplaysRow(i)
    BY <2>1, <2>2, <2>4 DEF ReplaysRow
  <2>7. rows' \in [Delivery -> Row]
    BY <1>t, <2>2, <2>4, <2>5 DEF Domains
  <2>8. Domains' /\ AnnouncesDead
    BY <1>t, <2>2, <2>7 DEF Domains, AnnouncesDead
  <2> QED
    BY <1>k, <2>2, <2>5, <2>6, <2>8, NoLeaseStep
<1>6. ASSUME NEW c \in Chain, ForgetDeliveries(c)
      PROVE  IInv'
  <2>1. /\ c \in Forgettable
        /\ rows' = [i \in Delivery |-> IF i[1] = c THEN AbsentRow ELSE rows[i]]
        /\ UNCHANGED <<slots, mode, limit, reaping, owed, letters>>
    BY <1>6 DEF ForgetDeliveries
  <2>2. Domains' /\ AnnouncesDead
    BY <1>t, <2>1, AbsentIsRow DEF Domains, AnnouncesDead
  <2>3. \A i \in Delivery : rows'[i] = rows[i] \/ ForgetsRow(i)
    BY <2>1 DEF ForgetsRow
  <2> QED
    BY <1>k, <2>1, <2>2, <2>3, NoLeaseStep
<1>7. ASSUME NEW r \in Replica, Sweep(r)
      PROVE  IInv'
  <2>1. PICK t \in FreshTokens, W \in SUBSET Slot :
           \E take \in [W -> Due(r)] : Claim(r, t, take)
    BY <1>7 DEF Sweep, SweepFor, FreeSlots, SlotsOf
  <2>2. PICK take : take \in [W -> Due(r)] /\ Claim(r, t, take)
    BY <2>1
  <2>3. PICK S \in SUBSET Due(r) : S = {take[w] : w \in W}
    BY <2>2
  <2>4. take \in [W -> S] /\ \A v, w \in W : v # w => take[v] # take[w]
    BY <2>2, <2>3 DEF Claim
  <2>5. ClaimRows(S, t)
    BY <2>2, <2>3, Zenon DEF Claim
  <2>6. /\ slots' = [w \in Slot |->
                       IF w \in W
                       THEN SweptSlot(take[w], t, rows[take[w]].attempts + 1)
                       ELSE slots[w]]
        /\ UNCHANGED <<mode, limit, reaping, owed, letters>>
    BY <2>2 DEF Claim, SweptSlot
  <2>7. /\ t \in Token
        /\ S \in SUBSET Delivery
        /\ rows' \in [Delivery -> Row]
        /\ \A i \in S : /\ LeasesRow(i, t)
                        /\ rows'[i].attempts = rows[i].attempts + 1
                        /\ rows[i].attempts + 1 \in Nat
        /\ \A i \in Delivery \ S : rows'[i] = rows[i]
    BY <2>5, ClaimedRows
  <2>8. ASSUME NEW w \in W
        PROVE  slots'[w] \in SlotState /\ StartsSlot(w, take[w], t)
    <3>1. /\ take[w] \in S /\ take[w] \in Delivery
          /\ rows[take[w]].attempts + 1 \in Nat
          /\ rows'[take[w]].attempts = rows[take[w]].attempts + 1
      BY <2>4, <2>7, <2>8
    <3>2. slots'[w] = SweptSlot(take[w], t, rows[take[w]].attempts + 1)
      BY <2>6, <2>8
    <3> QED
      BY <2>7, <3>1, <3>2, StartedIsSlot DEF StartsSlot
  <2>9. \A w \in Slot \ W : slots'[w] = slots[w]
    BY <2>6
  <2>10. slots' \in [Slot -> SlotState]
    <3>1. \A w \in Slot : slots'[w] \in SlotState
      BY <1>t, <2>8, <2>9 DEF Domains
    <3> QED
      BY <2>6, <3>1
  <2>11. Domains'
    BY <1>t, <2>6, <2>7, <2>10 DEF Domains
  <2> QED
    BY <2>4, <2>6, <2>7, <2>8, <2>9, <2>11, LeaseStep
<1>8. ASSUME NEW r \in Replica, ClaimAnswerLost(r)
      PROVE  IInv'
  <2>1. PICK t \in FreshTokens, S \in SUBSET Due(r) : ClaimRows(S, t)
    BY <1>8 DEF ClaimAnswerLost
  <2>2. UNCHANGED <<slots, mode, limit, reaping, owed, letters>>
    BY <1>8 DEF ClaimAnswerLost
  <2>3. /\ S \in SUBSET Delivery
        /\ rows' \in [Delivery -> Row]
        /\ \A i \in S : LeasesRow(i, t)
        /\ \A i \in Delivery \ S : rows'[i] = rows[i]
    BY <2>1, ClaimedRows
  <2>4. Domains'
    BY <1>t, <2>2, <2>3 DEF Domains
  <2> DEFINE W == {}
             take == [w \in W |-> NoDelivery]
  <2>5. /\ W \in SUBSET Slot /\ take \in [W -> S]
        /\ \A v, w \in W : v # w => take[v] # take[w]
        /\ \A w \in W : StartsSlot(w, take[w], t)
        /\ \A w \in Slot \ W : slots'[w] = slots[w]
    BY <2>2
  <2> HIDE DEF W, take
  <2> QED
    BY <2>2, <2>3, <2>4, <2>5, LeaseStep
<1>9. ASSUME NEW r \in Replica, ReapScan(r)
      PROVE  IInv'
  <2> DEFINE found == {<<i, rows[i].leaseToken>> : i \in Exhausted(r)}
  <2>1. /\ reaping' = [reaping EXCEPT ![r] = reaping[r] \cup found]
        /\ UNCHANGED <<rows, slots, mode, limit, owed, letters>>
    BY <1>9 DEF ReapScan
  <2>2. \A i \in Exhausted(r) : /\ i \in Delivery
                                /\ rows[i].leaseToken \in Token
                                /\ rows[i].attempts >= limit[r]
    BY DEF Exhausted, LeaseOver, Leased, IInv, TypeOK, Row
  <2>3. found \in SUBSET (Delivery \X Token)
    BY <2>2
  <2>4. reaping' \in [Replica -> SUBSET (Delivery \X Token)]
    BY <1>t, <2>1, <2>3 DEF Domains
  <2>5. OneLimit => LimitKept'
    <3> SUFFICES ASSUME OneLimit, NEW i \in Delivery, NEW n \in MaxAttempts,
                        NEW q \in Replica, NEW t \in Token,
                        <<i, t>> \in reaping'[q],
                        rows[i].status = "pending", rows[i].leaseToken = t
                 PROVE  rows[i].attempts >= n
      BY <2>1 DEF LimitKept, IInv
    <3>1. CASE <<i, t>> \in reaping[q]
      BY <3>1 DEF IInv, LimitKept
    <3>2. CASE <<i, t>> \notin reaping[q]
      <4>1. <<i, t>> \in found
        BY <1>t, <2>1, <3>2 DEF Domains
      <4>2. i \in Exhausted(r)
        BY <4>1
      <4>3. n = limit[r]
        BY <1>t DEF OneLimit, Domains
      <4> QED
        BY <2>2, <4>2, <4>3
    <3> QED
      BY <3>1, <3>2
  <2>6. TypeOK'
    BY <2>1, <2>4 DEF IInv, TypeOK
  <2>7. /\ AbsentIsEmpty' /\ IdleIsEmpty' /\ OneHolder' /\ SnapshotCurrent'
        /\ DeadLettersAreDead' /\ OneLiveGeneration'
    BY <2>1 DEF IInv, AbsentIsEmpty, IdleIsEmpty, OneHolder, SnapshotCurrent,
                DeadLettersAreDead, OneLiveGeneration, Fenced
  <2> QED
    BY <2>5, <2>6, <2>7 DEF IInv, OneLimit
<1>10. ASSUME NEW r \in Replica, NEW n \in MaxAttempts, Wire(r, n)
       PROVE  IInv'
  <2>1. Domains' /\ AnnouncesDead
    BY <1>10, <1>t DEF Wire, Domains, AnnouncesDead
  <2> QED
    BY <1>10, <1>k, <2>1, NoLeaseStep DEF Wire
<1>11. ASSUME NEW r \in Replica, Stop(r)
       PROVE  IInv'
  <2>1. Domains' /\ AnnouncesDead
    BY <1>11, <1>t DEF Stop, Domains, AnnouncesDead, SlotState
  <2>2. \A w \in Slot : KeptSlot(w)
    BY <1>11, <1>t DEF Stop, Domains, KeptSlot, SlotState
  <2> QED
    BY <1>11, <1>k, <2>1, <2>2, NoLeaseStep DEF Stop
<1>12. ASSUME NEW r \in Replica, Exit(r)
       PROVE  IInv'
  <2>1. Domains' /\ AnnouncesDead
    BY <1>12, <1>t, IdleIsSlot DEF Exit, Domains, AnnouncesDead
  <2>2. \A q \in Replica : reaping'[q] \subseteq reaping[q]
    BY <1>12, <1>t DEF Exit, Domains
  <2>3. \A w \in Slot : slots'[w] = slots[w] \/ slots'[w] = IdleSlot
    BY <1>12 DEF Exit
  <2> QED
    BY <1>12, <1>k, <2>1, <2>2, <2>3, NoLeaseStep DEF Exit
<1>13. ASSUME NEW w \in Slot, Heartbeat(w)
       PROVE  IInv'
  <2>1. /\ Domains' /\ AnnouncesDead
        /\ \A i \in Delivery : KeptRow(i)
        /\ \A v \in Slot : KeptSlot(v)
    <3>1. CASE Fenced(w)
      <4>1. rows' = [rows EXCEPT ![slots[w].row].leaseUntil = Lease]
            /\ UNCHANGED <<slots, mode, limit, reaping, owed, letters>>
        BY <1>13, <3>1 DEF Heartbeat
      <4>2. slots[w].row \in Delivery /\ Lease \in Int
            /\ rows[slots[w].row].status = "pending"
        BY <3>1, DispatchConstants DEF Fenced, IInv, TypeOK
      <4>3. Domains'
        BY <1>t, <4>1, <4>2 DEF Domains, Row
      <4>4. \A i \in Delivery : KeptRow(i)
        BY <1>t, <4>1, <4>2 DEF Domains, Row, KeptRow
      <4> QED
        BY <1>k, <4>1, <4>3, <4>4 DEF AnnouncesDead
    <3>2. CASE ~Fenced(w)
      <4>1. slots' = [slots EXCEPT ![w].context = "lost"]
            /\ UNCHANGED <<rows, mode, limit, reaping, owed, letters>>
        BY <1>13, <3>2 DEF Heartbeat
      <4>2. Domains' /\ \A v \in Slot : KeptSlot(v)
        BY <1>t, <4>1 DEF Domains, SlotState, KeptSlot
      <4> QED
        BY <1>k, <4>1, <4>2 DEF AnnouncesDead
    <3> QED
      BY <3>1, <3>2
  <2>2. \A r \in Replica : reaping'[r] \subseteq reaping[r]
    BY <1>13 DEF Heartbeat
  <2> QED
    BY <2>1, <2>2, NoLeaseStep
<1>14. ASSUME NEW w \in Slot, AttemptTimeout(w)
       PROVE  IInv'
  <2>1. Domains' /\ \A v \in Slot : KeptSlot(v)
    BY <1>14, <1>t DEF AttemptTimeout, Domains, SlotState, KeptSlot
  <2>2. AnnouncesDead
    BY <1>14 DEF AttemptTimeout, AnnouncesDead
  <2> QED
    BY <1>14, <1>k, <2>1, <2>2, NoLeaseStep DEF AttemptTimeout
<1>15. ASSUME NEW w \in Slot, NEW outcome \in Outcome, AttemptEnds(w, outcome)
       PROVE  IInv'
  <2>1. outcome \in Outcomes
    BY DispatchConstants
  <2>2. Domains' /\ \A v \in Slot : KeptSlot(v)
    <3>1. /\ slots[w].pc = "running"
          /\ slots' = [slots EXCEPT ![w].pc = "finishing", ![w].outcome = outcome]
          /\ UNCHANGED <<rows, mode, limit, reaping, owed, letters>>
      BY <1>15 DEF AttemptEnds
    <3>2. Domains'
      <4>1. [slots[w] EXCEPT !.pc = "finishing", !.outcome = outcome] \in SlotState
        BY <1>t, <2>1, FinishingIsSlot DEF Domains
      <4>2. slots' \in [Slot -> SlotState]
        BY <1>t, <3>1, <4>1 DEF Domains
      <4> QED
        BY <1>t, <3>1, <4>2 DEF Domains
    <3>3. \A v \in Slot : KeptSlot(v)
      BY <1>t, <3>1 DEF Domains, SlotState, KeptSlot
    <3> QED
      BY <3>2, <3>3
  <2>3. AnnouncesDead
    BY <1>15 DEF AttemptEnds, AnnouncesDead
  <2> QED
    BY <1>15, <1>k, <2>2, <2>3, NoLeaseStep DEF AttemptEnds
<1>16. ASSUME NEW w \in Slot, NEW d \in Delay, Finish(w, d)
       PROVE  IInv'
  <2> DEFINE i == slots[w].row
  <2>1. /\ slots' \in [Slot -> SlotState]
        /\ \A v \in Slot : KeptSlot(v) \/ slots'[v] = IdleSlot
        /\ UNCHANGED <<mode, limit, reaping, letters>>
    BY <1>16, <1>k, <1>t, IdleIsSlot DEF Finish, Domains
  <2>2. CASE Writes(w)
    <3>1. /\ rows' = [rows EXCEPT ![i] = ResultRow(w, d)]
          /\ \/ owed' = owed
             \/ /\ owed' = owed \cup {<<ReplicaOf[w], i>>}
                /\ ResultRow(w, d).status = "dead"
      BY <1>16, <2>2 DEF Finish
    <3>2. /\ i \in Delivery
          /\ rows[i].status = "pending"
          /\ ResultRow(w, d) \in Row
          /\ ResultRow(w, d).leaseToken = NoToken
          /\ \/ ResultRow(w, d).status \in {"delivered", "dead", "cancelled"}
             \/ /\ ResultRow(w, d).status = "pending"
                /\ OneLimit => \A n \in MaxAttempts : ResultRow(w, d).attempts < n
      BY <2>2, ResultIsFree DEF Writes
    <3> HIDE DEF i
    <3>3. rows'[i] = ResultRow(w, d) /\ rows' \in [Delivery -> Row]
      BY <1>t, <3>1, <3>2 DEF Domains
    <3>4. EndsRow(i) \/ RequeuesRow(i)
      BY <3>2, <3>3 DEF EndsRow, RequeuesRow
    <3>5. \A k \in Delivery \ {i} : rows'[k] = rows[k]
      BY <1>t, <3>1 DEF Domains
    <3>6. owed' \subseteq Replica \X Delivery
      BY <1>t, <3>1, <3>2, DispatchConstants DEF Domains
    <3>7. Domains'
      BY <1>t, <2>1, <3>3, <3>6 DEF Domains
    <3>8. AnnouncesDead
      BY <2>1, <3>1, <3>3 DEF AnnouncesDead
    <3>9. \A r \in Replica : reaping'[r] \subseteq reaping[r]
      BY <2>1
    <3> QED
      BY <1>k, <2>1, <3>4, <3>5, <3>7, <3>8, <3>9, NoLeaseStep
  <2>3. CASE ~Writes(w)
    <3>1. rows' = rows /\ owed' = owed
      BY <1>16, <2>3 DEF Finish
    <3>2. Domains' /\ AnnouncesDead
      BY <1>t, <2>1, <3>1 DEF Domains, AnnouncesDead
    <3> QED
      BY <1>k, <2>1, <3>1, <3>2, NoLeaseStep
  <2> QED
    BY <2>2, <2>3
<1>17. ASSUME NEW w \in Slot, FinishFails(w)
       PROVE  IInv'
  <2>1. /\ Domains'
        /\ \A v \in Slot : slots'[v] = slots[v] \/ slots'[v] = IdleSlot
    BY <1>17, <1>t, IdleIsSlot DEF FinishFails, Domains
  <2>2. AnnouncesDead
    BY <1>17 DEF FinishFails, AnnouncesDead
  <2> QED
    BY <1>17, <1>k, <2>1, <2>2, NoLeaseStep DEF FinishFails
<1>18. ASSUME Tick PROVE IInv'
  <2>1. Domains' /\ \A i \in Delivery : KeptRow(i)
    BY <1>18, <1>t, AgedRow DEF Tick, Domains, KeptRow
  <2>2. AnnouncesDead
    BY <1>18 DEF Tick, AnnouncesDead
  <2> QED
    BY <1>18, <1>k, <2>1, <2>2, NoLeaseStep DEF Tick
<1>19. ASSUME UNCHANGED vars PROVE IInv'
  <2>1. Domains' /\ AnnouncesDead
    BY <1>19, <1>t DEF vars, Domains, AnnouncesDead
  <2> QED
    BY <1>19, <1>k, <2>1, NoLeaseStep DEF vars
<1> QED
  BY <1>1, <1>2, <1>3, <1>4, <1>5, <1>6, <1>7, <1>8, <1>9, <1>10, <1>11,
     <1>12, <1>13, <1>14, <1>15, <1>16, <1>17, <1>18, <1>19 DEF Next

----------------------------------------------------------------------------
(* The theorems *)

\* For every instance the invariant holds in all reachable states.
THEOREM InvariantHolds == Spec => []IInv
  BY InitInv, NextInv, PTL DEF Spec

\* The type invariant: a row holds a lease only while it is pending, and whoever
\* runs an attempt has a row and a token, whatever any number of publishers,
\* sweepers, reapers and crashes do.
THEOREM TypeCorrect == Spec => []TypeOK
<1>1. IInv => TypeOK
  BY DEF IInv
<1> QED
  BY InvariantHolds, <1>1, PTL

\* At most one goroutine of all processes can write a delivery's row, and it
\* knows how many attempts the row has.
THEOREM SingleHolder == Spec => [](OneHolder /\ SnapshotCurrent)
<1>1. IInv => OneHolder /\ SnapshotCurrent
  BY DEF IInv
<1> QED
  BY InvariantHolds, <1>1, PTL

\* A dead-letter event names a delivery that is dead and stays dead: no late
\* result, reaper or sweep brings a dead row back.
THEOREM LettersTellTheTruth == Spec => []DeadLettersAreDead
<1>1. IInv => DeadLettersAreDead
  BY DEF IInv
<1> QED
  BY InvariantHolds, <1>1, PTL

\* While Replay is asked for ended deliveries only, no two generations of one chain
\* run side by side: no late result, takeover or claim revives a replayed one.
THEOREM SingleGeneration == Spec => []OneLiveGeneration
<1>1. IInv => OneLiveGeneration
  BY DEF IInv
<1> QED
  BY InvariantHolds, <1>1, PTL

\* When all processes were given one limit, no row is ever left without a lease
\* and with its attempts spent, where neither claim nor reapExhausted sees it.
\* (Run dispatch_mixed_limits shows the hypothesis is needed.)
THEOREM ResumedByAny == ASSUME OneLimit PROVE Spec => []AnyProcessCanResume
<1>1. IInv => AnyProcessCanResume
  <2> SUFFICES ASSUME IInv, NEW i \in Delivery, NEW r \in Replica,
                      Waiting(rows[i])
               PROVE  rows[i].attempts < limit[r]
    BY DEF AnyProcessCanResume
  <2>1. limit[r] \in MaxAttempts
    BY DEF IInv, TypeOK
  <2> QED
    BY <2>1, OneLimit DEF IInv, LimitKept
<1> QED
  BY InvariantHolds, <1>1, PTL

----------------------------------------------------------------------------
(* The ledger implements the leased queue *)

RowPhase(row) == CASE Waiting(row) -> "queued"
                   [] Leased(row) -> "held"
                   [] Terminal(row) -> "ended"
                   [] OTHER -> "absent"

\* The phase of a row is told by its status and its token.
LEMMA PhaseOfRow ==
    ASSUME NEW row \in Row
    PROVE  /\ row.status = "absent" => RowPhase(row) = "absent"
           /\ row.status = "pending" /\ row.leaseToken = NoToken =>
                 RowPhase(row) = "queued"
           /\ row.status = "pending" /\ row.leaseToken # NoToken =>
                 RowPhase(row) = "held"
           /\ row.status \in {"delivered", "dead", "cancelled"} =>
                 RowPhase(row) = "ended"
  BY DEF RowPhase, Waiting, Leased, Terminal, Row

\* Who holds a row that keeps its lease: the holders that did not stop.
LEMMA HoldersLeft ==
    ASSUME IInv, NEW i \in Delivery, KeptRow(i), NEW A \in SUBSET Slot,
           \A w \in A : slots'[w] = IdleSlot,
           \A w \in Slot \ A : KeptSlot(w)
    PROVE  HoldersOf(i)' = HoldersOf(i) \ A
<1>1. \A w \in A : ~Fenced(w)'
  BY IdleIsSlot DEF Fenced
<1>2. \A w \in Slot \ A : slots[w].row = i => (Fenced(w)' <=> Fenced(w))
  BY DEF Fenced, KeptRow, KeptSlot
<1>3. \A w \in Slot \ A : slots'[w].row = slots[w].row
  BY DEF KeptSlot
<1> QED
  BY <1>1, <1>2, <1>3 DEF HoldersOf

\* Nobody holds a row without a lease.
LEMMA NoHolders ==
    ASSUME IInv', NEW i \in Delivery,
           rows'[i].status # "pending" \/ rows'[i].leaseToken = NoToken
    PROVE  HoldersOf(i)' = {}
<1>1. \A w \in Slot : Fenced(w)' => slots'[w].token # NoToken
  BY DispatchConstants DEF Fenced, IInv, TypeOK
<1> QED
  BY <1>1 DEF HoldersOf, Fenced

\* What the queue sees of row i does not change.
SameItem(i) ==
    /\ PhaseOf(i)' = PhaseOf(i)
    /\ HoldersOf(i)' = HoldersOf(i)
    /\ rows'[i].attempts = rows[i].attempts

\* A step that leaves the rows' leases and the goroutines' work alone is none of
\* the queue's.
LEMMA KeptIsSame ==
    ASSUME IInv, IInv', \A w \in Slot : KeptSlot(w), NEW i \in Delivery, KeptRow(i)
    PROVE  SameItem(i)
<1>1. HoldersOf(i)' = HoldersOf(i) \ {}
  BY HoldersLeft
<1>2. PhaseOf(i)' = PhaseOf(i)
  BY DEF PhaseOf, Waiting, Leased, Terminal, KeptRow
<1> QED
  BY <1>1, <1>2 DEF SameItem, KeptRow

LEMMA StutterStep ==
    ASSUME \A i \in Delivery : SameItem(i),
           \A w \in Slot : slots'[w].row = slots[w].row
    PROVE  UNCHANGED Queue!qvars
  BY DEF SameItem, Queue!qvars

\* Goroutines that stop without a write leave their items.
LEMMA LeaveStep ==
    ASSUME IInv, UNCHANGED rows, NEW A \in SUBSET Slot,
           \A w \in A : slots'[w] = IdleSlot,
           \A w \in Slot \ A : slots'[w] = slots[w]
    PROVE  Queue!Leave(A)
<1>1. /\ \A i \in Delivery : KeptRow(i)
      /\ \A w \in Slot \ A : KeptSlot(w)
  BY DEF KeptRow, KeptSlot
<1>2. \A i \in Delivery : HoldersOf(i)' = HoldersOf(i) \ A
  BY <1>1, HoldersLeft
<1>3. \A i \in Delivery : PhaseOf(i)' = PhaseOf(i)
  BY DEF PhaseOf
<1>4. \A w \in A : slots'[w].row = NoDelivery
  BY IdleIsSlot
<1> QED
  BY <1>2, <1>3, <1>4 DEF Queue!Leave

\* The goroutines of W that take row i.
TakersOf(W, take, i) == {w \in W : take[w] = i}

\* Rows leased under a fresh token are held by the goroutines that start them
\* and by nobody else.
LEMMA NewHolders ==
    ASSUME IInv, NEW t \in FreshTokens, NEW S \in SUBSET Delivery,
           NEW W \in SUBSET Slot, NEW take \in [W -> S],
           \A w \in W : slots[w].pc = "idle",
           \A i \in S : LeasesRow(i, t),
           \A i \in Delivery \ S : rows'[i] = rows[i],
           \A w \in W : StartsSlot(w, take[w], t),
           \A w \in Slot \ W : slots'[w] = slots[w]
    PROVE  /\ \A i \in S : HoldersOf(i)' = TakersOf(W, take, i)
           /\ \A i \in Delivery \ S : HoldersOf(i)' = HoldersOf(i)
           /\ \A w \in W : slots[w].row = NoDelivery /\ slots'[w].row = take[w]
<1>1. \A w \in Slot : slots[w].token # t
  BY DEF FreshTokens
<1>2. ASSUME NEW i \in S
      PROVE  HoldersOf(i)' = TakersOf(W, take, i)
  <2>1. ASSUME NEW w \in W
        PROVE  Fenced(w)' /\ slots'[w].row = take[w]
    BY <2>1 DEF StartsSlot, LeasesRow, Fenced
  <2>2. ASSUME NEW w \in Slot \ W, slots'[w].row = i
        PROVE  ~Fenced(w)'
    BY <1>1, <2>2 DEF LeasesRow, Fenced
  <2> QED
    BY <2>1, <2>2 DEF HoldersOf, TakersOf
<1>3. ASSUME NEW i \in Delivery \ S
      PROVE  HoldersOf(i)' = HoldersOf(i)
  <2>1. ASSUME NEW w \in W
        PROVE  slots'[w].row # i /\ ~Fenced(w)
    BY <2>1 DEF StartsSlot, Fenced
  <2>2. ASSUME NEW w \in Slot \ W, slots[w].row = i
        PROVE  Fenced(w)' <=> Fenced(w)
    BY <2>2 DEF Fenced
  <2> QED
    BY <2>1, <2>2 DEF HoldersOf
<1>4. \A w \in W : slots[w].row = NoDelivery /\ slots'[w].row = take[w]
  BY DEF IInv, IdleIsEmpty, StartsSlot
<1> QED
  BY <1>2, <1>3, <1>4

\* A fenced attempt that writes decides its item, and stops.
LEMMA DecideStep ==
    ASSUME IInv, IInv', OneLimit, NEW w \in Slot, NEW d \in Delay,
           Finish(w, d), Writes(w), NEW i, i = slots[w].row
    PROVE  i \in Delivery /\ Queue!Decide(w, i)
<1> DEFINE M == CHOOSE m \in MaxAttempts : TRUE
<1>1. /\ rows' = [rows EXCEPT ![i] = ResultRow(w, d)]
      /\ slots' = [slots EXCEPT ![w] = IdleSlot]
  BY DEF Finish
<1>2. /\ i \in Delivery
      /\ rows[i].status = "pending"
      /\ ResultRow(w, d) \in Row
      /\ ResultRow(w, d).leaseToken = NoToken
      /\ \/ /\ ResultRow(w, d).status \in {"delivered", "dead", "cancelled"}
            /\ ResultRow(w, d).attempts = rows[i].attempts
         \/ /\ ResultRow(w, d).status = "pending"
            /\ ResultRow(w, d).attempts \in {rows[i].attempts, rows[i].attempts - 1}
            /\ \A n \in MaxAttempts : ResultRow(w, d).attempts < n
  BY ResultIsFree DEF Writes
<1>3. w \in HoldersOf(i)
  BY DEF HoldersOf, Writes
<1>4. M \in MaxAttempts
  BY DEF OneLimit
<1> HIDE DEF M
<1>5. /\ rows'[i] = ResultRow(w, d)
      /\ \A k \in Delivery \ {i} : rows'[k] = rows[k]
      /\ slots'[w].row = NoDelivery
      /\ \A v \in Slot \ {w} : slots'[v] = slots[v]
  <2>1. rows \in [Delivery -> Row] /\ slots \in [Slot -> SlotState]
    BY DEF IInv, TypeOK
  <2>2. /\ rows'[i] = ResultRow(w, d)
        /\ \A k \in Delivery \ {i} : rows'[k] = rows[k]
    BY <1>1, <1>2, <2>1
  <2>3. /\ slots'[w].row = NoDelivery
        /\ \A v \in Slot \ {w} : slots'[v] = slots[v]
    BY <1>1, <2>1, IdleIsSlot
  <2> QED
    BY <2>2, <2>3
<1>6. HoldersOf(i)' = {}
  BY <1>2, <1>5, NoHolders
<1>7. ASSUME NEW k \in Delivery \ {i}
      PROVE  SameItem(k)
  <2>1. PhaseOf(k)' = PhaseOf(k) /\ rows'[k].attempts = rows[k].attempts
    BY <1>5 DEF PhaseOf
  <2>2. HoldersOf(k)' = HoldersOf(k)
    <3>1. ~(Fenced(w) /\ slots[w].row = k) /\ ~(slots'[w].row = k)
      BY <1>5, DispatchConstants
    <3>2. ASSUME NEW v \in Slot \ {w}, slots[v].row = k
          PROVE  Fenced(v)' <=> Fenced(v)
      BY <1>5, <3>2 DEF Fenced
    <3> QED
      BY <1>5, <3>1, <3>2 DEF HoldersOf
  <2> QED
    BY <2>1, <2>2 DEF SameItem
<1>p. PhaseOf(i)' = RowPhase(ResultRow(w, d))
  BY <1>5 DEF PhaseOf, RowPhase
<1>8. \/ Queue!Put(i, "ended", {}, rows[i].attempts)
      \/ \E n \in {rows[i].attempts, rows[i].attempts - 1} :
            n < M /\ Queue!Put(i, "queued", {}, n)
  <2>1. CASE /\ ResultRow(w, d).status \in {"delivered", "dead", "cancelled"}
             /\ ResultRow(w, d).attempts = rows[i].attempts
    <3>1. PhaseOf(i)' = "ended"
      BY <1>2, <1>p, <2>1, PhaseOfRow
    <3>2. rows'[i].attempts = rows[i].attempts
      BY <1>5, <2>1
    <3> QED
      BY <1>2, <1>6, <1>7, <3>1, <3>2 DEF Queue!Put, SameItem
  <2>2. CASE /\ ResultRow(w, d).status = "pending"
             /\ ResultRow(w, d).attempts \in {rows[i].attempts,
                                              rows[i].attempts - 1}
             /\ \A n \in MaxAttempts : ResultRow(w, d).attempts < n
    <3>1. PhaseOf(i)' = "queued"
      BY <1>2, <1>p, <2>2, PhaseOfRow
    <3>2. rows'[i].attempts = ResultRow(w, d).attempts
      BY <1>5
    <3>3. PICK n \in {rows[i].attempts, rows[i].attempts - 1} :
             n = ResultRow(w, d).attempts
      BY <2>2
    <3>4. Queue!Put(i, "queued", {}, n)
      BY <1>2, <1>6, <1>7, <3>1, <3>2, <3>3 DEF Queue!Put, SameItem
    <3>5. n < M
      BY <1>4, <2>2, <3>3
    <3> QED
      BY <3>4, <3>5, Zenon
  <2> QED
    BY <1>2, <2>1, <2>2
<1>9. [v \in Slot |-> slots[v].row]' =
        [[v \in Slot |-> slots[v].row] EXCEPT ![w] = NoDelivery]
  BY <1>5
<1> DEFINE used == [k \in Delivery |-> rows[k].attempts]
           budget == [k \in Delivery |-> CHOOSE n \in MaxAttempts : TRUE]
<1>10. /\ [v \in Slot |-> slots[v].row][w] = i
       /\ w \in [k \in Delivery |-> HoldersOf(k)][i]
  BY <1>2, <1>3
<1>11. used[i] = rows[i].attempts /\ budget[i] = M
  BY <1>2 DEF M
<1> HIDE DEF used, budget
<1>12. CASE Queue!Put(i, "ended", {}, rows[i].attempts)
  <2>1. Queue!Put(i, "ended", {}, used[i])
    BY <1>11, <1>12 DEF Queue!Put
  <2>2. /\ [v \in Slot |-> slots[v].row][w] = i
        /\ w \in [k \in Delivery |-> HoldersOf(k)][i]
        /\ Queue!Put(i, "ended", {}, [k \in Delivery |-> rows[k].attempts][i])
        /\ [v \in Slot |-> slots[v].row]' =
             [[v \in Slot |-> slots[v].row] EXCEPT ![w] = NoDelivery]
    BY <1>9, <1>10, <2>1 DEF used
  <2>3. Queue!Decide(w, i)
    BY <2>2 DEF Queue!Decide, Queue!Put
  <2> QED
    BY <1>2, <2>3
<1>13. ASSUME NEW n \in {rows[i].attempts, rows[i].attempts - 1}, n < M,
              Queue!Put(i, "queued", {}, n)
       PROVE  Queue!Decide(w, i)
  <2>1. n \in {used[i], used[i] - 1} /\ n < budget[i]
    BY <1>11, <1>13
  <2>2. \E m \in {used[i], used[i] - 1} :
             m < budget[i] /\ Queue!Put(i, "queued", {}, m)
    BY <1>13, <2>1, Zenon
  <2> QED
    BY <1>9, <1>10, <2>2, Zenon DEF Queue!Decide, used, budget
<1> QED
  BY <1>2, <1>8, <1>12, <1>13

\* Every step of the ledger is a step of the queue, or none.
LEMMA QueueStep ==
    ASSUME IInv, IInv', [Next]_vars, OneLimit
    PROVE  Queue!QNext \/ UNCHANGED Queue!qvars
<1>t. Domains
  BY DEF IInv, TypeOK, Domains
<1>k. /\ \A i \in Delivery : rows'[i] = rows[i] => KeptRow(i)
      /\ \A w \in Slot : slots'[w] = slots[w] => KeptSlot(w)
  BY DEF KeptRow, KeptSlot
<1>s. ASSUME \A i \in Delivery : KeptRow(i), \A w \in Slot : KeptSlot(w)
      PROVE  UNCHANGED Queue!qvars
  <2>1. \A i \in Delivery : SameItem(i)
    BY <1>s, KeptIsSame
  <2> QED
    BY <1>s, <2>1, StutterStep DEF KeptSlot
<1>p. \A i \in Delivery : /\ PhaseOf(i) = RowPhase(rows[i])
                          /\ PhaseOf(i)' = RowPhase(rows'[i])
  BY DEF PhaseOf, RowPhase
<1>r. \A i \in Delivery : rows[i] \in Row /\ rows'[i] \in Row
  BY DEF IInv, TypeOK
<1>b. PICK M \in Nat : /\ M > 0
                       /\ \A n \in MaxAttempts : n = M
                       /\ (CHOOSE n \in MaxAttempts : TRUE) = M
  BY DispatchConstants DEF OneLimit
<1>1. ASSUME NEW r \in Replica, NEW i \in Delivery, Enqueue(r, i)
      PROVE  Queue!QNext
  <2>1. PICK t \in FreshTokens, w \in FreeSlots(r) :
          /\ EnqueueRow(i, t)
          /\ slots' = [slots EXCEPT ![w] = FastSlot(i, t, 1)]
    BY <1>1 DEF Enqueue, FastSlot
  <2>2. /\ t \in Token
        /\ LeasesRow(i, t)
        /\ rows[i].status = "absent"
        /\ rows'[i].attempts = 1
        /\ \A k \in Delivery \ {i} : rows'[k] = rows[k]
    BY <2>1, EnqueuedRow
  <2>3. /\ w \in Slot /\ slots[w].pc = "idle"
        /\ StartsSlot(w, i, t)
        /\ \A v \in Slot \ {w} : slots'[v] = slots[v]
    BY <1>t, <2>1, <2>2, StartedIsSlot
    DEF FreeSlots, SlotsOf, StartsSlot, Domains
  <2> DEFINE S == {i}
             W == {w}
             take == [v \in W |-> i]
  <2>4. /\ S \in SUBSET Delivery /\ W \in SUBSET Slot /\ take \in [W -> S]
        /\ \A v \in W : slots[v].pc = "idle"
        /\ \A k \in S : LeasesRow(k, t)
        /\ \A k \in Delivery \ S : rows'[k] = rows[k]
        /\ \A v \in W : StartsSlot(v, take[v], t)
        /\ \A v \in Slot \ W : slots'[v] = slots[v]
    BY <2>2, <2>3
  <2> HIDE DEF S, W, take
  <2>5. /\ \A k \in S : HoldersOf(k)' = TakersOf(W, take, k)
        /\ \A k \in Delivery \ S : HoldersOf(k)' = HoldersOf(k)
        /\ \A v \in W : slots[v].row = NoDelivery /\ slots'[v].row = take[v]
    BY <2>4, NewHolders
  <2>6. /\ HoldersOf(i)' = {w}
        /\ \A k \in Delivery \ {i} : HoldersOf(k)' = HoldersOf(k)
        /\ slots[w].row = NoDelivery /\ slots'[w].row = i
    BY <2>5 DEF S, W, take, TakersOf
  <2>7. PhaseOf(i) = "absent" /\ PhaseOf(i)' = "held"
    BY <1>p, <1>r, <2>2, PhaseOfRow, DispatchConstants DEF LeasesRow
  <2>8. \A k \in Delivery \ {i} : SameItem(k)
    BY <1>p, <2>2, <2>6 DEF SameItem
  <2>9. Queue!Submit(i)
    BY <2>2, <2>3, <2>6, <2>7, <2>8 DEF Queue!Submit, Queue!Put, SameItem
  <2> QED
    BY <2>9 DEF Queue!QNext
<1>2. ASSUME NEW r \in Replica, NEW i \in Delivery, EnqueueUnattended(r, i)
      PROVE  Queue!QNext
  <2>1. PICK t \in FreshTokens : EnqueueRow(i, t)
    BY <1>2 DEF EnqueueUnattended
  <2>2. /\ t \in Token
        /\ LeasesRow(i, t)
        /\ rows[i].status = "absent"
        /\ rows'[i].attempts = 1
        /\ \A k \in Delivery \ {i} : rows'[k] = rows[k]
    BY <2>1, EnqueuedRow
  <2> DEFINE S == {i}
             W == {}
             take == [v \in W |-> i]
  <2>3. slots' = slots
    BY <1>2 DEF EnqueueUnattended
  <2>4. /\ S \in SUBSET Delivery /\ W \in SUBSET Slot /\ take \in [W -> S]
        /\ \A v \in W : slots[v].pc = "idle"
        /\ \A k \in S : LeasesRow(k, t)
        /\ \A k \in Delivery \ S : rows'[k] = rows[k]
        /\ \A v \in W : StartsSlot(v, take[v], t)
        /\ \A v \in Slot \ W : slots'[v] = slots[v]
    BY <2>2, <2>3
  <2> HIDE DEF S, W, take
  <2>5. /\ \A k \in S : HoldersOf(k)' = TakersOf(W, take, k)
        /\ \A k \in Delivery \ S : HoldersOf(k)' = HoldersOf(k)
    BY <2>4, NewHolders
  <2>6. /\ HoldersOf(i)' = {}
        /\ \A k \in Delivery \ {i} : HoldersOf(k)' = HoldersOf(k)
    BY <2>5 DEF S, W, take, TakersOf
  <2>7. PhaseOf(i) = "absent" /\ PhaseOf(i)' = "held"
    BY <1>p, <1>r, <2>2, PhaseOfRow, DispatchConstants DEF LeasesRow
  <2>8. \A k \in Delivery \ {i} : SameItem(k)
    BY <1>p, <2>2, <2>6 DEF SameItem
  <2>9. Queue!Submit(i)
    BY <2>2, <2>3, <2>6, <2>7, <2>8 DEF Queue!Submit, Queue!Put, SameItem
  <2> QED
    BY <2>9 DEF Queue!QNext
<1>3. ASSUME NEW r \in Replica, NEW i \in Delivery, EmitDeadLetter(r, i)
      PROVE  UNCHANGED Queue!qvars
  BY <1>3, <1>k, <1>s DEF EmitDeadLetter
<1>4. ASSUME NEW r \in Replica, NEW i \in Delivery, NEW t \in Token,
             Reap(r, i, t)
      PROVE  Queue!QNext \/ UNCHANGED Queue!qvars
  <2>1. CASE rows[i].status = "pending" /\ rows[i].leaseToken = t
    <3>1. /\ <<i, t>> \in reaping[r]
          /\ rows' = [rows EXCEPT ![i] = EndedRow(rows[i], "dead")]
          /\ slots' = slots
      BY <1>4, <2>1 DEF Reap
    <3>2. /\ rows'[i].status = "dead"
          /\ rows'[i].attempts = rows[i].attempts
          /\ \A k \in Delivery \ {i} : rows'[k] = rows[k]
      BY <1>t, <3>1, EndedIsRow DEF Domains
    <3>3. rows[i].attempts >= M
      BY <2>1, <3>1, <1>b DEF IInv, LimitKept, OneLimit
    <3>4. PhaseOf(i) = "held" /\ PhaseOf(i)' = "ended"
      BY <1>p, <1>r, <2>1, <3>2, PhaseOfRow, DispatchConstants
    <3>5. HoldersOf(i)' = {}
      BY <3>2, NoHolders
    <3>6. \A k \in Delivery \ {i} : SameItem(k)
      BY <1>k, <3>1, <3>2, KeptIsSame
    <3>7. Queue!Bury({i})
      BY <1>b, <3>1, <3>2, <3>3, <3>4, <3>5, <3>6 DEF Queue!Bury, SameItem
    <3> QED
      BY <3>7 DEF Queue!QNext
  <2>2. CASE ~(rows[i].status = "pending" /\ rows[i].leaseToken = t)
    BY <1>4, <2>2, <1>k, <1>s DEF Reap
  <2> QED
    BY <2>1, <2>2
<1>5. ASSUME NEW c \in Chain, NEW g \in Generation, Replay(c, g)
      PROVE  Queue!QNext
  <2>1. PICK i \in Delivery : i = <<c, g + 1>>
    BY <1>5, DeliveryParts, DispatchConstants DEF Replay, Generation
  <2>2. /\ rows' = [rows EXCEPT ![i].status = "pending"]
        /\ rows[i].status = "absent"
        /\ slots' = slots
    BY <1>5, <2>1 DEF Replay
  <2>3. rows[i] = AbsentRow
    BY <2>2 DEF IInv, AbsentIsEmpty
  <2>4. /\ rows'[i].status = "pending"
        /\ rows'[i].leaseToken = NoToken
        /\ rows'[i].attempts = 0
        /\ \A k \in Delivery \ {i} : rows'[k] = rows[k]
    BY <1>t, <2>2, <2>3, AbsentIsRow DEF Domains, Row
  <2>5. PhaseOf(i) = "absent" /\ PhaseOf(i)' = "queued"
    BY <1>p, <1>r, <2>2, <2>4, PhaseOfRow
  <2>6. HoldersOf(i)' = {}
    BY <2>4, NoHolders
  <2>7. \A k \in Delivery \ {i} : SameItem(k)
    BY <1>k, <2>2, <2>4, KeptIsSame
  <2>8. Queue!Put(i, "queued", {}, 0)
    BY <2>4, <2>5, <2>6, <2>7 DEF Queue!Put, SameItem
  <2>9. Queue!Submit(i)
    <3>1. /\ [k \in Delivery |-> PhaseOf(k)][i] = "absent"
          /\ UNCHANGED [w \in Slot |-> slots[w].row]
      BY <2>2, <2>5
    <3> QED
      BY <2>8, <3>1, Zenon DEF Queue!Submit
  <2> QED
    BY <2>9 DEF Queue!QNext
<1>6. ASSUME NEW c \in Chain, ForgetDeliveries(c)
      PROVE  Queue!QNext
  <2> DEFINE S == {i \in Delivery : i[1] = c}
  <2>1. /\ c \in Forgettable
        /\ rows' = [i \in Delivery |-> IF i[1] = c THEN AbsentRow ELSE rows[i]]
        /\ slots' = slots
    BY <1>6 DEF ForgetDeliveries
  <2>2. ASSUME NEW i \in S
        PROVE  /\ i \in Delivery /\ i[1] \in Forgettable
               /\ PhaseOf(i)' = "absent" /\ HoldersOf(i)' = {}
               /\ rows'[i].attempts = 0
    <3>1. rows'[i] = AbsentRow
      BY <2>1, <2>2
    <3>2. RowPhase(AbsentRow) = "absent" /\ AbsentRow.attempts = 0
      BY AbsentIsRow, PhaseOfRow
    <3> QED
      BY <1>p, <2>1, <2>2, <3>1, <3>2, AbsentIsRow, NoHolders
  <2>3. \A i \in Delivery \ S : SameItem(i)
    BY <1>k, <2>1, KeptIsSame
  <2>4. Queue!Forget(S)
    <3> HIDE DEF S
    <3> QED
      BY <2>1, <2>2, <2>3 DEF Queue!Forget, SameItem
  <2> QED
    BY <2>4 DEF Queue!QNext
<1>7. ASSUME NEW r \in Replica, Sweep(r)
      PROVE  Queue!QNext
  <2>1. PICK t \in FreshTokens, W \in SUBSET FreeSlots(r) :
           \E take \in [W -> Due(r)] : Claim(r, t, take)
    BY <1>7 DEF Sweep, SweepFor
  <2>2. PICK take : take \in [W -> Due(r)] /\ Claim(r, t, take)
    BY <2>1
  <2>3. PICK S \in SUBSET Due(r) : S = {take[w] : w \in W}
    BY <2>2
  <2>4. take \in [W -> S] /\ \A v, w \in W : v # w => take[v] # take[w]
    BY <2>2, <2>3 DEF Claim
  <2>5. ClaimRows(S, t)
    BY <2>2, <2>3, Zenon DEF Claim
  <2>6. slots' = [w \in Slot |->
                    IF w \in W
                    THEN SweptSlot(take[w], t, rows[take[w]].attempts + 1)
                    ELSE slots[w]]
    BY <2>2 DEF Claim, SweptSlot
  <2>7. /\ t \in Token
        /\ S \in SUBSET Delivery
        /\ \A i \in S : /\ LeasesRow(i, t)
                        /\ rows'[i].attempts = rows[i].attempts + 1
                        /\ rows[i].attempts + 1 \in Nat
                        /\ rows[i].status = "pending"
                        /\ rows[i].attempts < limit[r]
        /\ \A i \in Delivery \ S : rows'[i] = rows[i]
    BY <2>5, ClaimedRows
  <2>8. W \in SUBSET Slot /\ \A w \in W : slots[w].pc = "idle"
    BY DEF FreeSlots, SlotsOf
  <2>9. ASSUME NEW w \in W
        PROVE  StartsSlot(w, take[w], t)
    <3>1. /\ take[w] \in S /\ take[w] \in Delivery
          /\ rows[take[w]].attempts + 1 \in Nat
          /\ rows'[take[w]].attempts = rows[take[w]].attempts + 1
      BY <2>4, <2>7, <2>9
    <3>2. slots'[w] = SweptSlot(take[w], t, rows[take[w]].attempts + 1)
      BY <2>6, <2>8, <2>9
    <3> QED
      BY <2>7, <3>1, <3>2, StartedIsSlot DEF StartsSlot
  <2>10. \A w \in Slot \ W : slots'[w] = slots[w]
    BY <2>6
  <2>11. /\ \A i \in S : HoldersOf(i)' = TakersOf(W, take, i)
         /\ \A i \in Delivery \ S : HoldersOf(i)' = HoldersOf(i)
         /\ \A w \in W : slots[w].row = NoDelivery /\ slots'[w].row = take[w]
    BY <2>4, <2>7, <2>8, <2>9, <2>10, NewHolders
  <2>12. limit[r] = M
    BY <1>b, <1>t DEF Domains
  <2>13. \A i \in S : /\ PhaseOf(i) \in {"queued", "held"}
                      /\ PhaseOf(i)' = "held"
    BY <1>p, <1>r, <2>7, PhaseOfRow, DispatchConstants DEF LeasesRow
  <2>14. \A i \in Delivery \ S : PhaseOf(i)' = PhaseOf(i)
    BY <1>p, <2>7
  <2>15. Queue!Take(take)
    <3>1. DOMAIN take = W /\ {take[w] : w \in DOMAIN take} = S
      BY <2>2, <2>3
    <3>2. /\ \A v, w \in W : v # w => take[v] # take[w]
          /\ \A w \in W : [a \in Slot |-> slots[a].row][w] = NoDelivery
          /\ \A i \in S : [k \in Delivery |-> PhaseOf(k)][i] \in {"queued", "held"}
          /\ \A i \in S : [k \in Delivery |-> rows[k].attempts][i] <
                          [k \in Delivery |-> CHOOSE n \in MaxAttempts : TRUE][i]
      BY <1>b, <2>4, <2>7, <2>8, <2>11, <2>12, <2>13
    <3>3. [i \in Delivery |-> PhaseOf(i)]' =
            [i \in Delivery |-> IF i \in S THEN "held"
                                ELSE [k \in Delivery |-> PhaseOf(k)][i]]
      BY <2>13, <2>14
    <3>4. [i \in Delivery |-> HoldersOf(i)]' =
            [i \in Delivery |-> IF i \in S THEN {w \in W : take[w] = i}
                                ELSE [k \in Delivery |-> HoldersOf(k)][i]]
      BY <2>11 DEF TakersOf
    <3>5. [i \in Delivery |-> rows[i].attempts]' =
            [i \in Delivery |-> IF i \in S
                                THEN [k \in Delivery |-> rows[k].attempts][i] + 1
                                ELSE [k \in Delivery |-> rows[k].attempts][i]]
      BY <2>7
    <3>6. [w \in Slot |-> slots[w].row]' =
            [w \in Slot |-> IF w \in W THEN take[w]
                            ELSE [a \in Slot |-> slots[a].row][w]]
      BY <2>10, <2>11
    <3> QED
      BY <3>1, <3>2, <3>3, <3>4, <3>5, <3>6, Zenon DEF Queue!Take
  <2>16. W \in SUBSET Slot /\ take \in [W -> Delivery]
    BY <2>4, <2>7, <2>8
  <2> QED
    BY <2>15, <2>16 DEF Queue!QNext
<1>8. ASSUME NEW r \in Replica, ClaimAnswerLost(r)
      PROVE  Queue!QNext
  <2>1. PICK t \in FreshTokens, S \in SUBSET Due(r) : ClaimRows(S, t)
    BY <1>8 DEF ClaimAnswerLost
  <2>2. slots' = slots
    BY <1>8 DEF ClaimAnswerLost
  <2>3. /\ S \in SUBSET Delivery
        /\ \A i \in S : /\ LeasesRow(i, t)
                        /\ rows'[i].attempts = rows[i].attempts + 1
                        /\ rows[i].status = "pending"
                        /\ rows[i].attempts < limit[r]
        /\ \A i \in Delivery \ S : rows'[i] = rows[i]
    BY <2>1, ClaimedRows
  <2> DEFINE W == {}
             take == [w \in W |-> NoDelivery]
  <2>4. /\ W \in SUBSET Slot /\ take \in [W -> S]
        /\ \A w \in W : slots[w].pc = "idle"
        /\ \A w \in W : StartsSlot(w, take[w], t)
        /\ \A w \in Slot \ W : slots'[w] = slots[w]
    BY <2>2
  <2> HIDE DEF W, take
  <2>5. /\ \A i \in S : HoldersOf(i)' = TakersOf(W, take, i)
        /\ \A i \in Delivery \ S : HoldersOf(i)' = HoldersOf(i)
    BY <2>3, <2>4, NewHolders
  <2>6. \A i \in S : HoldersOf(i)' = {}
    BY <2>5 DEF W, TakersOf
  <2>7. limit[r] = M
    BY <1>b, <1>t DEF Domains
  <2>8. \A i \in S : /\ PhaseOf(i) \in {"queued", "held"}
                     /\ PhaseOf(i)' = "held"
    BY <1>p, <1>r, <2>1, <2>3, PhaseOfRow, DispatchConstants DEF LeasesRow, FreshTokens
  <2>9. \A i \in Delivery \ S : PhaseOf(i)' = PhaseOf(i)
    BY <1>p, <2>3
  <2>10. Queue!Waste(S)
    <3>1. /\ \A i \in S : [k \in Delivery |-> PhaseOf(k)][i] \in {"queued", "held"}
          /\ \A i \in S : [k \in Delivery |-> rows[k].attempts][i] <
                          [k \in Delivery |-> CHOOSE n \in MaxAttempts : TRUE][i]
      BY <1>b, <2>3, <2>7, <2>8
    <3>2. [i \in Delivery |-> PhaseOf(i)]' =
            [i \in Delivery |-> IF i \in S THEN "held"
                                ELSE [k \in Delivery |-> PhaseOf(k)][i]]
      BY <2>8, <2>9
    <3>3. [i \in Delivery |-> HoldersOf(i)]' =
            [i \in Delivery |-> IF i \in S THEN {}
                                ELSE [k \in Delivery |-> HoldersOf(k)][i]]
      BY <2>5, <2>6
    <3>4. [i \in Delivery |-> rows[i].attempts]' =
            [i \in Delivery |-> IF i \in S
                                THEN [k \in Delivery |-> rows[k].attempts][i] + 1
                                ELSE [k \in Delivery |-> rows[k].attempts][i]]
      BY <2>3
    <3>5. UNCHANGED [w \in Slot |-> slots[w].row]
      BY <2>2
    <3> QED
      BY <3>1, <3>2, <3>3, <3>4, <3>5, Zenon DEF Queue!Waste
  <2> QED
    BY <2>3, <2>10 DEF Queue!QNext
<1>9. ASSUME \/ \E r \in Replica : ReapScan(r)
             \/ \E r \in Replica, n \in MaxAttempts : Wire(r, n)
             \/ UNCHANGED vars
      PROVE  UNCHANGED Queue!qvars
  BY <1>9, <1>k, <1>s DEF ReapScan, Wire, vars
<1>10. ASSUME NEW r \in Replica, Stop(r)
       PROVE  UNCHANGED Queue!qvars
  <2>1. \A w \in Slot : KeptSlot(w)
    BY <1>10, <1>t DEF Stop, Domains, KeptSlot, SlotState
  <2> QED
    BY <1>10, <1>k, <1>s, <2>1 DEF Stop
<1>11. ASSUME NEW r \in Replica, Exit(r)
       PROVE  Queue!QNext
  <2>1. /\ SlotsOf(r) \in SUBSET Slot
        /\ UNCHANGED rows
        /\ \A w \in SlotsOf(r) : slots'[w] = IdleSlot
        /\ \A w \in Slot \ SlotsOf(r) : slots'[w] = slots[w]
    BY <1>11 DEF Exit, SlotsOf
  <2>2. Queue!Leave(SlotsOf(r))
    BY <2>1, LeaveStep
  <2> QED
    BY <2>1, <2>2 DEF Queue!QNext
<1>12. ASSUME NEW w \in Slot, Heartbeat(w)
       PROVE  UNCHANGED Queue!qvars
  <2>1. CASE Fenced(w)
    <3>1. /\ rows' = [rows EXCEPT ![slots[w].row].leaseUntil = Lease]
          /\ slots' = slots
      BY <1>12, <2>1 DEF Heartbeat
    <3>2. slots[w].row \in Delivery /\ rows[slots[w].row].status = "pending"
      BY <2>1 DEF Fenced, IInv, TypeOK
    <3>3. \A i \in Delivery : KeptRow(i)
      BY <1>t, <3>1, <3>2 DEF Domains, Row, KeptRow
    <3> QED
      BY <1>k, <1>s, <3>1, <3>3
  <2>2. CASE ~Fenced(w)
    <3>1. /\ slots' = [slots EXCEPT ![w].context = "lost"]
          /\ rows' = rows
      BY <1>12, <2>2 DEF Heartbeat
    <3>2. \A v \in Slot : KeptSlot(v)
      BY <1>t, <3>1 DEF Domains, SlotState, KeptSlot
    <3> QED
      BY <1>k, <1>s, <3>1, <3>2
  <2> QED
    BY <2>1, <2>2
<1>13. ASSUME NEW w \in Slot, AttemptTimeout(w)
       PROVE  UNCHANGED Queue!qvars
  <2>1. \A v \in Slot : KeptSlot(v)
    BY <1>13, <1>t DEF AttemptTimeout, Domains, SlotState, KeptSlot
  <2> QED
    BY <1>13, <1>k, <1>s, <2>1 DEF AttemptTimeout
<1>14. ASSUME NEW w \in Slot, NEW outcome \in Outcome, AttemptEnds(w, outcome)
       PROVE  UNCHANGED Queue!qvars
  <2>1. /\ slots[w].pc = "running"
        /\ slots' = [slots EXCEPT ![w].pc = "finishing", ![w].outcome = outcome]
        /\ rows' = rows
    BY <1>14 DEF AttemptEnds
  <2>2. \A v \in Slot : KeptSlot(v)
    BY <1>t, <2>1 DEF Domains, SlotState, KeptSlot
  <2> QED
    BY <1>k, <1>s, <2>1, <2>2
<1>15. ASSUME NEW w \in Slot,
              FinishFails(w) \/ \E d \in Delay : Finish(w, d) /\ ~Writes(w)
       PROVE  Queue!QNext
  <2>1. UNCHANGED rows /\ slots' = [slots EXCEPT ![w] = IdleSlot]
    BY <1>15 DEF FinishFails, Finish
  <2>2. PICK A \in SUBSET Slot : A = {w}
    OBVIOUS
  <2>3. /\ \A v \in A : slots'[v] = IdleSlot
        /\ \A v \in Slot \ A : slots'[v] = slots[v]
    BY <1>t, <2>1, <2>2 DEF Domains
  <2>4. Queue!Leave(A)
    BY <2>1, <2>3, LeaveStep
  <2> QED
    BY <2>4 DEF Queue!QNext
<1>16. ASSUME NEW w \in Slot, NEW d \in Delay, Finish(w, d), Writes(w)
       PROVE  Queue!QNext
  <2>1. PICK i : i = slots[w].row
    OBVIOUS
  <2>2. i \in Delivery /\ Queue!Decide(w, i)
    BY <1>16, <2>1, DecideStep
  <2> QED
    BY <2>2 DEF Queue!QNext
<1>17. ASSUME Tick PROVE UNCHANGED Queue!qvars
  <2>1. \A i \in Delivery : KeptRow(i)
    BY <1>17, <1>t, AgedRow DEF Tick, Domains, KeptRow
  <2> QED
    BY <1>17, <1>k, <1>s, <2>1 DEF Tick
<1> QED
  BY <1>1, <1>2, <1>3, <1>4, <1>5, <1>6, <1>7, <1>8, <1>9, <1>10, <1>11,
     <1>12, <1>13, <1>14, <1>15, <1>16, <1>17, Zenon DEF Next

\* The delivery ledger implements the leased queue, for every number of chains,
\* processes and goroutines, provided the processes agree on maxAttempts: one
\* attempt at a time can decide a delivery, a late one decides nothing, and no
\* delivery is started more often than maxAttempts (runClaimed, claim, finish).
THEOREM RefinesQueue == ASSUME OneLimit PROVE Spec => ImplementsQueue
<1>1. Init => Queue!QInit
  <2> SUFFICES ASSUME Init PROVE Queue!QInit
    OBVIOUS
  <2>1. \A i \in Delivery : PhaseOf(i) = "absent" /\ rows[i].attempts = 0
    BY AbsentIsRow, PhaseOfRow DEF Init, PhaseOf, RowPhase
  <2>2. \A i \in Delivery : HoldersOf(i) = {}
    BY IdleIsSlot DEF Init, HoldersOf, Fenced
  <2>3. \A w \in Slot : slots[w].row = NoDelivery
    BY IdleIsSlot DEF Init
  <2> QED
    BY <2>1, <2>2, <2>3 DEF Queue!QInit
<1>2. IInv /\ IInv' /\ [Next]_vars => [Queue!QNext]_(Queue!qvars)
  BY QueueStep, OneLimit
<1> QED
  BY InvariantHolds, <1>1, <1>2, PTL DEF Spec, ImplementsQueue, Queue!QSpec
=============================================================================
