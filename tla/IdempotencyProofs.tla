------------------------- MODULE IdempotencyProofs --------------------------
(***************************************************************************)
(* Proofs about Idempotency for any keys and requests, and any lease that  *)
(* is not longer than the time responses are remembered.                   *)
(***************************************************************************)
EXTENDS Idempotency, TLAPS

----------------------------------------------------------------------------
(* Types *)

\* The rows that are written are rows, and expire when they should.
LEMMA RowTypes ==
    ASSUME NEW q \in Request
    PROVE  /\ AbsentRow \in Row /\ PendingRow(q) \in Row /\ DoneRow(q) \in Row
           /\ AbsentRow.status = "absent"
           /\ PendingRow(q).status = "pending" /\ PendingRow(q).request = q
           /\ PendingRow(q).expires = Lease
           /\ DoneRow(q).status = "done" /\ DoneRow(q).expires = TTL
  BY IdempotencyConstants DEF Row, AbsentRow, PendingRow, DoneRow

\* Time brings an instant nearer, not past zero, and keeps instants in order.
LEMMA SoonerFacts ==
    ASSUME NEW m \in Nat, NEW n \in Nat
    PROVE  /\ Sooner(n) \in Nat
           /\ Sooner(n) <= n
           /\ m <= n => Sooner(m) <= Sooner(n)
  BY DEF Sooner

\* The key of a request is a key.
LEMMA KeyType == ASSUME NEW q \in Request PROVE KeyOf[q] \in Key
  BY IdempotencyConstants

----------------------------------------------------------------------------
(* The inductive invariant *)

\* The row of q's key lets nobody in for as long as q's lease lasts: it is q's
\* reservation, or a response that a late request stored in its place.
Backs(row, q) == /\ row.expires >= reqs[q].lease
                 /\ \/ row.status = "pending" /\ row.request = q
                    \/ row.status = "done"

\* Every request in its lease is backed by the row of its key.
Backed == \A q \in Request :
             /\ reqs[q].lease <= Lease
             /\ InLease(q) => Backs(RowOf(q), q)

\* A response stored in time is in the table, perhaps replaced by a later one, for
\* as long as it is to be remembered.
Remembers(row, q) == reqs[q].fresh > 0 => /\ row.status = "done"
                                          /\ row.expires >= reqs[q].fresh

Remembered == \A q \in Request : /\ reqs[q].fresh <= TTL
                                 /\ Remembers(RowOf(q), q)

IInv == TypeOK /\ Backed /\ OneInLease /\ Remembered /\ OnceIfTimely

\* The empty table satisfies the invariant.
LEMMA InitInv == Init => IInv
  BY IdempotencyConstants
  DEF Init, IInv, TypeOK, Backed, OneInLease, InLease, Row, State, AbsentRow,
      NewRequest, Remembered, Remembers, OnceIfTimely

\* Whoever finds a key free finds no request of that key in its lease, and no
\* response of it to be remembered.
LEMMA FreeMeansNobody ==
    ASSUME IInv, NEW k \in Key, NEW p \in Request, KeyOf[p] = k,
           rows[k].status = "absent" \/ Expired(rows[k])
    PROVE  ~InLease(p) /\ ~(reqs[p].fresh > 0)
  BY DEF IInv, TypeOK, State, Row, Backed, Backs, RowOf, InLease, Expired,
         Remembered, Remembers

\* A step that grants no reservation, stores no response and leaves every lease
\* backed and every response remembered keeps the invariant.
LEMMA NoGrantStep ==
    ASSUME IInv, TypeOK',
           \A q \in Request : /\ reqs'[q].lease <= reqs[q].lease
                              /\ reqs'[q].fresh <= reqs[q].fresh,
           \A q \in Request : reqs'[q].fresh > 0 =>
               RowOf(q)'.status = "done" /\ RowOf(q)'.expires >= reqs'[q].fresh,
           \A q \in Request : InLease(q)' => InLease(q),
           \A q \in Request : InLease(q)' =>
               /\ RowOf(q)'.expires >= reqs'[q].lease
               /\ \/ RowOf(q)'.status = "pending" /\ RowOf(q)'.request = q
                  \/ RowOf(q)'.status = "done"
    PROVE  IInv'
<1>1. Backed'
  BY IdempotencyConstants DEF IInv, TypeOK, State, Backed, Backs
<1>2. OneInLease'
  BY DEF IInv, OneInLease
<1>3. \A q \in Request : reqs'[q].fresh > 0 => reqs[q].fresh > 0
  BY DEF IInv, TypeOK, State
<1>4. Remembered'
  BY IdempotencyConstants DEF IInv, TypeOK, State, Remembered, Remembers
<1>5. OnceIfTimely'
  BY <1>3 DEF IInv, OnceIfTimely
<1> QED
  BY <1>1, <1>2, <1>4, <1>5 DEF IInv

\* A request that moves on without touching the table.
LEMMA MoveOn ==
    ASSUME IInv, NEW q \in Request, NEW s \in State,
           reqs' = [reqs EXCEPT ![q] = s],
           s.lease = reqs[q].lease, s.fresh = reqs[q].fresh,
           s.pc \in {"store", "release"} => reqs[q].pc = "running",
           s.pc # "running",
           s.pc \in {"reserve", "lookup"} => s.tries < MaxTries,
           UNCHANGED rows
    PROVE  IInv'
<1>1. TypeOK'
  BY DEF IInv, TypeOK, State
<1>2. \A p \in Request : /\ reqs'[p].lease = reqs[p].lease
                         /\ reqs'[p].fresh = reqs[p].fresh
  BY DEF IInv, TypeOK, State
<1>3. \A p \in Request : InLease(p)' => InLease(p)
  BY DEF IInv, TypeOK, State, InLease
<1>4. \A p \in Request : RowOf(p)' = RowOf(p)
  BY DEF RowOf
<1> QED
  BY <1>1, <1>2, <1>3, <1>4, NoGrantStep
  DEF IInv, TypeOK, State, Backed, Backs, Remembered, Remembers

\* The same with the row of the request's key rewritten: every other request of
\* the key that is in its lease must find itself backed by the new row, and every
\* response of the key remembered.
LEMMA MoveOnWriting ==
    ASSUME IInv, NEW q \in Request, NEW row \in Row,
           reqs' = [reqs EXCEPT ![q].pc = "over"],
           rows' = [rows EXCEPT ![KeyOf[q]] = row],
           \A p \in Request \ {q} : InLease(p) /\ KeyOf[p] = KeyOf[q] =>
                                      Backs(row, p),
           \A p \in Request : KeyOf[p] = KeyOf[q] => Remembers(row, p)
    PROVE  IInv'
<1>1. TypeOK'
  BY KeyType DEF IInv, TypeOK, State
<1>2. \A p \in Request : /\ reqs'[p].lease = reqs[p].lease
                         /\ reqs'[p].fresh = reqs[p].fresh
  BY DEF IInv, TypeOK, State
<1>3. \A p \in Request : InLease(p)' => InLease(p) /\ p # q
  BY DEF IInv, TypeOK, State, InLease
<1>4. \A p \in Request : RowOf(p)' = IF KeyOf[p] = KeyOf[q] THEN row ELSE RowOf(p)
  BY KeyType DEF IInv, TypeOK, RowOf
<1>5. \A p \in Request : InLease(p)' => Backs(RowOf(p)', p)
  BY <1>3, <1>4 DEF IInv, Backed
<1>6. \A p \in Request : InLease(p)' =>
         /\ RowOf(p)'.expires >= reqs'[p].lease
         /\ \/ RowOf(p)'.status = "pending" /\ RowOf(p)'.request = p
            \/ RowOf(p)'.status = "done"
  BY <1>2, <1>5 DEF Backs
<1>7. \A p \in Request : /\ reqs'[p].lease <= reqs[p].lease
                         /\ reqs'[p].fresh <= reqs[p].fresh
  BY <1>2 DEF IInv, TypeOK, State
<1>8. \A p \in Request : reqs'[p].fresh > 0 =>
         RowOf(p)'.status = "done" /\ RowOf(p)'.expires >= reqs'[p].fresh
  BY <1>2, <1>4 DEF IInv, Remembered, Remembers
<1> QED
  BY <1>1, <1>3, <1>6, <1>7, <1>8, NoGrantStep

\* The claim of a free key: the only request in its lease is the new one.
LEMMA GrantInv ==
    ASSUME IInv, NEW q \in Request, reqs[q].pc = "reserve", Free(q),
           rows' = [rows EXCEPT ![KeyOf[q]] = PendingRow(q)],
           reqs' = [reqs EXCEPT ![q].pc = "running", ![q].lease = Lease]
    PROVE  IInv'
<1>1. TypeOK'
  <2>1. [reqs[q] EXCEPT !.pc = "running", !.lease = Lease] \in State
    BY IdempotencyConstants DEF IInv, TypeOK, State
  <2>2. reqs' \in [Request -> State]
    BY <2>1 DEF IInv, TypeOK
  <2>3. rows' \in [Key -> Row]
    BY RowTypes, KeyType DEF IInv, TypeOK
  <2>4. \A p \in Request : reqs'[p].pc \in {"reserve", "lookup"} =>
                               reqs'[p].tries < MaxTries
    BY DEF IInv, TypeOK, State
  <2> QED
    BY <2>2, <2>3, <2>4 DEF TypeOK
<1>2. \A p \in Request : KeyOf[p] = KeyOf[q] => ~InLease(p) /\ ~(reqs[p].fresh > 0)
  BY KeyType, FreeMeansNobody DEF Free, RowOf
<1>3. \A p \in Request \ {q} : /\ reqs'[p] = reqs[p]
                               /\ InLease(p)' = InLease(p)
  BY DEF IInv, TypeOK, InLease
<1>4. reqs'[q].lease = Lease /\ reqs'[q].fresh = reqs[q].fresh
  BY DEF IInv, TypeOK, State
<1>5. RowOf(q)' = PendingRow(q)
  BY KeyType DEF IInv, TypeOK, RowOf
<1>6. \A p \in Request : KeyOf[p] # KeyOf[q] => RowOf(p)' = RowOf(p)
  BY KeyType DEF IInv, TypeOK, RowOf
<1>7. Backed'
  <2> SUFFICES ASSUME NEW p \in Request
               PROVE  /\ reqs'[p].lease <= Lease
                      /\ InLease(p)' => Backs(RowOf(p), p)'
    BY DEF Backed
  <2>1. CASE p = q
    BY <2>1, <1>4, <1>5, RowTypes, IdempotencyConstants DEF Backs
  <2>2. CASE p # q
    BY <2>2, <1>2, <1>3, <1>6 DEF IInv, Backed, Backs
  <2> QED
    BY <2>1, <2>2
<1>8. OneInLease'
  BY <1>2, <1>3 DEF IInv, OneInLease
<1>9. \A p \in Request : reqs'[p].fresh = reqs[p].fresh
  BY <1>3, <1>4
<1>10. Remembered'
  BY <1>2, <1>6, <1>9 DEF IInv, Remembered, Remembers
<1>11. OnceIfTimely'
  BY <1>2, <1>3, <1>9 DEF IInv, OnceIfTimely
<1> QED
  BY <1>1, <1>7, <1>8, <1>10, <1>11 DEF IInv

\* A response is stored: it is remembered for at least as long as any lease lasts,
\* and whoever stores it in time was the only one in its lease.
LEMMA PutInv ==
    ASSUME IInv, NEW q \in Request, Put(q) PROVE IInv'
<1>1. /\ rows' = [rows EXCEPT ![KeyOf[q]] = DoneRow(q)]
      /\ reqs' = [reqs EXCEPT ![q].pc = "over",
                              ![q].fresh = IF reqs[q].lease > 0 THEN TTL ELSE 0]
      /\ reqs[q].pc = "store"
  BY DEF Put, Stored
<1>2. TypeOK'
  <2>1. [reqs[q] EXCEPT !.pc = "over",
                        !.fresh = IF reqs[q].lease > 0 THEN TTL ELSE 0] \in State
    BY IdempotencyConstants DEF IInv, TypeOK, State
  <2>2. reqs' \in [Request -> State] /\ rows' \in [Key -> Row]
    BY <1>1, <2>1, RowTypes, KeyType DEF IInv, TypeOK
  <2>3. \A p \in Request : reqs'[p].pc \in {"reserve", "lookup"} =>
                               reqs'[p].tries < MaxTries
    BY <1>1 DEF IInv, TypeOK, State
  <2> QED
    BY <2>2, <2>3 DEF TypeOK
<1>3. \A p \in Request \ {q} : reqs'[p] = reqs[p]
  BY <1>1 DEF IInv, TypeOK
<1>4. /\ reqs'[q].pc = "over" /\ reqs'[q].lease = reqs[q].lease
      /\ reqs'[q].fresh = IF reqs[q].lease > 0 THEN TTL ELSE 0
  BY <1>1 DEF IInv, TypeOK, State
<1>5. \A p \in Request : InLease(p)' => InLease(p) /\ p # q
  BY <1>3, <1>4 DEF InLease
<1>6. \A p \in Request :
         RowOf(p)' = IF KeyOf[p] = KeyOf[q] THEN DoneRow(q) ELSE RowOf(p)
  BY <1>1, KeyType DEF IInv, TypeOK, RowOf
<1>7. \A p \in Request : reqs[p] \in State /\ reqs[p].lease <= Lease
                         /\ reqs[p].fresh <= TTL
  BY DEF IInv, TypeOK, Backed, Remembered
<1>8. Backed'
  <2> SUFFICES ASSUME NEW p \in Request
               PROVE  /\ reqs'[p].lease <= Lease
                      /\ InLease(p)' => Backs(RowOf(p), p)'
    BY DEF Backed
  <2>1. reqs'[p].lease = reqs[p].lease
    BY <1>3, <1>4
  <2>2. CASE KeyOf[p] = KeyOf[q]
    BY <1>6, <1>7, <2>1, <2>2, RowTypes, LeaseWithinTTL, IdempotencyConstants
    DEF Backs, State
  <2>3. CASE KeyOf[p] # KeyOf[q]
    BY <1>5, <1>6, <1>7, <2>1, <2>3 DEF IInv, Backed, Backs
  <2> QED
    BY <2>2, <2>3
<1>9. OneInLease'
  BY <1>5 DEF IInv, OneInLease
<1>10. Remembered'
  <2> SUFFICES ASSUME NEW p \in Request
               PROVE  reqs'[p].fresh <= TTL /\ Remembers(RowOf(p), p)'
    BY DEF Remembered
  <2>1. reqs'[p].fresh <= TTL
    BY <1>3, <1>4, <1>7, IdempotencyConstants
  <2>2. CASE KeyOf[p] = KeyOf[q]
    BY <1>2, <1>6, <2>1, <2>2, RowTypes, IdempotencyConstants
    DEF Remembers, TypeOK, State
  <2>3. CASE KeyOf[p] # KeyOf[q]
    BY <1>3, <1>6, <2>3 DEF IInv, Remembered, Remembers
  <2> QED
    BY <2>1, <2>2, <2>3
<1>11. OnceIfTimely'
  <2>1. CASE reqs[q].lease > 0
    <3>1. InLease(q)
      BY <1>1, <2>1 DEF InLease
    <3>2. \A p \in Request \ {q} : KeyOf[p] = KeyOf[q] =>
                                      ~InLease(p) /\ ~(reqs[p].fresh > 0)
      BY <3>1 DEF IInv, OneInLease, OnceIfTimely
    <3> QED
      BY <1>3, <1>5, <3>2 DEF IInv, OnceIfTimely
  <2>2. CASE ~(reqs[q].lease > 0)
    <3>1. reqs'[q].fresh = 0
      BY <1>4, <2>2
    <3> QED
      BY <1>3, <1>5, <3>1 DEF IInv, OnceIfTimely
  <2> QED
    BY <2>1, <2>2
<1> QED
  BY <1>2, <1>8, <1>9, <1>10, <1>11 DEF IInv

\* A late release: the token keeps it from another request's reservation.
LEMMA ReleaseInv ==
    ASSUME IInv, NEW q \in Request, Release(q) PROVE IInv'
<1>1. CASE RowOf(q).status = "pending" /\ RowOf(q).request = q
  <2>1. /\ \A p \in Request \ {q} : InLease(p) /\ KeyOf[p] = KeyOf[q] => FALSE
        /\ \A p \in Request : KeyOf[p] = KeyOf[q] => ~(reqs[p].fresh > 0)
    BY <1>1 DEF IInv, Backed, Backs, RowOf, Remembered, Remembers
  <2> QED
    BY <1>1, <2>1, RowTypes, MoveOnWriting DEF Release, Goto, Remembers
<1>2. CASE ~(RowOf(q).status = "pending" /\ RowOf(q).request = q)
  <2> DEFINE s == [reqs[q] EXCEPT !.pc = "over"]
  <2>1. s \in State /\ s.lease = reqs[q].lease /\ s.pc = "over"
        /\ s.fresh = reqs[q].fresh
    BY DEF IInv, TypeOK, State
  <2>2. reqs' = [reqs EXCEPT ![q] = s] /\ UNCHANGED rows
    BY <1>2 DEF Release, Goto
  <2> HIDE DEF s
  <2> QED
    BY <2>1, <2>2, MoveOn
<1> QED
  BY <1>1, <1>2

\* An INSERT whose answer was lost, or a Reserve that failed without effect.
LEMMA ReserveFailsInv ==
    ASSUME IInv, NEW q \in Request, ReserveFails(q) PROVE IInv'
<1>1. CASE UNCHANGED rows
  <2> DEFINE s == [reqs[q] EXCEPT !.pc = "over"]
  <2>1. s \in State /\ s.lease = reqs[q].lease /\ s.pc = "over"
        /\ s.fresh = reqs[q].fresh
    BY DEF IInv, TypeOK, State
  <2>2. reqs' = [reqs EXCEPT ![q] = s]
    BY DEF ReserveFails, Goto
  <2> HIDE DEF s
  <2> QED
    BY <1>1, <2>1, <2>2, MoveOn
<1>2. CASE Free(q) /\ rows' = [rows EXCEPT ![KeyOf[q]] = PendingRow(q)]
  <2>1. \A p \in Request : KeyOf[p] = KeyOf[q] => ~InLease(p) /\ ~(reqs[p].fresh > 0)
    BY <1>2, KeyType, FreeMeansNobody DEF Free, RowOf
  <2> QED
    BY <1>2, <2>1, RowTypes, MoveOnWriting DEF ReserveFails, Goto, Remembers
<1> QED
  BY <1>1, <1>2 DEF ReserveFails

\* What a lookup can lead to; the tries stay within their bound as long as a
\* request that reserves has one left.
LEMMA LookupFacts ==
    ASSUME IInv, NEW q \in Request, Lookup(q)
    PROVE  \E pc \in {"over", "wait", "reserve"}, n \in 0..MaxTries :
                /\ reqs' = [reqs EXCEPT ![q].pc = pc, ![q].tries = n]
                /\ pc = "reserve" => n < MaxTries
<1> DEFINE t == reqs[q].tries
<1>1. t \in 0..MaxTries /\ t < MaxTries
  BY DEF IInv, TypeOK, State, Lookup
<1>2. t \in 0..MaxTries /\ t + 1 \in 0..MaxTries
  BY <1>1, IdempotencyConstants
<1> DEFINE pc == CASE RowOf(q).status = "done" -> "over"
                   [] RowOf(q).status = "pending" -> "wait"
                   [] t + 1 < MaxTries -> "reserve"
                   [] OTHER -> "wait"
           n == IF RowOf(q).status = "absent" THEN t + 1 ELSE t
<1>3. RowOf(q).status \in {"absent", "pending", "done"}
  BY KeyType DEF IInv, TypeOK, Row, RowOf
<1>4. pc \in {"over", "wait", "reserve"} /\ (pc = "reserve" => n < MaxTries)
  BY <1>1, <1>3
<1>5. n \in 0..MaxTries
  BY <1>2
<1>6. reqs' = [reqs EXCEPT ![q].pc = pc, ![q].tries = n]
  BY DEF Lookup
<1> HIDE DEF pc, n
<1> QED
  BY <1>4, <1>5, <1>6

\* The steps that leave the table alone.
LEMMA QuietInv ==
    ASSUME IInv, NEW q \in Request,
           \/ Arrive(q) \/ Lookup(q) \/ PollAgain(q) \/ GiveUp(q)
           \/ \E cacheable \in BOOLEAN : HandlerReturns(q, cacheable)
           \/ PutFails(q) \/ ReleaseFails(q) \/ Dies(q)
           \/ Insert(q) /\ ~Free(q)
    PROVE  IInv'
<1> USE IdempotencyConstants
<1>1. reqs[q] \in State
  BY DEF IInv, TypeOK
<1>2. PICK s \in State : /\ reqs' = [reqs EXCEPT ![q] = s]
                         /\ s.lease = reqs[q].lease /\ s.fresh = reqs[q].fresh
                         /\ s.pc \in {"store", "release"} => reqs[q].pc = "running"
                         /\ s.pc # "running"
                         /\ s.pc \in {"reserve", "lookup"} => s.tries < MaxTries
  <2>1. CASE Arrive(q) \/ PollAgain(q)
    <3> DEFINE s == [reqs[q] EXCEPT !.pc = "reserve", !.tries = 0]
    <3>1. s \in State
      <4>1. 0 \in 0..MaxTries
        OBVIOUS
      <4> QED
        BY <4>1, <1>1 DEF State
    <3>2. reqs' = [reqs EXCEPT ![q] = s]
      BY <2>1 DEF Arrive, PollAgain
    <3>3. s.lease = reqs[q].lease /\ s.fresh = reqs[q].fresh
          /\ s.pc = "reserve" /\ s.tries < MaxTries
      BY <1>1 DEF State
    <3> QED
      BY <3>1, <3>2, <3>3
  <2>2. CASE GiveUp(q) \/ PutFails(q) \/ ReleaseFails(q) \/ Dies(q)
    <3> DEFINE s == [reqs[q] EXCEPT !.pc = "over"]
    <3>1. s \in State
      BY <1>1 DEF State
    <3>2. reqs' = [reqs EXCEPT ![q] = s]
      BY <2>2 DEF GiveUp, PutFails, ReleaseFails, Dies, Goto
    <3>3. s.lease = reqs[q].lease /\ s.fresh = reqs[q].fresh
          /\ s.pc = "over"
      BY <1>1 DEF State
    <3> QED
      BY <3>1, <3>2, <3>3
  <2>3. CASE Insert(q) /\ ~Free(q)
    <3> DEFINE s == [reqs[q] EXCEPT !.pc = "lookup"]
    <3>1. s \in State
      BY <1>1 DEF State
    <3>2. reqs' = [reqs EXCEPT ![q] = s]
      BY <2>3 DEF Insert, Goto
    <3>3. s.lease = reqs[q].lease /\ s.fresh = reqs[q].fresh
          /\ s.pc = "lookup" /\ s.tries < MaxTries
      BY <1>1, <2>3 DEF State, Insert, IInv, TypeOK
    <3> QED
      BY <3>1, <3>2, <3>3
  <2>4. CASE Lookup(q)
    <3>1. PICK pc \in {"over", "wait", "reserve"}, n \in 0..MaxTries :
             /\ reqs' = [reqs EXCEPT ![q].pc = pc, ![q].tries = n]
             /\ pc = "reserve" => n < MaxTries
      BY <2>4, LookupFacts
    <3> DEFINE s == [reqs[q] EXCEPT !.pc = pc, !.tries = n]
    <3>2. s \in State
      BY <3>1, <1>1 DEF State
    <3>3. reqs' = [reqs EXCEPT ![q] = s]
      BY <3>1
    <3>4. s.lease = reqs[q].lease /\ s.fresh = reqs[q].fresh
          /\ s.pc = pc /\ s.tries = n
      BY <1>1 DEF State
    <3> QED
      BY <3>1, <3>2, <3>3, <3>4
  <2>5. ASSUME NEW cacheable \in BOOLEAN, HandlerReturns(q, cacheable)
        PROVE  \E s \in State :
                  /\ reqs' = [reqs EXCEPT ![q] = s]
                  /\ s.lease = reqs[q].lease /\ s.fresh = reqs[q].fresh
                  /\ s.pc \in {"store", "release"} => reqs[q].pc = "running"
                  /\ s.pc # "running"
                  /\ s.pc \in {"reserve", "lookup"} => s.tries < MaxTries
    <3> DEFINE s == [reqs[q] EXCEPT !.pc = IF cacheable THEN "store" ELSE "release"]
    <3>1. s \in State
      BY <1>1 DEF State
    <3>2. reqs' = [reqs EXCEPT ![q] = s]
      BY <2>5 DEF HandlerReturns, Goto
    <3>3. s.lease = reqs[q].lease /\ s.fresh = reqs[q].fresh
          /\ s.pc \in {"store", "release"}
      BY <1>1 DEF State
    <3> QED
      BY <3>1, <3>2, <3>3, <2>5 DEF HandlerReturns
  <2> QED
    BY <2>1, <2>2, <2>3, <2>4, <2>5
<1>3. UNCHANGED rows
  BY DEF Arrive, Lookup, PollAgain, GiveUp, HandlerReturns, PutFails,
         ReleaseFails, Dies, Insert
<1> QED
  BY <1>2, <1>3, MoveOn

\* Cleanup deletes expired rows only, which back nobody's lease.
LEMMA CleanupInv ==
    ASSUME IInv, Cleanup PROVE IInv'
<1>1. TypeOK'
  BY DEF IInv, TypeOK, Cleanup, AbsentRow, Row
<1>2. \A p \in Request : InLease(p)' = InLease(p) /\ reqs'[p] = reqs[p]
  BY DEF Cleanup, InLease
<1>3. \A p \in Request : InLease(p) \/ reqs[p].fresh > 0 => RowOf(p)' = RowOf(p)
  BY KeyType, FreeMeansNobody DEF Cleanup, RowOf
<1> QED
  BY <1>1, <1>2, <1>3, NoGrantStep
  DEF IInv, TypeOK, State, Backed, Backs, Remembered, Remembers

\* Leases and rows age together.
LEMMA TickInv ==
    ASSUME IInv, Tick PROVE IInv'
<1>1. TypeOK'
  BY SoonerFacts DEF IInv, TypeOK, Tick, Row, State
<1>2. \A p \in Request : /\ reqs'[p].lease = Sooner(reqs[p].lease)
                         /\ reqs'[p].fresh = Sooner(reqs[p].fresh)
                         /\ reqs'[p].pc = reqs[p].pc
                         /\ reqs[p].lease \in Nat /\ reqs[p].fresh \in Nat
  BY DEF IInv, TypeOK, Tick, State
<1>a. \A k \in Key : /\ rows'[k].expires = Sooner(rows[k].expires)
                     /\ rows'[k].status = rows[k].status
                     /\ rows'[k].request = rows[k].request
                     /\ rows[k].expires \in Nat
  BY DEF IInv, TypeOK, Tick, Row
<1>3. \A p \in Request : /\ RowOf(p)'.expires = Sooner(RowOf(p).expires)
                         /\ RowOf(p)'.status = RowOf(p).status
                         /\ RowOf(p)'.request = RowOf(p).request
                         /\ RowOf(p).expires \in Nat
  BY <1>a, KeyType DEF RowOf
<1>4. \A p \in Request : InLease(p)' => InLease(p)
  BY <1>2, SoonerFacts DEF InLease, Sooner
<1>5. \A p \in Request : InLease(p)' =>
         /\ RowOf(p)'.expires >= reqs'[p].lease
         /\ \/ RowOf(p)'.status = "pending" /\ RowOf(p)'.request = p
            \/ RowOf(p)'.status = "done"
  BY <1>2, <1>3, <1>4, SoonerFacts DEF IInv, Backed, Backs
<1>6. \A p \in Request : /\ reqs'[p].lease <= reqs[p].lease
                         /\ reqs'[p].fresh <= reqs[p].fresh
  BY <1>2, SoonerFacts
<1>7. \A p \in Request : reqs'[p].fresh > 0 =>
         RowOf(p)'.status = "done" /\ RowOf(p)'.expires >= reqs'[p].fresh
  BY <1>2, <1>3, SoonerFacts DEF IInv, Remembered, Remembers, Sooner
<1> QED
  BY <1>1, <1>4, <1>5, <1>6, <1>7, NoGrantStep

\* Every step keeps the invariant.
LEMMA NextInv == IInv /\ [Next]_vars => IInv'
<1> SUFFICES ASSUME IInv, [Next]_vars PROVE IInv'
  OBVIOUS
<1>1. ASSUME NEW q \in Request, Insert(q), Free(q) PROVE IInv'
  BY <1>1, GrantInv DEF Insert
<1>2. CASE UNCHANGED vars
  BY <1>2 DEF vars, IInv, TypeOK, Backed, Backs, OneInLease, InLease, RowOf,
              Remembered, Remembers, OnceIfTimely
<1>3. CASE Cleanup \/ Tick
  BY <1>3, CleanupInv, TickInv
<1>4. ASSUME NEW q \in Request, Put(q) \/ Release(q) \/ ReserveFails(q)
      PROVE IInv'
  BY <1>4, PutInv, ReleaseInv, ReserveFailsInv
<1> QED
  BY <1>1, <1>2, <1>3, <1>4, QuietInv DEF Next

\* The invariant holds in every reachable state.
THEOREM InvariantHolds == Spec => []IInv
  BY InitInv, NextInv, PTL DEF Spec

\* Every row and request keeps its type.
THEOREM TypeCorrect == Spec => []TypeOK
<1>1. IInv => TypeOK
  BY DEF IInv
<1> QED
  BY <1>1, InvariantHolds, PTL

\* At most one request of a key is in its lease, however late others answer,
\* provided responses are remembered at least as long as leases last.
THEOREM Exclusive == Spec => []OneInLease
<1>1. IInv => OneInLease
  BY DEF IInv
<1> QED
  BY <1>1, InvariantHolds, PTL

\* Once a response is stored within its lease, no other request of its key holds a
\* lease or stores a response in time until it expires.
THEOREM Once == Spec => []OnceIfTimely
<1>1. IInv => OnceIfTimely
  BY DEF IInv
<1> QED
  BY <1>1, InvariantHolds, PTL

\* A step never takes a stored response away before it expires.
LEMMA StoredStep ==
    ASSUME IInv, [Next]_vars, NEW k \in Key,
           rows[k].status = "done", ~Expired(rows[k])
    PROVE  rows'[k].status = "done"
<1>1. ASSUME NEW q \in Request,
             rows' = [rows EXCEPT ![KeyOf[q]] = DoneRow(q)]
      PROVE  rows'[k].status = "done"
  BY <1>1, RowTypes, KeyType DEF IInv, TypeOK
<1>2. ASSUME NEW q \in Request, NEW row,
             rows' = [rows EXCEPT ![KeyOf[q]] = row], KeyOf[q] # k
      PROVE  rows'[k].status = "done"
  BY <1>2, KeyType DEF IInv, TypeOK
<1>3. ASSUME NEW q \in Request, Insert(q) \/ ReserveFails(q)
      PROVE  rows'[k].status = "done"
  BY <1>2, <1>3, KeyType DEF Insert, ReserveFails, Free, RowOf
<1>4. ASSUME NEW q \in Request, Put(q) \/ Release(q)
      PROVE  rows'[k].status = "done"
  BY <1>1, <1>2, <1>4 DEF Put, Release, RowOf
<1>5. CASE Cleanup
  BY <1>5 DEF Cleanup
<1>7. CASE Tick
  BY <1>7 DEF Tick, IInv, TypeOK, Row
<1>6. CASE UNCHANGED rows
  BY <1>6
<1> QED
  BY <1>3, <1>4, <1>5, <1>6, <1>7
  DEF Next, vars, Arrive, Lookup, PollAgain, GiveUp, HandlerReturns, PutFails,
      ReleaseFails, Dies

\* A stored response stays until it expires.
THEOREM ResponseKept == Spec => StoredKept
<1>1. IInv /\ [Next]_vars =>
        [\A k \in Key : rows[k].status = "done" /\ ~Expired(rows[k])
                        => rows'[k].status = "done"]_vars
  BY StoredStep
<1> QED
  BY <1>1, InvariantHolds, PTL DEF Spec, StoredKept
=============================================================================
