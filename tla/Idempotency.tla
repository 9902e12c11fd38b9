---------------------------- MODULE Idempotency -----------------------------
(***************************************************************************)
(* The idempotency middleware over a store that can lock (GormStore): one  *)
(* row per composite key, claimed by a reservation with a lease before the *)
(* handler of a request runs, replaced by the response when it succeeds    *)
(* and deleted when it fails. Requests run in any number of replicas and   *)
(* meet only in the table.                                                 *)
(*                                                                         *)
(* Instants are distances from the present. The lock token is the request  *)
(* that drew it: a request is granted at most one reservation.             *)
(***************************************************************************)
EXTENDS Naturals

CONSTANTS
    Key,          \* composite keys
    Request,      \* requests with an Idempotency-Key header
    KeyOf,        \* KeyOf[q]: the key of request q
    Lease,        \* Config.LockTimeout
    TTL,          \* Config.TTL
    MaxTries,     \* the tries of one Reserve
    InFlightWait, \* whether Config.InFlightWait > 0
    NoRequest

ASSUME IdempotencyConstants ==
    /\ KeyOf \in [Request -> Key]
    /\ Lease \in Nat \ {0}
    /\ TTL \in Nat \ {0}
    /\ MaxTries \in Nat \ {0}
    /\ InFlightWait \in BOOLEAN
    /\ NoRequest \notin Request

\* A response is remembered at least as long as a reservation is held: 24 hours
\* and one minute by default.
ASSUME LeaseWithinTTL == Lease <= TTL

VARIABLES
    rows,  \* rows[k]: the row with key_hash k
    reqs   \* reqs[q]: where request q is

vars == <<rows, reqs>>

----------------------------------------------------------------------------
(* Rows and requests *)

Row == [status : {"absent", "pending", "done"},
        request : Request \cup {NoRequest},  \* lock_token, or whose response
        expires : Nat]

AbsentRow == [status |-> "absent", request |-> NoRequest, expires |-> 0]

PendingRow(q) == [status |-> "pending", request |-> q, expires |-> Lease]

DoneRow(q) == [status |-> "done", request |-> q, expires |-> TTL]

\* lease: what is left of the reservation q was granted. fresh: what is left of
\* the time a response q stored within its lease is to be remembered.
State == [pc : {"new", "reserve", "lookup", "wait", "running", "store",
                "release", "over"},
          tries : 0..MaxTries,
          lease : Nat,
          fresh : Nat]

NewRequest == [pc |-> "new", tries |-> 0, lease |-> 0, fresh |-> 0]

Goto(q, pc) == reqs' = [reqs EXCEPT ![q].pc = pc]

RowOf(q) == rows[KeyOf[q]]

Expired(row) == row.status # "absent" /\ row.expires = 0

----------------------------------------------------------------------------
(* Reserve *)

Arrive(q) ==
    /\ reqs[q].pc = "new"
    /\ reqs' = [reqs EXCEPT ![q].pc = "reserve", ![q].tries = 0]
    /\ UNCHANGED rows

FreeUnlessDone(q) == RowOf(q).status = "absent" \/ RowOf(q).status = "pending"

\* INSERT ... ON CONFLICT DO UPDATE ... WHERE expires_at <= now
Free(q) == RowOf(q).status = "absent" \/ Expired(RowOf(q))

Insert(q) ==
    /\ reqs[q].pc = "reserve"
    /\ IF Free(q)
       THEN /\ rows' = [rows EXCEPT ![KeyOf[q]] = PendingRow(q)]
            /\ reqs' = [reqs EXCEPT ![q].pc = "running", ![q].lease = Lease]
       ELSE /\ Goto(q, "lookup")
            /\ UNCHANGED rows

LookupUnbounded(q) ==
    /\ reqs[q].pc = "lookup"
    /\ reqs' = [reqs EXCEPT
                  ![q].pc = CASE RowOf(q).status = "done" -> "over"
                              [] RowOf(q).status = "pending" -> "wait"
                              [] OTHER -> "reserve",
                  ![q].tries = IF RowOf(q).status = "absent" THEN @ + 1 ELSE @]
    /\ UNCHANGED rows

\* The SELECT after an INSERT that claimed nothing. The row was not expired when
\* the INSERT looked or is younger than that, so a row that is there is in flight
\* or replayed; one that was released meanwhile is tried for again.
Lookup(q) ==
    /\ reqs[q].pc = "lookup"
    /\ reqs' = [reqs EXCEPT
                  ![q].pc = CASE RowOf(q).status = "done" -> "over"
                              [] RowOf(q).status = "pending" -> "wait"
                              [] reqs[q].tries + 1 < MaxTries -> "reserve"
                              [] OTHER -> "wait",
                  ![q].tries = IF RowOf(q).status = "absent" THEN @ + 1 ELSE @]
    /\ UNCHANGED rows

\* Reserve fails and the request is answered 503; its INSERT may have been
\* committed all the same.
ReserveFails(q) ==
    /\ reqs[q].pc \in {"reserve", "lookup"}
    /\ \/ UNCHANGED rows
       \/ /\ reqs[q].pc = "reserve"
          /\ Free(q)
          /\ rows' = [rows EXCEPT ![KeyOf[q]] = PendingRow(q)]
    /\ Goto(q, "over")

\* A request in flight: the duplicate reserves again until its wait is over and
\* is then answered 409, at once if there is no wait.
PollAgain(q) ==
    /\ reqs[q].pc = "wait"
    /\ InFlightWait
    /\ reqs' = [reqs EXCEPT ![q].pc = "reserve", ![q].tries = 0]
    /\ UNCHANGED rows

GiveUp(q) ==
    /\ reqs[q].pc = "wait"
    /\ Goto(q, "over")
    /\ UNCHANGED rows

----------------------------------------------------------------------------
(* The handler and what becomes of its response *)

\* A cacheable response is stored; an error, a panic or another status frees the
\* key.
HandlerReturns(q, cacheable) ==
    /\ reqs[q].pc = "running"
    /\ Goto(q, IF cacheable THEN "store" ELSE "release")
    /\ UNCHANGED rows

\* The request is over; what it stored in time is to be remembered for TTL.
Stored(q) == reqs' = [reqs EXCEPT ![q].pc = "over",
                                  ![q].fresh = IF reqs[q].lease > 0 THEN TTL ELSE 0]

PutKeepsExpiry(q) ==
    /\ reqs[q].pc = "store"
    /\ rows' = [rows EXCEPT ![KeyOf[q]] = [DoneRow(q) EXCEPT
                                             !.expires = RowOf(q).expires]]
    /\ Stored(q)

\* Put: an upsert that asks neither for the token nor for the status.
Put(q) ==
    /\ reqs[q].pc = "store"
    /\ rows' = [rows EXCEPT ![KeyOf[q]] = DoneRow(q)]
    /\ Stored(q)

\* The error of Put is logged only, and the request counts as stored.
PutFails(q) ==
    /\ reqs[q].pc = "store"
    /\ Goto(q, "over")
    /\ UNCHANGED rows

ReleaseByKey(q) ==
    /\ reqs[q].pc = "release"
    /\ rows' = [rows EXCEPT ![KeyOf[q]] = AbsentRow]
    /\ Goto(q, "over")

\* Release: DELETE ... WHERE status = 'pending' AND lock_token = ?
Release(q) ==
    /\ reqs[q].pc = "release"
    /\ rows' = IF RowOf(q).status = "pending" /\ RowOf(q).request = q
               THEN [rows EXCEPT ![KeyOf[q]] = AbsentRow]
               ELSE rows
    /\ Goto(q, "over")

ReleaseFails(q) ==
    /\ reqs[q].pc = "release"
    /\ Goto(q, "over")
    /\ UNCHANGED rows

\* The replica that serves q dies.
Dies(q) ==
    /\ reqs[q].pc \notin {"new", "over"}
    /\ Goto(q, "over")
    /\ UNCHANGED rows

----------------------------------------------------------------------------
(* Cleanup and time *)

Cleanup ==
    /\ \E k \in Key : Expired(rows[k])
    /\ rows' = [k \in Key |-> IF Expired(rows[k]) THEN AbsentRow ELSE rows[k]]
    /\ UNCHANGED reqs

Sooner(n) == IF n > 0 THEN n - 1 ELSE 0

Tick ==
    /\ rows' = [k \in Key |-> [rows[k] EXCEPT !.expires = Sooner(@)]]
    /\ reqs' = [q \in Request |-> [reqs[q] EXCEPT !.lease = Sooner(@),
                                                  !.fresh = Sooner(@)]]
    /\ vars' # vars

----------------------------------------------------------------------------

Init ==
    /\ rows = [k \in Key |-> AbsentRow]
    /\ reqs = [q \in Request |-> NewRequest]

Next ==
    \/ \E q \in Request :
          \/ Arrive(q)
          \/ Insert(q)
          \/ Lookup(q)
          \/ ReserveFails(q)
          \/ PollAgain(q)
          \/ GiveUp(q)
          \/ \E cacheable \in BOOLEAN : HandlerReturns(q, cacheable)
          \/ Put(q)
          \/ PutFails(q)
          \/ Release(q)
          \/ ReleaseFails(q)
          \/ Dies(q)
    \/ Cleanup
    \/ Tick

Spec == Init /\ [][Next]_vars

----------------------------------------------------------------------------
(* Properties *)

\* Every row and request has its type, and a request that reserves has a try
\* left: Reserve goes round at most MaxTries times.
TypeOK ==
    /\ rows \in [Key -> Row]
    /\ reqs \in [Request -> State]
    /\ \A q \in Request :
          reqs[q].pc \in {"reserve", "lookup"} => reqs[q].tries < MaxTries

InLease(q) == reqs[q].pc \in {"running", "store", "release"} /\ reqs[q].lease > 0

\* At most one request of a key is between its reservation and the end of its
\* lease: late responses, late releases, cleanups and lost answers of other
\* requests never hand the key to a second one.
OneInLease ==
    \A p, q \in Request :
        InLease(p) /\ InLease(q) /\ KeyOf[p] = KeyOf[q] => p = q

\* A stored response stays until it expires: a request that failed late, or that
\* arrives meanwhile, neither deletes nor reopens it.
StoredKept ==
    [][\A k \in Key :
          rows[k].status = "done" /\ ~Expired(rows[k])
          => rows'[k].status = "done"]_vars

\* What is left of the package's promise that retries never create twice: once a
\* request has stored its response within its lease, no other request of the key
\* holds a lease or stores a response in time until that response expires,
\* however late other requests answer, release or lose their answers.
OnceIfTimely ==
    \A p, q \in Request :
        /\ reqs[p].fresh > 0
        /\ reqs[q].fresh > 0 \/ InLease(q)
        /\ KeyOf[p] = KeyOf[q]
        => p = q
=============================================================================
