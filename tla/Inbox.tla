------------------------------- MODULE Inbox --------------------------------
(***************************************************************************)
(* The journal of inbound payment notifications: one request of a provider *)
(* that it may deliver any number of times, the rows the deliveries leave, *)
(* the workers that process them, at once or from a sweep, and the         *)
(* incidents that put an unresolved one before a person.                   *)
(*                                                                         *)
(* A worker's claim is not fenced: a slow one resolves a row that was      *)
(* claimed again, or finished, meanwhile. Bodies, headers and their        *)
(* blanking are left out; all deliveries name the same payment, if any.    *)
(* Acknowledging or closing an incident by hand is left out.               *)
(***************************************************************************)
EXTENDS Integers, Sequences

CONSTANTS
    MaxRows,      \* bound: deliveries of the request
    Proc,         \* goroutines that serve webhooks and people
    Sweeper,      \* goroutines that re-run what is due
    Backoff,      \* waits after the first, second, ... failed attempt
    StaleAfter,   \* how long a row may be under way before it counts as orphaned
    DedupeWindow, \* how far back an identical request counts as a duplicate
    Retain,       \* how long a closed row is kept
    Response,     \* what the handlers answer
    MaxManual     \* bound: notifications a person runs again or closes

Note == 1..MaxRows
Worker == Proc \cup Sweeper

ASSUME InboxConstants ==
    /\ MaxRows \in Nat
    /\ Backoff \in Seq(Nat)
    /\ StaleAfter \in Nat /\ DedupeWindow \in Nat
    /\ Retain \in Nat /\ StaleAfter <= Retain /\ DedupeWindow <= Retain
    /\ MaxManual \in Nat
    /\ \A resp \in Response : resp.named \in BOOLEAN /\ resp.failed \in BOOLEAN

VARIABLES
    rows,      \* rows[n]: the row of the n-th delivery
    workers,   \* workers[w]: what goroutine w is doing
    incidents, \* open incidents, by kind and subject
    answered,  \* rows whose incident another outcome closed as obsolete
    manual     \* what persons did so far

vars == <<rows, workers, incidents, answered, manual>>

----------------------------------------------------------------------------
(* Rows *)

\* Closed states, states a person must look at, and states that are worked on.
Closed == {"procesada", "duplicada", "ignorada", "reconciliada_por_api",
           "resuelta_manual"}

ReviewEstados == {"requiere_revision", "dead_letter"}

Working == {"recibida", "procesando", "reintentar"}

\* Ages count from received_at and updated_at; next is the time to the retry.
NoRow == [estado |-> "none", auth |-> "", named |-> FALSE, intentos |-> 0,
          received |-> 0, updated |-> 0, next |-> 0]

Recorded == {n \in Note : rows[n].estado \notin {"none", "purged"}}

\* An identical request that was handled or is being handled.
hasTwin ==
    \E n \in Recorded :
        /\ rows[n].received <= DedupeWindow
        /\ \/ rows[n].estado \in Closed
           \/ /\ rows[n].estado \in {"recibida", "procesando"}
              /\ rows[n].received <= StaleAfter

----------------------------------------------------------------------------
(* Workers *)

NoResult == [estado |-> "", auth |-> "", named |-> FALSE, failed |-> FALSE]

Idle == [pc |-> "idle", note |-> 0, result |-> NoResult, attempt |-> 0,
         auth |-> "", named |-> FALSE, undercut |-> FALSE]

Doing(pc, n) == [Idle EXCEPT !.pc = pc, !.note = n]

Goto(w, state) == workers' = [workers EXCEPT ![w] = state]

\* A crash, or a read or write that fails: the row stays as it is.
Dies(w) ==
    /\ workers[w].pc # "idle"
    /\ Goto(w, Idle)
    /\ UNCHANGED <<rows, incidents, answered, manual>>

----------------------------------------------------------------------------
(* Deliveries *)

\* The request is stored before anything is decided about it; a duplicate is
\* stored too and goes no further.
Record(w, n) ==
    /\ workers[w].pc = "idle"
    /\ rows[n].estado = "none"
    /\ \A m \in Note : m < n => rows[m].estado # "none"
    /\ rows' = [rows EXCEPT ![n].estado = IF hasTwin THEN "duplicada" ELSE "recibida"]
    /\ Goto(w, IF hasTwin THEN Idle ELSE Doing("handle", n))
    /\ UNCHANGED <<incidents, answered, manual>>

\* What becomes of the handler's answer.
OutcomeState ==
    [reconciled |-> "reconciliada_por_api", duplicate |-> "duplicada",
     ignored |-> "ignorada", unresolved |-> "requiere_revision"]

Refused(resp) ==
    [NoResult EXCEPT
        !.estado = CASE resp.err = "unauthorized" -> "requiere_revision"
                     [] resp.err = "unknown_route" -> "ignorada"
                     [] OTHER -> "reintentar",
        !.auth = IF resp.err = "unauthorized" THEN resp.auth ELSE ""]

FromDispatch(resp) ==
    LET auth == IF resp.status = "401" /\ ~ resp.failed /\ resp.auth = ""
                THEN "firma_invalida" ELSE resp.auth
        kept == resp.outcome \in {"reconciled", "ignored", "duplicate"}
    IN  IF resp.err # "" THEN Refused(resp)
        ELSE [estado |->
                 IF resp.failed \/ resp.status = "5xx" THEN "reintentar"
                 ELSE IF resp.status = "401" /\ resp.outcome = "reconciled"
                 THEN "reconciliada_por_api"
                 ELSE IF resp.status \in {"401", "4xx"} THEN "requiere_revision"
                 ELSE IF auth = "firma_invalida" /\ ~ kept THEN "requiere_revision"
                 ELSE IF resp.outcome \in DOMAIN OutcomeState
                 THEN OutcomeState[resp.outcome] ELSE "procesada",
              auth |-> auth, named |-> resp.named, failed |-> resp.failed]

\* Resolve begins: the row is read; an attempt past the last wait gives up.
ReadRow(w, n, result) ==
    LET attempt == rows[n].intentos + 1
        spent == result.estado = "reintentar" /\ attempt > Len(Backoff)
    IN  Goto(w, IF n \notin Recorded THEN Idle
                ELSE [Doing("incidents", n) EXCEPT
                         !.attempt = attempt,
                         !.auth = rows[n].auth, !.named = rows[n].named,
                         !.result = [result EXCEPT
                                        !.estado = IF spent THEN "dead_letter" ELSE @]])

HandlerReturns(w) ==
    /\ workers[w].pc = "handle"
    /\ \E resp \in Response : ReadRow(w, workers[w].note, FromDispatch(resp))
    /\ UNCHANGED <<rows, incidents, answered, manual>>

----------------------------------------------------------------------------
(* Sweeps and claims *)

\* Mutant: a row a dead process had claimed is not found again.
OrphanedReceived(n) ==
    rows[n].estado = "recibida" /\ rows[n].updated > StaleAfter

Orphaned(n) ==
    rows[n].estado \in {"recibida", "procesando"} /\ rows[n].updated > StaleAfter

Due(w, n) ==
    /\ workers[w].pc = "idle"
    /\ Orphaned(n) \/ (rows[n].estado = "reintentar" /\ rows[n].next = 0)
    /\ Goto(w, Doing("claim", n))
    /\ UNCHANGED <<rows, incidents, answered, manual>>

claimable(n, force) ==
    CASE rows[n].estado \in {"recibida", "reintentar"} -> TRUE
      [] rows[n].estado = "procesando" -> rows[n].updated > StaleAfter
      [] OTHER -> force

Claimed(n) == [rows EXCEPT ![n].estado = "procesando", ![n].updated = 0, ![n].next = 0]

\* The row may have changed since it was found due.
Claim(w) ==
    LET n == workers[w].note
    IN  /\ workers[w].pc = "claim"
        /\ IF n \in Recorded /\ claimable(n, FALSE)
           THEN rows' = Claimed(n) /\ Goto(w, Doing("handle", n))
           ELSE UNCHANGED rows /\ Goto(w, Idle)
        /\ UNCHANGED <<incidents, answered, manual>>

\* A person runs a notification again, a finished one too.
Rerun(w, n) ==
    /\ workers[w].pc = "idle"
    /\ n \in Recorded /\ claimable(n, TRUE)
    /\ manual < MaxManual
    /\ manual' = manual + 1
    /\ rows' = Claimed(n)
    /\ answered' = answered \ {n}
    /\ Goto(w, Doing("handle", n))
    /\ UNCHANGED incidents

\* A person closes a notification that waits for one.
ResolveManual(w, n) ==
    /\ workers[w].pc = "idle"
    /\ rows[n].estado \in ReviewEstados
    /\ manual < MaxManual
    /\ manual' = manual + 1
    /\ Goto(w, Doing("close", n))
    /\ UNCHANGED <<rows, incidents, answered>>

CloseManually(w) ==
    /\ workers[w].pc = "close"
    /\ ReadRow(w, workers[w].note, [NoResult EXCEPT !.estado = "resuelta_manual"])
    /\ UNCHANGED <<rows, incidents, answered, manual>>

----------------------------------------------------------------------------
(* Resolve *)

\* What incidents are about: the payment, and its provider, or one notification.
Payment == 0

\* mergeIdentity: the outcome over what the row was read to say.
Auth(v) == IF v.result.auth # "" THEN v.result.auth ELSE v.auth

subject(v) == IF v.named \/ v.result.named THEN Payment ELSE v.note

Kind == {"unresolved", "dead_letter", "write_failed"}

\* The incidents an outcome calls for, and the ones it makes obsolete.
Wanted(v) ==
    UNION {IF Auth(v) = "firma_invalida" THEN {<<"signature", Payment>>} ELSE {},
           IF \/ v.result.estado = "requiere_revision"
              \/ v.result.estado = "reintentar" /\ Auth(v) = "firma_invalida"
           THEN {<<"unresolved", subject(v)>>} ELSE {},
           IF v.result.estado = "dead_letter" THEN {<<"dead_letter", subject(v)>>} ELSE {},
           IF v.result.failed THEN {<<"write_failed", subject(v)>>} ELSE {}}

Obsolete(v) ==
    (IF v.result.estado \in Closed THEN Kind \X {subject(v)} ELSE {})
    \cup (IF Auth(v) = "firma_ok" THEN {<<"signature", Payment>>} ELSE {})

\* The incident that puts a row before a person, under the subject it had then.
KindOf(estado) == IF estado = "dead_letter" THEN "dead_letter" ELSE "unresolved"

Announced(n) == {KindOf(rows[n].estado)} \X {n, Payment}

\* Worker w leaves these incidents open and goes on to state.
LeaveOpen(w, open, state) ==
    LET gone == incidents \ open
        Undercut(u) == /\ u.pc = "write" /\ u.result.estado \in ReviewEstados
                       /\ <<KindOf(u.result.estado), subject(u)>> \in gone
    IN  /\ incidents' = open
        /\ answered' = answered \cup {n \in Recorded :
                                        /\ rows[n].estado \in ReviewEstados
                                        /\ Announced(n) \cap gone # {}
                                        /\ Announced(n) \cap open = {}}
        /\ workers' = [u \in Worker |->
                          IF u = w THEN state
                          ELSE [workers[u] EXCEPT !.undercut = @ \/ Undercut(workers[u])]]

applyIncidents(w) ==
    LET v == workers[w]
    IN  /\ v.pc = "incidents"
        /\ LeaveOpen(w, (incidents \cup Wanted(v)) \ Obsolete(v), [v EXCEPT !.pc = "write"])
        /\ UNCHANGED <<rows, manual>>

\* Mutant: a failed incident write is only logged.
IncidentsFailLogged(w) ==
    /\ workers[w].pc = "incidents"
    /\ Goto(w, [workers[w] EXCEPT !.pc = "write"])
    /\ UNCHANGED <<rows, incidents, answered, manual>>

\* An incident cannot be opened or closed, after others were: Resolve fails and
\* the row does not change.
IncidentsFail(w) ==
    LET v == workers[w]
    IN  /\ v.pc = "incidents"
        /\ \E opened \in SUBSET Wanted(v), closed \in SUBSET Obsolete(v) :
              /\ closed # {} => opened = Wanted(v)
              /\ LeaveOpen(w, (incidents \cup opened) \ closed, Idle)
        /\ UNCHANGED <<rows, manual>>

Resolved(row, v) ==
    [row EXCEPT !.estado = v.result.estado, !.intentos = v.attempt, !.updated = 0,
                !.next = IF v.result.estado = "reintentar" THEN Backoff[v.attempt] ELSE 0,
                !.auth = IF v.result.auth # "" THEN v.result.auth ELSE @,
                !.named = @ \/ v.result.named]

\* The outcome is written over whatever the row says by now.
WriteRow(w) ==
    LET v == workers[w]
        n == v.note
    IN  /\ v.pc = "write"
        /\ rows' = IF n \in Recorded THEN [rows EXCEPT ![n] = Resolved(@, v)] ELSE rows
        /\ answered' = IF v.undercut THEN answered \cup {n} ELSE answered \ {n}
        /\ Goto(w, Idle)
        /\ UNCHANGED <<incidents, manual>>

----------------------------------------------------------------------------
(* Retention and time *)

Purge(n) ==
    /\ rows[n].estado \in Closed
    /\ rows[n].received > Retain
    /\ rows' = [rows EXCEPT ![n] = [NoRow EXCEPT !.estado = "purged"]]
    /\ UNCHANGED <<workers, incidents, answered, manual>>

Older(age, cap) == IF age < cap THEN age + 1 ELSE age

\* updated_at is only asked of rows under way.

Tick ==
    /\ rows' = [n \in Note |->
                   IF n \in Recorded
                   THEN [rows[n] EXCEPT !.received = Older(@, Retain + 1),
                                        !.updated = IF rows[n].estado \in Working
                                                    THEN Older(@, StaleAfter + 1) ELSE @,
                                        !.next = IF @ > 0 THEN @ - 1 ELSE 0]
                   ELSE rows[n]]
    /\ UNCHANGED <<workers, incidents, answered, manual>>

----------------------------------------------------------------------------
(* Specification *)

Init ==
    /\ rows = [n \in Note |-> NoRow]
    /\ workers = [w \in Worker |-> Idle]
    /\ incidents = {}
    /\ answered = {}
    /\ manual = 0

Resolve(w) == CloseManually(w) \/ applyIncidents(w) \/ IncidentsFail(w) \/ WriteRow(w)

Next ==
    \/ \E w \in Proc, n \in Note : Record(w, n) \/ Rerun(w, n) \/ ResolveManual(w, n)
    \/ \E w \in Sweeper, n \in Note : Due(w, n)
    \/ \E w \in Worker : Claim(w) \/ HandlerReturns(w) \/ Resolve(w) \/ Dies(w)
    \/ \E n \in Note : Purge(n)
    \/ Tick

Spec == Init /\ [][Next]_vars

\* What a sweep does until it is idle again, and how it may be cut short.
Proceed(w) ==
    Claim(w) \/ HandlerReturns(w) \/ applyIncidents(w) \/ WriteRow(w)

Fails(w) == Dies(w) \/ IncidentsFail(w)

\* Time passes, the sweep comes to every row that is due, and eventually the
\* process and the database stay up.
FairSpec ==
    /\ Spec
    /\ WF_vars(Tick)
    /\ \A w \in Sweeper :
          /\ WF_vars(Proceed(w))
          /\ \A n \in Note : SF_vars(Due(w, n))
          /\ <>[][~ Fails(w)]_vars

----------------------------------------------------------------------------
(* Properties *)

\* An outcome that needs a person is never recorded without that person's
\* incident (Resolve), unless a handled outcome closed the incident after it was
\* opened.
ReviewHasIncident ==
    \A n \in Recorded \ answered :
        rows[n].estado \in ReviewEstados => Announced(n) \cap incidents # {}

\* Once deliveries and people rest, every notification is handled or before a
\* person, for good (Due, Claim, Resolve): though processes died with it, handlers
\* failed and slow workers overwrote its state and count.
Attended == <>[](\A n \in Note : rows[n].estado \notin Working)
=============================================================================
