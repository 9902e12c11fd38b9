---------------------------- MODULE InboxProofs -----------------------------
(***************************************************************************)
(* Proofs about Inbox for any number of deliveries and goroutines, any     *)
(* waits and windows, and any answers of the handlers.                     *)
(***************************************************************************)
EXTENDS Inbox, TLAPS

----------------------------------------------------------------------------
(* The inductive invariant *)

Estado == {"none", "purged"} \cup Closed \cup ReviewEstados \cup Working

AuthValue == {"", "firma_invalida"} \cup {resp.auth : resp \in Response}

RowType == [estado : Estado, auth : AuthValue, named : BOOLEAN, intentos : Nat,
            received : Nat, updated : Nat, next : Nat]

ResultType == [estado : Estado \cup {""}, auth : AuthValue, named : BOOLEAN,
               failed : BOOLEAN]

Pc == {"idle", "handle", "claim", "close", "incidents", "write"}

Work == [pc : Pc, note : Nat, result : ResultType, attempt : Nat, auth : AuthValue,
         named : BOOLEAN, undercut : BOOLEAN]

Types ==
    /\ rows \in [Note -> RowType]
    /\ workers \in [Worker -> Work]

\* A worker is about a row that was asked for; one that resolves has an outcome,
\* and a retry it schedules is one there is a wait for.
Resolving(v) == v.pc \in {"incidents", "write"}

Outcomes == Estado \ {"none", "purged"}

SoundWork(v) ==
    /\ v.pc # "idle" => v.note \in Note
    /\ Resolving(v) => v.result.estado \in Outcomes
    /\ Resolving(v) /\ v.result.estado = "reintentar" => v.attempt \in 1..Len(Backoff)

\* An outcome for a person that is about to be written has its incident, or lost
\* it to another outcome.
AnnouncedWork(v) ==
    v.pc = "write" /\ v.result.estado \in ReviewEstados
    => v.undercut \/ <<KindOf(v.result.estado), subject(v)>> \in incidents

IInv ==
    /\ Types
    /\ \A w \in Worker : SoundWork(workers[w])
    /\ \A w \in Worker : AnnouncedWork(workers[w])
    /\ ReviewHasIncident

----------------------------------------------------------------------------
(* Workers and rows have their types *)

LEMMA IdleIsWork ==
    /\ NoResult \in ResultType
    /\ Idle \in Work
    /\ Idle.pc = "idle"
  BY DEF Idle, NoResult, Work, ResultType, Pc, AuthValue

LEMMA DoingIsWork ==
    ASSUME NEW pc \in Pc, NEW n \in Nat
    PROVE  /\ Doing(pc, n) \in Work
           /\ Doing(pc, n).pc = pc
           /\ Doing(pc, n).note = n
<1>1. Doing(pc, n) = [Idle EXCEPT !.pc = pc, !.note = n]
  BY DEF Doing
<1> QED
  BY <1>1, IdleIsWork DEF Work

LEMMA NotesNat ==
    \A n \in Note : n \in Nat
  BY InboxConstants DEF Note

\* A goroutine that starts something that writes no outcome yet.
LEMMA StartIsSound ==
    ASSUME NEW n \in Note, NEW pc \in {"handle", "claim", "close"}
    PROVE  /\ Doing(pc, n) \in Work
           /\ Doing(pc, n).pc = pc
           /\ SoundWork(Doing(pc, n))
<1>1. pc \in Pc /\ n \in Nat
  BY NotesNat DEF Pc
<1>2. Doing(pc, n) \in Work /\ Doing(pc, n).pc = pc /\ Doing(pc, n).note = n
  BY <1>1, DoingIsWork
<1> QED
  BY <1>2 DEF SoundWork, Resolving

LEMMA IdleIsSound ==
    SoundWork(Idle)
  BY IdleIsWork DEF SoundWork, Resolving

LEMMA ResultOf ==
    ASSUME NEW e \in Outcomes, NEW a \in AuthValue, NEW n \in BOOLEAN, NEW f \in BOOLEAN
    PROVE  /\ [estado |-> e, auth |-> a, named |-> n, failed |-> f] \in ResultType
           /\ [estado |-> e, auth |-> a, named |-> n, failed |-> f].estado = e
  BY DEF ResultType, Outcomes

\* What the handler answers is an outcome.
LEMMA OutcomeIsResult ==
    ASSUME NEW resp \in Response
    PROVE  /\ FromDispatch(resp) \in ResultType
           /\ FromDispatch(resp).estado \in Outcomes
<1>1. resp.auth \in AuthValue /\ "" \in AuthValue /\ "firma_invalida" \in AuthValue
  BY DEF AuthValue
<1>2. resp.named \in BOOLEAN /\ resp.failed \in BOOLEAN
  BY InboxConstants
<1>3. CASE resp.err # ""
  <2> DEFINE e == CASE resp.err = "unauthorized" -> "requiere_revision"
                    [] resp.err = "unknown_route" -> "ignorada"
                    [] OTHER -> "reintentar"
             a == IF resp.err = "unauthorized" THEN resp.auth ELSE ""
  <2>1. e \in Outcomes
    BY DEF Outcomes, Estado, Closed, ReviewEstados, Working
  <2>2. a \in AuthValue
    BY <1>1
  <2>3. FromDispatch(resp) = [NoResult EXCEPT !.estado = e, !.auth = a]
    BY <1>3 DEF FromDispatch, Refused
  <2> HIDE DEF e, a
  <2> QED
    BY <2>1, <2>2, <2>3, IdleIsWork DEF ResultType, Outcomes
<1>4. CASE resp.err = ""
  <2> DEFINE auth == IF resp.status = "401" /\ ~ resp.failed /\ resp.auth = ""
                     THEN "firma_invalida" ELSE resp.auth
             kept == resp.outcome \in {"reconciled", "ignored", "duplicate"}
             e == IF resp.failed \/ resp.status = "5xx" THEN "reintentar"
                  ELSE IF resp.status = "401" /\ resp.outcome = "reconciled"
                  THEN "reconciliada_por_api"
                  ELSE IF resp.status \in {"401", "4xx"} THEN "requiere_revision"
                  ELSE IF auth = "firma_invalida" /\ ~ kept THEN "requiere_revision"
                  ELSE IF resp.outcome \in DOMAIN OutcomeState
                  THEN OutcomeState[resp.outcome] ELSE "procesada"
  <2>1. resp.outcome \in DOMAIN OutcomeState => OutcomeState[resp.outcome] \in Outcomes
    BY DEF OutcomeState, Outcomes, Estado, Closed, ReviewEstados
  <2>2. {"reintentar", "reconciliada_por_api", "requiere_revision", "procesada"}
        \subseteq Outcomes
    BY DEF Outcomes, Estado, Closed, ReviewEstados, Working
  <2>3. e \in Outcomes
    BY <2>1, <2>2
  <2>4. auth \in AuthValue
    BY <1>1
  <2>5. FromDispatch(resp) = [estado |-> e, auth |-> auth, named |-> resp.named,
                              failed |-> resp.failed]
    BY <1>4, Zenon DEF FromDispatch
  <2> HIDE DEF e, auth, kept
  <2>6. ASSUME NEW n, NEW f, n = resp.named, f = resp.failed
        PROVE  /\ FromDispatch(resp) \in ResultType
               /\ FromDispatch(resp).estado = e
    <3>1. FromDispatch(resp) = [estado |-> e, auth |-> auth, named |-> n, failed |-> f]
      BY <2>5, <2>6, Zenon
    <3>2. n \in BOOLEAN /\ f \in BOOLEAN
      BY <1>2, <2>6, Zenon
    <3>3. /\ [estado |-> e, auth |-> auth, named |-> n, failed |-> f] \in ResultType
          /\ [estado |-> e, auth |-> auth, named |-> n, failed |-> f].estado = e
      BY <2>3, <2>4, <3>2, ResultOf
    <3> QED
      BY <3>1, <3>3, Zenon
  <2> QED
    BY <2>3, <2>6, Zenon
<1> QED
  BY <1>3, <1>4

\* The worker that has read the row: what it read, and then the outcome.
WithRead(v, a, au, nm) == [v EXCEPT !.attempt = a, !.auth = au, !.named = nm]

WithResult(v, res) == [v EXCEPT !.result = res]

LEMMA ReadIsWork ==
    ASSUME NEW v \in Work, NEW a \in Nat, NEW au \in AuthValue, NEW nm \in BOOLEAN
    PROVE  /\ WithRead(v, a, au, nm) \in Work
           /\ WithRead(v, a, au, nm).pc = v.pc
           /\ WithRead(v, a, au, nm).note = v.note
           /\ WithRead(v, a, au, nm).attempt = a
  BY DEF WithRead, Work

LEMMA ResultIsWork ==
    ASSUME NEW v \in Work, NEW res \in ResultType
    PROVE  /\ WithResult(v, res) \in Work
           /\ WithResult(v, res).pc = v.pc
           /\ WithResult(v, res).note = v.note
           /\ WithResult(v, res).attempt = v.attempt
           /\ WithResult(v, res).result = res
  BY DEF WithResult, Work

LEMMA DecidedIsResult ==
    ASSUME NEW res \in ResultType, NEW e \in Outcomes
    PROVE  /\ [res EXCEPT !.estado = e] \in ResultType
           /\ [res EXCEPT !.estado = e].estado = e
  BY DEF ResultType, Outcomes

\* Worker w goes on to p, which writes no outcome yet.
Onward(w, p) == Goto(w, p) /\ p \in Work /\ SoundWork(p) /\ p.pc # "write"

\* Reading the row leads to an outcome, with a wait for every retry.
LEMMA ReadIsSound ==
    ASSUME Types, NEW w \in Worker, NEW n \in Note, NEW result \in ResultType,
           result.estado \in Outcomes, ReadRow(w, n, result)
    PROVE  \E p : Onward(w, p)
<1> DEFINE a == rows[n].intentos + 1
           spent == result.estado = "reintentar" /\ a > Len(Backoff)
           res == [result EXCEPT !.estado = IF spent THEN "dead_letter" ELSE @]
           v == Doing("incidents", n)
           p == WithResult(WithRead(v, a, rows[n].auth, rows[n].named), res)
<1>1. Goto(w, IF n \notin Recorded THEN Idle ELSE p)
  BY DEF ReadRow, WithRead, WithResult
<1>2. CASE n \notin Recorded
  <2>1. Goto(w, Idle)
    BY <1>1, <1>2
  <2> QED
    BY <2>1, IdleIsWork, IdleIsSound DEF Onward
<1>3. CASE n \in Recorded
  <2>1. rows[n] \in RowType
    BY DEF Types
  <2>2. /\ a \in Nat /\ a >= 1
        /\ rows[n].auth \in AuthValue /\ rows[n].named \in BOOLEAN
    BY <2>1 DEF RowType
  <2>3. PICK e \in Outcomes : e = IF spent THEN "dead_letter" ELSE result.estado
    BY DEF Outcomes, Estado, ReviewEstados
  <2>4. res = [result EXCEPT !.estado = e]
    BY <2>3
  <2>5. res \in ResultType /\ res.estado = e
    BY <2>4, DecidedIsResult, Zenon
  <2>6. Len(Backoff) \in Nat
    BY InboxConstants
  <2>7. e = "reintentar" => a \in 1..Len(Backoff)
    BY <2>2, <2>3, <2>6
  <2>8. v \in Work /\ v.pc = "incidents" /\ v.note = n
    BY NotesNat, DoingIsWork DEF Pc
  <2> HIDE DEF a, spent, res, v
  <2> DEFINE q == WithRead(v, a, rows[n].auth, rows[n].named)
  <2>9. q \in Work /\ q.pc = "incidents" /\ q.note = n /\ q.attempt = a
    BY <2>2, <2>8, ReadIsWork
  <2> HIDE DEF q
  <2>10. /\ WithResult(q, res) \in Work
         /\ WithResult(q, res).pc = "incidents"
         /\ WithResult(q, res).note = n
         /\ WithResult(q, res).attempt = a
         /\ WithResult(q, res).result = res
    BY <2>5, <2>9, ResultIsWork
  <2>11. SoundWork(WithResult(q, res))
    BY <2>5, <2>7, <2>10 DEF SoundWork, Resolving
  <2>12. Goto(w, WithResult(q, res))
    BY <1>1, <1>3 DEF q
  <2> QED
    BY <2>10, <2>11, <2>12 DEF Onward
<1> QED
  BY <1>2, <1>3

----------------------------------------------------------------------------
(* Every step keeps the invariant *)

WorkersOK ==
    /\ workers \in [Worker -> Work]
    /\ \A w \in Worker : SoundWork(workers[w])
    /\ \A w \in Worker : AnnouncedWork(workers[w])

RowsOK == rows \in [Note -> RowType] /\ ReviewHasIncident

LEMMA InvIs ==
    /\ IInv <=> WorkersOK /\ RowsOK
    /\ IInv' <=> WorkersOK' /\ RowsOK'
  BY Zenon DEF IInv, Types, WorkersOK, RowsOK

LEMMA OnwardKeeps ==
    ASSUME WorkersOK, NEW w \in Worker, \E p : Onward(w, p), incidents' = incidents
    PROVE  WorkersOK'
<1>1. PICK p : Onward(w, p)
  OBVIOUS
<1>2. workers' \in [Worker -> Work]
  BY <1>1 DEF WorkersOK, Onward, Goto
<1>3. workers'[w] = p /\ \A u \in Worker \ {w} : workers'[u] = workers[u]
  BY <1>1 DEF WorkersOK, Onward, Goto
<1>4. \A u \in Worker : SoundWork(workers'[u])
  BY <1>1, <1>3 DEF WorkersOK, Onward
<1>5. ASSUME NEW u \in Worker
      PROVE  AnnouncedWork(workers[u])'
  <2>1. CASE u = w
    BY <1>1, <1>3, <2>1 DEF AnnouncedWork, Onward
  <2>2. CASE u # w
    BY <1>3, <2>2 DEF WorkersOK, AnnouncedWork
  <2> QED
    BY <2>1, <2>2
<1>6. (\A u \in Worker : SoundWork(workers[u]))'
  BY <1>4 DEF SoundWork, Resolving
<1> QED
  BY <1>2, <1>5, <1>6 DEF WorkersOK

\* Rows that are left alone, and one that is written with no need of a person.
LEMMA RowsAlone ==
    ASSUME RowsOK, UNCHANGED <<rows, incidents, answered>>
    PROVE  RowsOK'
  BY DEF RowsOK, ReviewHasIncident, Recorded, Announced

LEMMA RowMoves ==
    ASSUME RowsOK, NEW n \in Note, NEW r \in RowType, r.estado \notin ReviewEstados,
           rows' = [rows EXCEPT ![n] = r], answered \ {n} \subseteq answered',
           incidents' = incidents
    PROVE  RowsOK'
<1>1. rows' \in [Note -> RowType]
  BY DEF RowsOK
<1>2. rows'[n] = r /\ \A m \in Note \ {n} : rows'[m] = rows[m]
  BY DEF RowsOK
<1>3. ReviewHasIncident'
  <2> SUFFICES ASSUME NEW m \in Note, rows'[m].estado \notin {"none", "purged"},
                      m \notin answered', rows'[m].estado \in ReviewEstados
               PROVE  ({KindOf(rows'[m].estado)} \X {m, Payment}) \cap incidents # {}
    BY DEF ReviewHasIncident, Recorded, Announced
  <2>1. m # n /\ rows'[m] = rows[m] /\ m \notin answered
    BY <1>2
  <2> QED
    BY <2>1 DEF RowsOK, ReviewHasIncident, Recorded, Announced
<1> QED
  BY <1>1, <1>3 DEF RowsOK

\* Incidents open and close: what loses its own is marked.
LEMMA LeaveOpenKeeps ==
    ASSUME WorkersOK, RowsOK, NEW w \in Worker, NEW open, NEW p \in Work,
           SoundWork(p), rows' = rows, LeaveOpen(w, open, p),
           p.pc = "write" /\ p.result.estado \in ReviewEstados
           => <<KindOf(p.result.estado), subject(p)>> \in open
    PROVE  WorkersOK' /\ RowsOK'
<1> DEFINE gone == incidents \ open
           Undercut(u) == /\ u.pc = "write" /\ u.result.estado \in ReviewEstados
                          /\ <<KindOf(u.result.estado), subject(u)>> \in gone
           Marked(u) == [u EXCEPT !.undercut = @ \/ Undercut(u)]
<1>1. /\ incidents' = open
      /\ answered' = answered \cup {n \in Recorded :
                                      /\ rows[n].estado \in ReviewEstados
                                      /\ Announced(n) \cap gone # {}
                                      /\ Announced(n) \cap open = {}}
      /\ workers' = [u \in Worker |-> IF u = w THEN p ELSE Marked(workers[u])]
  BY DEF LeaveOpen
<1>2. RowsOK'
  <2>1. ASSUME NEW n \in Note, rows[n].estado \notin {"none", "purged"},
               n \notin answered', rows[n].estado \in ReviewEstados
        PROVE  Announced(n) \cap open # {}
    <3>1. n \in Recorded /\ n \notin answered
      BY <1>1, <2>1 DEF Recorded
    <3>2. Announced(n) \cap incidents # {}
      BY <2>1, <3>1 DEF RowsOK, ReviewHasIncident
    <3>3. Announced(n) \cap gone # {} \/ Announced(n) \cap open # {}
      BY <3>2
    <3>4. ~ (Announced(n) \cap gone # {} /\ Announced(n) \cap open = {})
      BY <1>1, <2>1, <3>1
    <3> QED
      BY <3>3, <3>4
  <2>2. \A n \in Note : Announced(n)' = Announced(n)
    BY DEF Announced
  <2>3. ReviewHasIncident'
    BY <1>1, <2>1, <2>2 DEF ReviewHasIncident, Recorded
  <2> QED
    BY <2>3 DEF RowsOK
<1>3. ASSUME NEW u \in Work
      PROVE  /\ Marked(u) \in Work
             /\ Marked(u).pc = u.pc /\ Marked(u).note = u.note
             /\ Marked(u).result = u.result /\ Marked(u).attempt = u.attempt
             /\ Marked(u).named = u.named
             /\ Marked(u).undercut <=> u.undercut \/ Undercut(u)
  <2>1. PICK b \in BOOLEAN : b = (u.undercut \/ Undercut(u))
    OBVIOUS
  <2>2. Marked(u) = [u EXCEPT !.undercut = b]
    BY <2>1
  <2> HIDE DEF Marked, Undercut
  <2>3. /\ Marked(u) \in Work
        /\ Marked(u).pc = u.pc /\ Marked(u).note = u.note
        /\ Marked(u).result = u.result /\ Marked(u).attempt = u.attempt
        /\ Marked(u).named = u.named
        /\ Marked(u).undercut = b
    BY <2>2 DEF Work
  <2> QED
    BY <2>1, <2>3
<1>4. ASSUME NEW u \in Worker, u # w
      PROVE  /\ workers'[u] \in Work
             /\ SoundWork(workers[u])'
             /\ AnnouncedWork(workers[u])'
  <2>1. workers[u] \in Work /\ SoundWork(workers[u]) /\ AnnouncedWork(workers[u])
    BY DEF WorkersOK
  <2>2. workers'[u] = Marked(workers[u])
    BY <1>1, <1>4
  <2> HIDE DEF Marked, Undercut
  <2>3. /\ workers'[u] \in Work
        /\ workers'[u].pc = workers[u].pc /\ workers'[u].note = workers[u].note
        /\ workers'[u].result = workers[u].result
        /\ workers'[u].attempt = workers[u].attempt
        /\ workers'[u].named = workers[u].named
        /\ workers'[u].undercut <=> workers[u].undercut \/ Undercut(workers[u])
    BY <1>3, <2>1, <2>2
  <2>4. SoundWork(workers[u])'
    BY <2>1, <2>3 DEF SoundWork, Resolving
  <2>5. subject(workers'[u]) = subject(workers[u])
    BY <2>3 DEF subject
  <2>6. AnnouncedWork(workers[u])'
    BY <1>1, <2>1, <2>3, <2>5 DEF AnnouncedWork, Undercut
  <2> QED
    BY <2>3, <2>4, <2>6
<1>5. workers'[w] = p
  BY <1>1
<1>6. SoundWork(workers[w])' /\ AnnouncedWork(workers[w])'
  BY <1>1, <1>5 DEF SoundWork, Resolving, AnnouncedWork
<1>7. workers' \in [Worker -> Work]
  <2>1. \A u \in Worker : workers'[u] \in Work
    BY <1>4, <1>5
  <2>2. workers' = [u \in Worker |-> workers'[u]]
    BY <1>1, Zenon
  <2> QED
    BY <2>1, <2>2
<1>8. WorkersOK'
  BY <1>4, <1>6, <1>7 DEF WorkersOK
<1> QED
  BY <1>2, <1>8

\* Starting, and stopping.
LEMMA StartOnward ==
    ASSUME NEW w, NEW n \in Note, NEW pc \in {"handle", "claim", "close"},
           Goto(w, Doing(pc, n))
    PROVE  \E p : Onward(w, p)
<1>1. Doing(pc, n) \in Work /\ Doing(pc, n).pc = pc /\ SoundWork(Doing(pc, n))
  BY StartIsSound
<1> QED
  BY <1>1 DEF Onward

LEMMA IdleOnward ==
    ASSUME NEW w, Goto(w, Idle)
    PROVE  \E p : Onward(w, p)
  BY IdleIsWork, IdleIsSound DEF Onward

LEMMA RecordStep ==
    ASSUME IInv, NEW w \in Worker, NEW n \in Note, Record(w, n)
    PROVE  IInv'
<1>0. WorkersOK /\ RowsOK /\ UNCHANGED <<incidents, answered>> /\ rows[n] \in RowType
  BY InvIs DEF Record, RowsOK
<1>1. \E p : Onward(w, p)
  <2>1. CASE hasTwin
    BY <2>1, IdleOnward DEF Record
  <2>2. CASE ~ hasTwin
    <3>1. Goto(w, Doing("handle", n))
      BY <2>2 DEF Record
    <3> QED
      BY <3>1, StartOnward
  <2> QED
    BY <2>1, <2>2
<1>2. PICK e \in {"duplicada", "recibida"} : rows' = [rows EXCEPT ![n].estado = e]
  BY DEF Record
<1>3. rows' = [rows EXCEPT ![n] = [rows[n] EXCEPT !.estado = e]]
  BY <1>2 DEF RowsOK
<1>4. [rows[n] EXCEPT !.estado = e] \in RowType /\ [rows[n] EXCEPT !.estado = e].estado = e
  BY <1>0 DEF RowType, Estado, Closed, Working
<1>5. e \notin ReviewEstados
  BY DEF ReviewEstados
<1>6. RowsOK'
  <2> DEFINE r == [rows[n] EXCEPT !.estado = e]
  <2>1. r \in RowType /\ r.estado \notin ReviewEstados /\ rows' = [rows EXCEPT ![n] = r]
    BY <1>3, <1>4, <1>5
  <2> HIDE DEF r
  <2> QED
    BY <1>0, <2>1, RowMoves
<1> QED
  BY <1>0, <1>1, <1>6, OnwardKeeps, InvIs

LEMMA ClaimedKeeps ==
    ASSUME RowsOK, NEW n \in Note, rows' = Claimed(n), answered \ {n} \subseteq answered',
           incidents' = incidents
    PROVE  RowsOK'
<1> DEFINE r == [rows[n] EXCEPT !.estado = "procesando", !.updated = 0, !.next = 0]
<1>1. rows \in [Note -> RowType] /\ rows[n] \in RowType
  BY DEF RowsOK
<1>2. r \in RowType /\ r.estado = "procesando"
  BY <1>1 DEF RowType, Estado, Working
<1>3. rows' = [rows EXCEPT ![n] = r]
  <2> DEFINE a == [rows EXCEPT ![n] = [rows[n] EXCEPT !.estado = "procesando"]]
             b == [a EXCEPT ![n] = [a[n] EXCEPT !.updated = 0]]
  <2>1. [rows EXCEPT ![n].estado = "procesando"] = a
    BY <1>1
  <2>2. a[n] = [rows[n] EXCEPT !.estado = "procesando"]
    BY <1>1
  <2>3. [a EXCEPT ![n].updated = 0] = b
    BY <1>1
  <2>4. b[n] = [rows[n] EXCEPT !.estado = "procesando", !.updated = 0]
    BY <1>1, <2>2
  <2>5. rows' = [b EXCEPT ![n].next = 0]
    BY <2>1, <2>3, Zenon DEF Claimed
  <2>6. [b EXCEPT ![n].next = 0] = [b EXCEPT ![n] = r]
    BY <2>4
  <2>7. [b EXCEPT ![n] = r] = [rows EXCEPT ![n] = r]
    BY <1>1
  <2> QED
    BY <2>5, <2>6, <2>7, Zenon
<1> HIDE DEF r
<1>4. r.estado \notin ReviewEstados
  BY <1>2 DEF ReviewEstados
<1> QED
  BY <1>2, <1>3, <1>4, RowMoves

LEMMA RerunStep ==
    ASSUME IInv, NEW w \in Worker, NEW n \in Note, Rerun(w, n)
    PROVE  IInv'
<1>0. WorkersOK /\ RowsOK
  BY InvIs
<1>1. Goto(w, Doing("handle", n)) /\ incidents' = incidents
      /\ rows' = Claimed(n) /\ answered' = answered \ {n}
  BY DEF Rerun
<1>2. \E p : Onward(w, p)
  BY <1>1, StartOnward
<1>3. RowsOK'
  BY <1>0, <1>1, ClaimedKeeps
<1> QED
  BY <1>0, <1>1, <1>2, <1>3, OnwardKeeps, InvIs

LEMMA ClaimStep ==
    ASSUME IInv, NEW w \in Worker, Claim(w)
    PROVE  IInv'
<1> DEFINE n == workers[w].note
<1>0. WorkersOK /\ RowsOK /\ UNCHANGED <<incidents, answered>> /\ n \in Note
  BY InvIs DEF Claim, WorkersOK, SoundWork
<1>1. CASE n \in Recorded /\ claimable(n, FALSE)
  <2>1. rows' = Claimed(n) /\ Goto(w, Doing("handle", n))
    BY <1>1 DEF Claim
  <2>2. \E p : Onward(w, p)
    BY <1>0, <2>1, StartOnward
  <2>3. RowsOK'
    BY <1>0, <2>1, ClaimedKeeps
  <2> QED
    BY <1>0, <2>2, <2>3, OnwardKeeps, InvIs
<1>2. CASE ~ (n \in Recorded /\ claimable(n, FALSE))
  <2>1. rows' = rows /\ Goto(w, Idle)
    BY <1>2 DEF Claim
  <2> QED
    BY <1>0, <2>1, IdleOnward, OnwardKeeps, RowsAlone, InvIs
<1> QED
  BY <1>1, <1>2

\* Steps of a worker that leave rows and incidents alone.
LEMMA OnwardStep ==
    ASSUME IInv, NEW w \in Worker, \E p : Onward(w, p),
           UNCHANGED <<rows, incidents, answered>>
    PROVE  IInv'
  BY OnwardKeeps, RowsAlone, InvIs

LEMMA ReadStep ==
    ASSUME IInv, NEW w \in Worker, HandlerReturns(w) \/ CloseManually(w)
    PROVE  IInv'
<1> DEFINE n == workers[w].note
<1>0. /\ Types /\ n \in Note /\ UNCHANGED <<rows, incidents, answered>>
  BY DEF HandlerReturns, CloseManually, IInv, SoundWork
<1>1. CASE HandlerReturns(w)
  <2>1. PICK resp \in Response : ReadRow(w, n, FromDispatch(resp))
    BY <1>1 DEF HandlerReturns
  <2>2. FromDispatch(resp) \in ResultType /\ FromDispatch(resp).estado \in Outcomes
    BY OutcomeIsResult
  <2>3. \E p : Onward(w, p)
    BY <1>0, <2>1, <2>2, ReadIsSound
  <2> QED
    BY <1>0, <2>3, OnwardStep
<1>2. CASE CloseManually(w)
  <2> DEFINE r == [NoResult EXCEPT !.estado = "resuelta_manual"]
  <2>1. r \in ResultType /\ r.estado = "resuelta_manual"
    BY DEF NoResult, ResultType, AuthValue, Estado, Closed
  <2>2. ReadRow(w, n, r)
    BY <1>2 DEF CloseManually
  <2> HIDE DEF r
  <2>3. r.estado \in Outcomes
    BY <2>1 DEF Outcomes, Estado, Closed
  <2>4. \E p : Onward(w, p)
    BY <1>0, <2>1, <2>2, <2>3, ReadIsSound
  <2> QED
    BY <1>0, <2>4, OnwardStep
<1> QED
  BY <1>1, <1>2

\* The incident for a person is among those an outcome calls for, and is not one
\* that it makes obsolete.
LEMMA WantedForReview ==
    ASSUME NEW v, v.result.estado \in ReviewEstados
    PROVE  /\ <<KindOf(v.result.estado), subject(v)>> \in Wanted(v)
           /\ <<KindOf(v.result.estado), subject(v)>> \notin Obsolete(v)
<1>1. v.result.estado \notin Closed
  BY DEF ReviewEstados, Closed
<1>2. KindOf(v.result.estado) # "signature"
  BY DEF KindOf
<1>3. <<KindOf(v.result.estado), subject(v)>> # <<"signature", Payment>>
  BY <1>2
<1>4. <<KindOf(v.result.estado), subject(v)>> \notin Obsolete(v)
  BY <1>1, <1>3 DEF Obsolete
<1>5. CASE v.result.estado = "requiere_revision"
  <2>1. KindOf(v.result.estado) = "unresolved"
    BY <1>5 DEF KindOf
  <2>2. <<"unresolved", subject(v)>> \in Wanted(v)
    BY <1>5 DEF Wanted
  <2> QED
    BY <1>4, <2>1, <2>2
<1>6. CASE v.result.estado = "dead_letter"
  <2>1. KindOf(v.result.estado) = "dead_letter"
    BY <1>6 DEF KindOf
  <2>2. <<"dead_letter", subject(v)>> \in Wanted(v)
    BY <1>6 DEF Wanted
  <2> QED
    BY <1>4, <2>1, <2>2
<1> QED
  BY <1>5, <1>6 DEF ReviewEstados

LEMMA IncidentsStep ==
    ASSUME IInv, NEW w \in Worker, applyIncidents(w)
    PROVE  IInv'
<1> DEFINE v == workers[w]
           p == [v EXCEPT !.pc = "write"]
           open == (incidents \cup Wanted(v)) \ Obsolete(v)
<1>0. WorkersOK /\ RowsOK /\ v \in Work /\ SoundWork(v)
  BY InvIs DEF WorkersOK
<1>1. v.pc = "incidents" /\ LeaveOpen(w, open, p) /\ rows' = rows
  BY DEF applyIncidents
<1>2. /\ p \in Work /\ p.pc = "write" /\ p.note = v.note /\ p.result = v.result
      /\ p.attempt = v.attempt /\ p.named = v.named
  BY <1>0 DEF Work, Pc
<1>3. v.result.estado \in ReviewEstados
      => <<KindOf(v.result.estado), subject(v)>> \in open
  BY WantedForReview
<1> HIDE DEF p, open
<1>4. SoundWork(p)
  BY <1>0, <1>1, <1>2 DEF SoundWork, Resolving
<1>5. subject(p) = subject(v)
  BY <1>2 DEF subject
<1>6. p.pc = "write" /\ p.result.estado \in ReviewEstados
      => <<KindOf(p.result.estado), subject(p)>> \in open
  BY <1>2, <1>3, <1>5
<1> QED
  BY <1>0, <1>1, <1>2, <1>4, <1>6, LeaveOpenKeeps, InvIs

LEMMA IncidentsFailStep ==
    ASSUME IInv, NEW w \in Worker, IncidentsFail(w)
    PROVE  IInv'
<1>1. PICK open : LeaveOpen(w, open, Idle)
  BY DEF IncidentsFail
<1>2. rows' = rows /\ WorkersOK /\ RowsOK
  BY InvIs DEF IncidentsFail
<1>3. Idle \in Work /\ Idle.pc = "idle" /\ SoundWork(Idle)
  BY IdleIsWork, IdleIsSound
<1> QED
  BY <1>1, <1>2, <1>3, LeaveOpenKeeps, InvIs

\* The outcome in the row.
RowWith(row, e, a, x) == [row EXCEPT !.estado = e, !.intentos = a, !.next = x]

RowNamed(row, au, nm) == [row EXCEPT !.updated = 0, !.auth = au, !.named = nm]

LEMMA ResolvedIsRow ==
    ASSUME NEW row \in RowType, NEW v \in Work, SoundWork(v), Resolving(v)
    PROVE  /\ Resolved(row, v) \in RowType
           /\ Resolved(row, v).estado = v.result.estado
<1> DEFINE e == v.result.estado
           x == IF v.result.estado = "reintentar" THEN Backoff[v.attempt] ELSE 0
           au == IF v.result.auth # "" THEN v.result.auth ELSE row.auth
           nm == row.named \/ v.result.named
<1>1. e \in Outcomes /\ v.attempt \in Nat /\ v.result \in ResultType
  BY DEF SoundWork, Work
<1>2. x \in Nat
  BY <1>1, InboxConstants DEF SoundWork
<1>3. au \in AuthValue /\ nm \in BOOLEAN
  BY <1>1 DEF ResultType, RowType
<1>4. Resolved(row, v) = RowNamed(RowWith(row, e, v.attempt, x), au, nm)
  BY DEF Resolved, RowNamed, RowWith, RowType
<1> HIDE DEF e, x, au, nm
<1> DEFINE r == RowWith(row, e, v.attempt, x)
<1>5. r \in RowType /\ r.estado = e
  BY <1>1, <1>2 DEF RowWith, RowType, Outcomes
<1> HIDE DEF r
<1>6. RowNamed(r, au, nm) \in RowType /\ RowNamed(r, au, nm).estado = e
  BY <1>3, <1>5 DEF RowNamed, RowType
<1> QED
  BY <1>4, <1>6 DEF r, e

LEMMA WriteStep ==
    ASSUME IInv, NEW w \in Worker, WriteRow(w)
    PROVE  IInv'
<1> DEFINE v == workers[w]
           n == v.note
           r == Resolved(rows[n], v)
<1>0. /\ WorkersOK /\ RowsOK /\ v \in Work /\ SoundWork(v) /\ AnnouncedWork(v)
      /\ v.pc = "write" /\ n \in Note /\ Goto(w, Idle) /\ incidents' = incidents
  BY InvIs DEF WorkersOK, WriteRow, SoundWork
<1>1. WorkersOK'
  BY <1>0, IdleOnward, OnwardKeeps
<1>2. /\ rows' = IF n \in Recorded THEN [rows EXCEPT ![n] = r] ELSE rows
      /\ answered' = IF v.undercut THEN answered \cup {n} ELSE answered \ {n}
  BY DEF WriteRow
<1>3. rows \in [Note -> RowType] /\ rows[n] \in RowType
  BY <1>0 DEF RowsOK
<1>4. r \in RowType /\ r.estado = v.result.estado
  BY <1>0, <1>3, ResolvedIsRow DEF Resolving
<1> HIDE DEF r
<1>5. rows' \in [Note -> RowType]
  BY <1>0, <1>2, <1>3, <1>4
<1>6. \A m \in Note \ {n} : rows'[m] = rows[m]
  BY <1>2, <1>3
<1>7. ASSUME NEW m \in Note, m \in Recorded', m \notin answered',
             rows'[m].estado \in ReviewEstados
      PROVE  (Announced(m) \cap incidents # {})'
  <2>1. CASE m # n
    <3>1. rows'[m] = rows[m] /\ m \notin answered
      BY <1>2, <1>6, <1>7, <2>1
    <3>2. m \in Recorded
      BY <1>7, <3>1 DEF Recorded
    <3>3. Announced(m) \cap incidents # {}
      BY <1>0, <1>7, <3>1, <3>2 DEF RowsOK, ReviewHasIncident
    <3> QED
      BY <1>0, <3>1, <3>3 DEF Announced
  <2>2. CASE m = n
    <3>1. n \in Recorded
      BY <1>2, <1>7, <2>2 DEF Recorded
    <3>2. rows'[n] = r
      BY <1>0, <1>2, <1>3, <3>1
    <3>3. ~ v.undercut
      BY <1>2, <1>7, <2>2
    <3>4. <<KindOf(r.estado), subject(v)>> \in incidents
      BY <1>0, <1>4, <1>7, <2>2, <3>2, <3>3 DEF AnnouncedWork
    <3>5. subject(v) \in {n, Payment}
      BY DEF subject
    <3>6. Announced(m)' = {KindOf(r.estado)} \X {n, Payment}
      BY <2>2, <3>2, Zenon DEF Announced
    <3>7. <<KindOf(r.estado), subject(v)>> \in {KindOf(r.estado)} \X {n, Payment}
      BY <3>5
    <3>8. ({KindOf(r.estado)} \X {n, Payment}) \cap incidents # {}
      BY <3>4, <3>7
    <3> QED
      BY <1>0, <3>6, <3>8, Zenon
  <2> QED
    BY <2>1, <2>2
<1>8. ReviewHasIncident'
  BY <1>7 DEF ReviewHasIncident, Recorded
<1> QED
  BY <1>1, <1>5, <1>8, InvIs DEF RowsOK

LEMMA PurgeStep ==
    ASSUME IInv, NEW n \in Note, Purge(n)
    PROVE  IInv'
<1> DEFINE r == [NoRow EXCEPT !.estado = "purged"]
<1>0. WorkersOK /\ RowsOK
  BY InvIs
<1>1. rows' = [rows EXCEPT ![n] = r] /\ UNCHANGED <<workers, incidents, answered>>
  BY DEF Purge
<1>2. r \in RowType /\ r.estado = "purged"
  BY DEF NoRow, RowType, Estado, AuthValue
<1> HIDE DEF r
<1>3. r.estado \notin ReviewEstados
  BY <1>2 DEF ReviewEstados
<1>4. RowsOK'
  BY <1>0, <1>1, <1>2, <1>3, RowMoves
<1>5. WorkersOK'
  BY <1>0, <1>1 DEF WorkersOK, SoundWork, Resolving, AnnouncedWork
<1> QED
  BY <1>4, <1>5, InvIs

\* A row a unit of time older.
Aged(row) ==
    [row EXCEPT !.received = Older(@, Retain + 1),
                !.updated = IF row.estado \in Working
                            THEN Older(@, StaleAfter + 1) ELSE @,
                !.next = IF @ > 0 THEN @ - 1 ELSE 0]

LEMMA AgedIsRow ==
    ASSUME NEW row \in RowType
    PROVE  Aged(row) \in RowType /\ Aged(row).estado = row.estado
<1>1. row.received \in Nat /\ row.updated \in Nat /\ row.next \in Nat
  BY DEF RowType
<1>2. PICK a \in Nat, b \in Nat, c \in Nat :
         /\ a = Older(row.received, Retain + 1)
         /\ b = IF row.estado \in Working
                THEN Older(row.updated, StaleAfter + 1) ELSE row.updated
         /\ c = IF row.next > 0 THEN row.next - 1 ELSE 0
  BY <1>1 DEF Older
<1>3. Aged(row) = [row EXCEPT !.received = a, !.updated = b, !.next = c]
  BY <1>2 DEF Aged
<1> QED
  BY <1>3 DEF RowType

LEMMA TickStep ==
    ASSUME IInv, Tick
    PROVE  IInv'
<1>0. WorkersOK /\ RowsOK /\ rows \in [Note -> RowType]
  BY InvIs DEF RowsOK
<1>1. /\ rows' = [n \in Note |-> IF n \in Recorded THEN Aged(rows[n]) ELSE rows[n]]
      /\ UNCHANGED <<workers, incidents, answered>>
  BY DEF Tick, Aged
<1>2. \A n \in Note : rows'[n] \in RowType /\ rows'[n].estado = rows[n].estado
  BY <1>0, <1>1, AgedIsRow
<1>3. rows' \in [Note -> RowType]
  BY <1>1, <1>2
<1>4. ReviewHasIncident'
  <2>1. \A n \in Note : Announced(n)' = Announced(n)
    BY <1>2 DEF Announced
  <2>2. Recorded' = Recorded
    BY <1>2 DEF Recorded
  <2> QED
    BY <1>0, <1>1, <1>2, <2>1, <2>2 DEF RowsOK, ReviewHasIncident, Recorded
<1>5. WorkersOK'
  BY <1>0, <1>1 DEF WorkersOK, SoundWork, Resolving, AnnouncedWork
<1> QED
  BY <1>3, <1>4, <1>5, InvIs DEF RowsOK

LEMMA InitInv ==
    ASSUME Init
    PROVE  IInv
<1>1. NoRow \in RowType /\ NoRow.estado = "none"
  BY DEF NoRow, RowType, Estado, AuthValue
<1>2. Types
  BY <1>1, IdleIsWork DEF Init, Types
<1>3. \A w \in Worker : workers[w] = Idle
  BY DEF Init
<1>4. \A w \in Worker : SoundWork(workers[w])
  BY <1>3, IdleIsSound
<1>5. \A w \in Worker : AnnouncedWork(workers[w])
  BY <1>3, IdleIsWork DEF AnnouncedWork
<1>6. ReviewHasIncident
  BY <1>1 DEF Init, ReviewHasIncident, Recorded
<1> QED
  BY <1>2, <1>4, <1>5, <1>6 DEF IInv

LEMMA NextStep ==
    ASSUME IInv, [Next]_vars
    PROVE  IInv'
<1>0. Proc \subseteq Worker /\ Sweeper \subseteq Worker
  BY DEF Worker
<1>1. ASSUME NEW w \in Proc, NEW n \in Note,
             Record(w, n) \/ Rerun(w, n) \/ ResolveManual(w, n)
      PROVE  IInv'
  <2>1. CASE ResolveManual(w, n)
    <3>1. Goto(w, Doing("close", n)) /\ UNCHANGED <<rows, incidents, answered>>
      BY <2>1 DEF ResolveManual
    <3>2. \E p : Onward(w, p)
      BY <3>1, StartOnward
    <3> QED
      BY <1>0, <3>1, <3>2, OnwardStep
  <2> QED
    BY <1>0, <1>1, <2>1, RecordStep, RerunStep
<1>2. ASSUME NEW w \in Sweeper, NEW n \in Note, Due(w, n)
      PROVE  IInv'
  <2>1. Goto(w, Doing("claim", n)) /\ UNCHANGED <<rows, incidents, answered>>
    BY <1>2 DEF Due
  <2>2. \E p : Onward(w, p)
    BY <2>1, StartOnward
  <2> QED
    BY <1>0, <2>1, <2>2, OnwardStep
<1>3. ASSUME NEW w \in Worker, Claim(w) \/ HandlerReturns(w) \/ Resolve(w) \/ Dies(w)
      PROVE  IInv'
  <2>1. CASE Dies(w)
    <3>1. Goto(w, Idle) /\ UNCHANGED <<rows, incidents, answered>>
      BY <2>1 DEF Dies
    <3> QED
      BY <3>1, IdleOnward, OnwardStep
  <2> QED
    BY <1>3, <2>1, ClaimStep, ReadStep, IncidentsStep, IncidentsFailStep, WriteStep
    DEF Resolve
<1>4. ASSUME NEW n \in Note, Purge(n)
      PROVE  IInv'
  BY <1>4, PurgeStep
<1>5. CASE Tick
  BY <1>5, TickStep
<1>6. CASE UNCHANGED vars
  <2>1. UNCHANGED <<rows, workers, incidents, answered>> /\ WorkersOK /\ RowsOK
    BY <1>6, InvIs DEF vars
  <2>2. WorkersOK'
    BY <2>1 DEF WorkersOK, SoundWork, Resolving, AnnouncedWork
  <2> QED
    BY <2>1, <2>2, RowsAlone, InvIs
<1> QED
  BY <1>1, <1>2, <1>3, <1>4, <1>5, <1>6 DEF Next

----------------------------------------------------------------------------
(* Theorems *)

\* The inductive invariant: types, workers that resolve have an outcome and a wait
\* for every retry, and what they are about to write for a person is announced.
THEOREM InvariantHolds == Spec => []IInv
<1>1. Init => IInv
  BY InitInv
<1>2. IInv /\ [Next]_vars => IInv'
  BY NextStep
<1> QED
  BY <1>1, <1>2, PTL DEF Spec

\* An outcome that needs a person is never on record without that person's
\* incident, unless another outcome closed it after it was opened: for any number
\* of deliveries and of workers that overtake each other.
THEOREM ReviewedIsAnnounced == Spec => []ReviewHasIncident
<1>1. IInv => ReviewHasIncident
  BY DEF IInv
<1> QED
  BY <1>1, InvariantHolds, PTL

\* A retry that Resolve schedules has a wait in the table: the attempt it is
\* looked up by is never past the last one, however often slow workers read and
\* overwrite the count.
WaitExists ==
    \A w \in Worker :
        Resolving(workers[w]) /\ workers[w].result.estado = "reintentar"
        => workers[w].attempt \in 1..Len(Backoff)

THEOREM RetriesHaveWaits == Spec => []WaitExists
<1>1. IInv => WaitExists
  BY DEF IInv, SoundWork, WaitExists
<1> QED
  BY <1>1, InvariantHolds, PTL
=============================================================================
