------------------------- MODULE EventOutboxProofs --------------------------
(***************************************************************************)
(* Proofs about EventOutbox for any events and relays.                     *)
(***************************************************************************)
EXTENDS EventOutbox, TLAPS

----------------------------------------------------------------------------
(* The inductive invariant *)

\* A call is made for a committed change, and its results are true.
CallOK(c) ==
    c.event # NoEvent =>
        /\ tx[c.event] = "committed"
        /\ c.durable = "ok" => c.event \in ledger
        /\ c.plain = "done" => c.event \in heard

\* A row that relays can see belongs to a committed change; its stamp and its
\* flag are true, and its count is not more than the relays' publications.
RowOK(e, row) ==
    /\ row.status \in {"unpublished", "published", "pruned"} => tx[e] = "committed"
    /\ row.status \in {"published", "pruned"} => e \in ledger
    /\ row.fannedOut => e \in heard
    /\ row.attempts <= tries[e]

\* A row as it was read: it had an attempt left, its change is committed, and its
\* count is not more than the relays' publications.
SnapOK(s) == /\ s.event \in Event
             /\ tx[s.event] = "committed"
             /\ s.attempts < MaxAttempts
             /\ s.attempts <= tries[s.event]

\* A publisher in state p calls the bus for its own event ev, and only once the
\* change is committed (t is the state of the transaction).
PubOK(e, p, t, ev) ==
    /\ p.pc = "new" => t = "none"
    /\ p.pc = "inTx" => t = "open"
    /\ p.pc \in {"persist", "hook", "publish"} => t = "committed"
    /\ ev # NoEvent => ev = e /\ p.pc = "publish"

\* A relay works on rows it read, and calls the bus for the current one.
RelayOK(s, ev) ==
    /\ \A x \in s.todo : SnapOK(x)
    /\ s.pc \in {"publish", "report"} =>
          /\ SnapOK(s.current)
          /\ s.current.attempts + 1 <= tries[s.current.event]
    /\ s.pc = "report" => tries[s.current.event] = MaxAttempts
    /\ ev # NoEvent => ev = s.current.event /\ s.pc = "publish"

IInv ==
    /\ TypeOK
    /\ OnlyCommitted
    /\ GivenUpAfterAllTries
    /\ \A a \in Actor : CallOK(calls[a])
    /\ \A e \in Event : RowOK(e, rows[e])
    /\ \A e \in Event : PubOK(e, pubs[e], tx[e], calls[e].event)
    /\ \A r \in Relay : RelayOK(relays[r], calls[r].event)

\* The empty table satisfies the invariant.
LEMMA InitInv == Init => IInv
<1> SUFFICES ASSUME Init PROVE IInv
  OBVIOUS
<1> USE EventOutboxConstants
<1>1. TypeOK
  <2>1. AbsentRow \in Row /\ DownRelay \in RelayState /\ NoCall \in Call
    BY DEF AbsentRow, Row, DownRelay, RelayState, NoSnapshot, Snapshot, NoCall, Call
  <2> QED
    BY <2>1 DEF Init, TypeOK, Pub
<1>2. OnlyCommitted
  BY DEF Init, OnlyCommitted
<1>3. \A a \in Actor : calls[a].event = NoEvent
  BY DEF Init, NoCall
<1> QED
  BY <1>1, <1>2, <1>3
  DEF Init, IInv, CallOK, RowOK, PubOK, RelayOK, AbsentRow, DownRelay, Actor,
      GivenUpAfterAllTries

----------------------------------------------------------------------------
(* Types *)

\* What is written is of its type.
LEMMA Types ==
    /\ AbsentRow \in Row /\ NoCall \in Call /\ NoCall.event = NoEvent
    /\ DownRelay \in RelayState /\ IdleRelay \in RelayState
    /\ \A e \in Event : FullCall(e) \in Call /\ DurableCall(e) \in Call
    /\ \A st \in {"staged", "unpublished"} :
          /\ NewRow(st) \in Row /\ NewRow(st).status = st
          /\ ~NewRow(st).fannedOut /\ NewRow(st).attempts = 0
    /\ \A row \in Row : /\ Published(row) \in Row
                        /\ Published(row).status = "published"
                        /\ Published(row).fannedOut = row.fannedOut
                        /\ Published(row).attempts = row.attempts
<1> USE EventOutboxConstants
<1>0. 0 \in 0..MaxAttempts
  OBVIOUS
<1>1. AbsentRow \in Row
  BY <1>0 DEF AbsentRow, Row
<1>2. NoCall \in Call /\ NoCall.event = NoEvent
  BY DEF NoCall, Call
<1>3. DownRelay \in RelayState /\ IdleRelay \in RelayState
  <2>1. NoSnapshot \in Snapshot
    BY <1>0 DEF NoSnapshot, Snapshot
  <2> QED
    BY <2>1 DEF DownRelay, IdleRelay, RelayState
<1>4. \A e \in Event : FullCall(e) \in Call /\ DurableCall(e) \in Call
  BY DEF FullCall, DurableCall, Call
<1>5. \A st \in {"staged", "unpublished"} :
         /\ NewRow(st) \in Row /\ NewRow(st).status = st
         /\ ~NewRow(st).fannedOut /\ NewRow(st).attempts = 0
  BY <1>0 DEF NewRow, AbsentRow, Row
<1>6. \A row \in Row : /\ Published(row) \in Row
                       /\ Published(row).status = "published"
                       /\ Published(row).fannedOut = row.fannedOut
                       /\ Published(row).attempts = row.attempts
  BY DEF Published, Row
<1> QED
  BY <1>1, <1>2, <1>3, <1>4, <1>5, <1>6

\* Publishers and relays are different actors.
LEMMA Actors ==
    /\ Event \subseteq Actor /\ Relay \subseteq Actor
    /\ \A e \in Event, r \in Relay : e # r
  BY EventOutboxConstants DEF Actor

----------------------------------------------------------------------------
(* Steps of the three kinds of actors *)

\* Committed changes stay committed, recorded events recorded, and what the plain
\* subscribers and the relays did is never taken back.
Grows == /\ \A e \in Event : tx[e] = "committed" => tx'[e] = "committed"
         /\ ledger \subseteq ledger'
         /\ heard \subseteq heard'
         /\ \A e \in Event : /\ tries[e] \in 0..MaxAttempts
                             /\ tries'[e] \in 0..MaxAttempts
                             /\ tries[e] <= tries'[e]

\* What is said of calls, rows and snapshots stays true.
LEMMA GrowsKeeps ==
    ASSUME Grows
    PROVE  /\ \A c \in Call : CallOK(c) => CallOK(c)'
           /\ \A e \in Event, row \in Row : RowOK(e, row) => RowOK(e, row)'
           /\ \A x \in Snapshot : SnapOK(x) => SnapOK(x)'
           /\ \A s \in RelayState : \A ev : RelayOK(s, ev) => RelayOK(s, ev)'
<1>1. \A c \in Call : CallOK(c) => CallOK(c)'
  BY DEF Grows, CallOK, Call
<1>2. \A e \in Event, row \in Row : RowOK(e, row) => RowOK(e, row)'
  BY EventOutboxConstants DEF Grows, RowOK, Row
<1>3. \A x \in Snapshot : SnapOK(x) => SnapOK(x)'
  BY EventOutboxConstants DEF Grows, SnapOK, Snapshot
<1>4. ASSUME NEW s \in RelayState, NEW ev, RelayOK(s, ev) PROVE RelayOK(s, ev)'
  <2>1. s.todo \subseteq Snapshot /\ s.current \in Snapshot
    BY DEF RelayState
  <2>2. \A x \in s.todo : SnapOK(x)'
    BY <1>3, <1>4, <2>1 DEF RelayOK
  <2>3. s.pc \in {"publish", "report"} =>
           SnapOK(s.current)' /\ s.current.attempts + 1 <= tries'[s.current.event]
    BY <1>3, <1>4, <2>1, EventOutboxConstants DEF RelayOK, Grows, SnapOK, Snapshot
  <2>4. s.pc = "report" => tries'[s.current.event] = MaxAttempts
    BY <1>4, EventOutboxConstants DEF RelayOK, Grows, SnapOK
  <2> QED
    BY <1>4, <2>2, <2>3, <2>4 DEF RelayOK
<1> QED
  BY <1>1, <1>2, <1>3, <1>4

\* A call goes on: the event it is for stays the same.
LEMMA BusStep ==
    ASSUME IInv, NEW a \in Actor, NEW c \in Call,
           c.event = calls[a].event,
           calls' = [calls EXCEPT ![a] = c],
           Grows, CallOK(c)', TypeOK', OnlyCommitted',
           UNCHANGED <<tx, rows, pubs, relays, tries, reported>>
    PROVE  IInv'
<1>1. calls \in [Actor -> Call] /\ rows \in [Event -> Row]
      /\ relays \in [Relay -> RelayState]
  BY DEF IInv, TypeOK
<1>2. \A b \in Actor : CallOK(calls[b])'
  <2> SUFFICES ASSUME NEW b \in Actor PROVE CallOK(calls[b])'
    OBVIOUS
  <2>1. CASE b = a
    BY <2>1, <1>1 DEF CallOK
  <2>2. CASE b # a
    <3>1. calls'[b] = calls[b] /\ CallOK(calls[b]) /\ calls[b] \in Call
      BY <2>2, <1>1 DEF IInv
    <3> QED
      BY <3>1, GrowsKeeps DEF CallOK
  <2> QED
    BY <2>1, <2>2
<1>3. \A b \in Actor : calls'[b].event = calls[b].event
  BY <1>1
<1>4. \A e \in Event : RowOK(e, rows[e])'
  BY <1>1, GrowsKeeps DEF IInv, RowOK
<1>5. \A e \in Event : PubOK(e, pubs[e], tx[e], calls[e].event)'
  BY <1>3, Actors DEF IInv, PubOK
<1>6. \A r \in Relay : RelayOK(relays[r], calls[r].event)'
  <2> SUFFICES ASSUME NEW r \in Relay PROVE RelayOK(relays[r], calls[r].event)'
    OBVIOUS
  <2>1. RelayOK(relays[r], calls[r].event) /\ relays[r] \in RelayState
    BY <1>1 DEF IInv
  <2> QED
    BY <1>3, <2>1, Actors, GrowsKeeps DEF RelayOK
<1>7. GivenUpAfterAllTries'
  BY DEF IInv, GivenUpAfterAllTries
<1> QED
  BY <1>2, <1>4, <1>5, <1>6, <1>7 DEF IInv

\* A relay goes on, perhaps publishing or writing rows.
LEMMA RelayStepCounted ==
    ASSUME IInv, NEW r \in Relay, NEW s \in RelayState, NEW c \in Call,
           relays' = [relays EXCEPT ![r] = s],
           calls' = [calls EXCEPT ![r] = c],
           CallOK(c), RelayOK(s, c.event)',
           rows' \in [Event -> Row],
           \A e \in Event : RowOK(e, rows[e])',
           tries' \in [Event -> 0..MaxAttempts],
           \A e \in Event : tries[e] <= tries'[e],
           reported' \subseteq Event,
           GivenUpAfterAllTries',
           UNCHANGED <<tx, pubs, ledger, heard>>
    PROVE  IInv'
<1>1. TypeOK'
  BY Actors DEF IInv, TypeOK
<1>2. OnlyCommitted'
  BY DEF IInv, OnlyCommitted
<1>3. \A a \in Actor : CallOK(calls[a])'
  <2>1. \A a \in Actor : calls'[a] = IF a = r THEN c ELSE calls[a]
    BY Actors DEF IInv, TypeOK
  <2> QED
    BY <2>1 DEF IInv, CallOK
<1>4. \A e \in Event : PubOK(e, pubs[e], tx[e], calls[e].event)'
  BY Actors DEF IInv, TypeOK, PubOK
<1>5. Grows
  BY DEF IInv, TypeOK, Grows
<1>6. \A q \in Relay : RelayOK(relays[q], calls[q].event)'
  <2> SUFFICES ASSUME NEW q \in Relay PROVE RelayOK(relays[q], calls[q].event)'
    OBVIOUS
  <2>1. CASE q = r
    <3>1. relays'[q] = s /\ calls'[q] = c
      BY <2>1, Actors DEF IInv, TypeOK
    <3> QED
      BY <3>1 DEF RelayOK
  <2>2. CASE q # r
    <3>1. relays'[q] = relays[q] /\ calls'[q] = calls[q]
          /\ relays[q] \in RelayState /\ RelayOK(relays[q], calls[q].event)
      BY <2>2, Actors DEF IInv, TypeOK
    <3> QED
      BY <1>5, <3>1, GrowsKeeps DEF RelayOK
  <2> QED
    BY <2>1, <2>2
<1> QED
  BY <1>1, <1>2, <1>3, <1>4, <1>6 DEF IInv

\* The same without a publication.
LEMMA RelayStep ==
    ASSUME IInv, NEW r \in Relay, NEW s \in RelayState, NEW c \in Call,
           relays' = [relays EXCEPT ![r] = s],
           calls' = [calls EXCEPT ![r] = c],
           CallOK(c), RelayOK(s, c.event),
           rows' \in [Event -> Row],
           \A e \in Event : RowOK(e, rows'[e]),
           reported' \subseteq Event,
           \A e \in reported' : tries[e] = MaxAttempts,
           UNCHANGED <<tx, pubs, ledger, heard, tries>>
    PROVE  IInv'
<1>1. RelayOK(s, c.event)'
  BY DEF RelayOK, SnapOK
<1>2. \A e \in Event : RowOK(e, rows[e])'
  BY DEF RowOK
<1>3. /\ tries' \in [Event -> 0..MaxAttempts]
      /\ \A e \in Event : tries[e] <= tries'[e]
  BY EventOutboxConstants DEF IInv, TypeOK
<1>4. GivenUpAfterAllTries'
  BY DEF GivenUpAfterAllTries
<1> QED
  BY <1>1, <1>2, <1>3, <1>4, RelayStepCounted

\* A publisher goes on, perhaps with its transaction and its row. The call it is
\* waiting for afterwards is none or a new one.
LEMMA PublisherStep ==
    ASSUME IInv, NEW e \in Event, NEW p \in Pub, NEW c \in Call, NEW row \in Row,
           NEW t \in {"none", "open", "committed", "aborted"},
           pubs' = [pubs EXCEPT ![e] = p],
           calls' = [calls EXCEPT ![e] = c],
           rows' = [rows EXCEPT ![e] = row],
           tx' = [tx EXCEPT ![e] = t],
           tx[e] = "committed" => t = "committed",
           PubOK(e, p, t, c.event),
           c.event # NoEvent => c.plain = "todo" /\ c.durable = "todo",
           row.status \in {"unpublished", "published", "pruned"} => t = "committed",
           row.status \in {"published", "pruned"} => e \in ledger,
           row.fannedOut => e \in heard,
           row.attempts <= tries[e],
           UNCHANGED <<relays, ledger, heard, tries, reported>>
    PROVE  IInv'
<1>1. TypeOK'
  BY Actors DEF IInv, TypeOK
<1>2. \A f \in Event : tx'[f] = IF f = e THEN t ELSE tx[f]
  BY DEF IInv, TypeOK
<1>3. OnlyCommitted'
  BY <1>2 DEF IInv, OnlyCommitted
<1>4. Grows
  BY <1>2, EventOutboxConstants DEF IInv, TypeOK, Grows
<1>5. \A a \in Actor : calls'[a] = IF a = e THEN c ELSE calls[a]
  BY Actors DEF IInv, TypeOK
<1>6. \A a \in Actor : CallOK(calls[a])'
  <2> SUFFICES ASSUME NEW a \in Actor PROVE CallOK(calls[a])'
    OBVIOUS
  <2>1. CASE a = e
    BY <2>1, <1>2, <1>5, Actors DEF CallOK, PubOK
  <2>2. CASE a # e
    <3>1. calls'[a] = calls[a] /\ CallOK(calls[a]) /\ calls[a] \in Call
      BY <2>2, <1>5 DEF IInv, TypeOK
    <3> QED
      BY <3>1, <1>4, GrowsKeeps DEF CallOK
  <2> QED
    BY <2>1, <2>2
<1>7. \A f \in Event : RowOK(f, rows[f])'
  <2> SUFFICES ASSUME NEW f \in Event PROVE RowOK(f, rows[f])'
    OBVIOUS
  <2>1. CASE f = e
    BY <2>1, <1>2 DEF IInv, TypeOK, RowOK
  <2>2. CASE f # e
    BY <2>2, <1>2 DEF IInv, TypeOK, RowOK
  <2> QED
    BY <2>1, <2>2
<1>8. \A f \in Event : PubOK(f, pubs[f], tx[f], calls[f].event)'
  <2>1. \A f \in Event : pubs'[f] = IF f = e THEN p ELSE pubs[f]
    BY DEF IInv, TypeOK
  <2> QED
    BY <2>1, <1>2, <1>5, Actors DEF IInv, PubOK
<1>9. \A r \in Relay : RelayOK(relays[r], calls[r].event)'
  <2> SUFFICES ASSUME NEW r \in Relay PROVE RelayOK(relays[r], calls[r].event)'
    OBVIOUS
  <2>1. RelayOK(relays[r], calls[r].event) /\ relays[r] \in RelayState
        /\ calls'[r] = calls[r]
    BY <1>5, Actors DEF IInv, TypeOK
  <2> QED
    BY <1>4, <2>1, GrowsKeeps DEF RelayOK
<1>10. GivenUpAfterAllTries'
  BY DEF IInv, GivenUpAfterAllTries
<1> QED
  BY <1>1, <1>3, <1>6, <1>7, <1>8, <1>9, <1>10 DEF IInv

----------------------------------------------------------------------------
(* The bus *)

\* A publication that is refused, or whose subscribers run, keeps the invariant.
LEMMA BusInv ==
    ASSUME IInv, NEW a \in Actor, BusNext(a) PROVE IInv'
<1> DEFINE e == calls[a].event
<1>1. calls \in [Actor -> Call] /\ calls[a] \in Call
  BY DEF IInv, TypeOK
<1>2. e \in Event /\ tx[e] = "committed"
  BY <1>1 DEF BusNext, Refuse, RunPlain, RunDurable, Call, IInv, CallOK
<1>3. CASE Refuse(a)
  <2>0. /\ [calls[a] EXCEPT !.durable = "refused"] \in Call
        /\ [calls[a] EXCEPT !.durable = "refused"].event = e
    BY <1>1 DEF Call
  <2>1. PICK c \in Call : c = [calls[a] EXCEPT !.durable = "refused"] /\ c.event = e
    BY <2>0
  <2>a. c.durable = "refused" /\ c.plain = calls[a].plain
    BY <1>1, <2>1 DEF Call
  <2>2. calls' = [calls EXCEPT ![a] = c]
    BY <1>3, <2>1 DEF Refuse
  <2>3. UNCHANGED <<tx, rows, pubs, relays, ledger, heard, tries, reported>>
    BY <1>3 DEF Refuse
  <2>4. CallOK(c)' /\ TypeOK' /\ OnlyCommitted' /\ Grows
    BY EventOutboxConstants, <2>1, <2>a, <2>2, <2>3, <1>1, <1>2
    DEF IInv, CallOK, TypeOK, OnlyCommitted, Grows
  <2> QED
    BY <2>1, <2>2, <2>3, <2>4, BusStep
<1>4. CASE RunPlain(a)
  <2>0. /\ [calls[a] EXCEPT !.plain = "done"] \in Call
        /\ [calls[a] EXCEPT !.plain = "done"].event = e
    BY <1>1 DEF Call
  <2>1. PICK c \in Call : c = [calls[a] EXCEPT !.plain = "done"] /\ c.event = e
    BY <2>0
  <2>a. c.durable = calls[a].durable /\ c.plain = "done"
    BY <1>1, <2>1 DEF Call
  <2>2. calls' = [calls EXCEPT ![a] = c]
    BY <1>4, <2>1 DEF RunPlain
  <2>3. UNCHANGED <<tx, rows, pubs, relays, ledger, tries, reported>>
    BY <1>4 DEF RunPlain
  <2>6. heard' = heard \cup {e}
    BY <1>4 DEF RunPlain
  <2>7. TypeOK'
    BY <2>1, <2>2, <2>3, <2>6, <1>1, <1>2 DEF IInv, TypeOK
  <2>8. OnlyCommitted'
    BY <2>3, <2>6, <1>2 DEF IInv, OnlyCommitted
  <2>9. Grows
    BY <2>3, <2>6, EventOutboxConstants DEF IInv, TypeOK, Grows
  <2>10. CallOK(c)'
    BY <2>1, <2>a, <2>3, <2>6, <1>2 DEF IInv, CallOK
  <2> QED
    BY <2>1, <2>2, <2>3, <2>7, <2>8, <2>9, <2>10, BusStep
<1>5. ASSUME NEW result \in {"ok", "failed"}, RunDurable(a, result) PROVE IInv'
  <2>0. /\ [calls[a] EXCEPT !.durable = result] \in Call
        /\ [calls[a] EXCEPT !.durable = result].event = e
    BY <1>1 DEF Call
  <2>1. PICK c \in Call : c = [calls[a] EXCEPT !.durable = result] /\ c.event = e
    BY <2>0
  <2>a. c.durable = result /\ c.plain = calls[a].plain
    BY <1>1, <2>1 DEF Call
  <2>2. calls' = [calls EXCEPT ![a] = c]
    BY <1>5, <2>1 DEF RunDurable
  <2>3. UNCHANGED <<tx, rows, pubs, relays, heard, tries, reported>>
    BY <1>5 DEF RunDurable
  <2>4. /\ ledger' = ledger \cup {e} \/ ledger' = ledger
        /\ result = "ok" => e \in ledger'
    BY <1>5 DEF RunDurable
  <2>5. TypeOK'
    BY <2>1, <2>2, <2>3, <2>4, <1>1, <1>2 DEF IInv, TypeOK
  <2>6. OnlyCommitted'
    BY <2>3, <2>4, <1>2 DEF IInv, OnlyCommitted
  <2>7. Grows
    BY <2>3, <2>4, EventOutboxConstants DEF IInv, TypeOK, Grows
  <2>8. CallOK(c)'
    BY <2>1, <2>a, <2>3, <2>4, <1>1, <1>2 DEF IInv, CallOK
  <2> QED
    BY <2>1, <2>2, <2>3, <2>5, <2>6, <2>7, <2>8, BusStep
<1> QED
  BY <1>3, <1>4, <1>5 DEF BusNext

----------------------------------------------------------------------------
(* Publishers *)

\* Every step of a publisher keeps the invariant.
LEMMA PublisherInv ==
    ASSUME IInv, NEW e \in Event, PublisherNext(e) PROVE IInv'
<1>1. /\ calls \in [Actor -> Call] /\ rows \in [Event -> Row]
      /\ pubs \in [Event -> Pub] /\ e \in Actor
      /\ tx \in [Event -> {"none", "open", "committed", "aborted"}]
  BY Actors DEF IInv, TypeOK
<1>2. /\ PubOK(e, pubs[e], tx[e], calls[e].event)
      /\ RowOK(e, rows[e])
      /\ CallOK(calls[e])
  BY <1>1 DEF IInv
<1>3. /\ calls[e] \in Call /\ rows[e] \in Row /\ pubs[e] \in Pub
      /\ tx[e] \in {"none", "open", "committed", "aborted"}
  BY <1>1
<1>a. /\ calls = [calls EXCEPT ![e] = calls[e]]
      /\ rows = [rows EXCEPT ![e] = rows[e]]
      /\ tx = [tx EXCEPT ![e] = tx[e]]
  BY <1>1
<1>c. 0 <= tries[e]
  BY EventOutboxConstants DEF IInv, TypeOK
<1>b. FullCall(e) \in Call /\ FullCall(e).event = e
      /\ FullCall(e).plain = "todo" /\ FullCall(e).durable = "todo" /\ e # NoEvent
  BY Types, EventOutboxConstants DEF FullCall
<1>4. CASE Written(e)
  <2> DEFINE p == [pubs[e] EXCEPT !.pc = "persist"]
  <2>1. p \in Pub /\ p.pc = "persist"
    BY <1>3 DEF Pub
  <2>2. /\ pubs' = [pubs EXCEPT ![e] = p] /\ tx' = [tx EXCEPT ![e] = "committed"]
        /\ UNCHANGED <<rows, relays, calls, ledger, heard, tries, reported>>
        /\ pubs[e].pc = "new"
    BY <1>4 DEF Written
  <2> HIDE DEF p
  <2>3. calls[e].event = NoEvent
    BY <1>2, <2>2 DEF PubOK
  <2> QED
    BY <1>2, <1>3, <1>a, <2>1, <2>2, <2>3, PublisherStep DEF PubOK, RowOK
<1>5. ASSUME NEW persisted \in BOOLEAN, NEW row \in Row,
             StartPublication(e, persisted),
             rows' = [rows EXCEPT ![e] = row], RowOK(e, row),
             tx[e] = "committed",
             UNCHANGED <<tx, relays, ledger, heard, tries, reported>>
      PROVE  IInv'
  <2> DEFINE p == [pubs[e] EXCEPT !.pc = "publish", !.persisted = persisted]
  <2>1. p \in Pub /\ p.pc = "publish"
    BY <1>3 DEF Pub
  <2>2. pubs' = [pubs EXCEPT ![e] = p] /\ calls' = [calls EXCEPT ![e] = FullCall(e)]
    BY <1>5 DEF StartPublication
  <2> HIDE DEF p
  <2> QED
    BY <1>5, <1>a, <1>b, <2>1, <2>2, PublisherStep DEF PubOK, RowOK
<1>6. CASE Persist(e)
  <2>1. tx[e] = "committed"
    BY <1>2, <1>6 DEF Persist, PubOK
  <2>2. NewRow("unpublished") \in Row /\ RowOK(e, NewRow("unpublished"))
    BY <1>c, <2>1, Types DEF RowOK
  <2> QED
    BY <1>5, <1>6, <2>1, <2>2 DEF Persist
<1>7. CASE PersistFails(e) \/ RunHook(e)
  <2>1. tx[e] = "committed"
    BY <1>2, <1>7 DEF PersistFails, RunHook, PubOK
  <2>2. pubs[e].persisted \in BOOLEAN
    BY <1>3 DEF Pub
  <2> QED
    BY <1>2, <1>3, <1>5, <1>7, <1>a, <2>1, <2>2 DEF PersistFails, RunHook
<1>8. ASSUME NEW persisted \in BOOLEAN, NEW hook \in BOOLEAN,
             Stage(e, persisted, hook)
      PROVE  IInv'
  <2> DEFINE p == [pc |-> "inTx", persisted |-> persisted, hook |-> hook]
             row == IF persisted THEN NewRow("staged") ELSE rows[e]
  <2>1. p \in Pub /\ p.pc = "inTx"
    BY DEF Pub
  <2>2. /\ pubs' = [pubs EXCEPT ![e] = p] /\ tx' = [tx EXCEPT ![e] = "open"]
        /\ rows' = [rows EXCEPT ![e] = row]
        /\ UNCHANGED <<relays, calls, ledger, heard, tries, reported>>
        /\ pubs[e].pc = "new"
    BY <1>8 DEF Stage
  <2>3. calls[e].event = NoEvent /\ tx[e] = "none"
    BY <1>2, <2>2 DEF PubOK
  <2>4. /\ row \in Row
        /\ row.status \notin {"unpublished", "published", "pruned"}
        /\ row.fannedOut => e \in heard
        /\ row.attempts <= tries[e]
    BY <1>2, <1>3, <1>c, <2>3, Types DEF RowOK
  <2> HIDE DEF p, row
  <2> QED
    BY <1>3, <1>a, <2>1, <2>2, <2>3, <2>4, PublisherStep DEF PubOK
<1>9. CASE Commit(e)
  <2> DEFINE p == [pubs[e] EXCEPT !.pc = IF pubs[e].hook THEN "hook" ELSE "over"]
             row == [rows[e] EXCEPT !.status = IF @ = "staged" THEN "unpublished"
                                                               ELSE @]
  <2>1. p \in Pub /\ p.pc \in {"hook", "over"}
    BY <1>3 DEF Pub
  <2>2. /\ pubs' = [pubs EXCEPT ![e] = p] /\ tx' = [tx EXCEPT ![e] = "committed"]
        /\ rows' = [rows EXCEPT ![e] = row]
        /\ UNCHANGED <<relays, calls, ledger, heard, tries, reported>>
        /\ pubs[e].pc = "inTx"
    BY <1>9 DEF Commit
  <2>3. calls[e].event = NoEvent
    BY <1>2, <2>2 DEF PubOK
  <2>4. /\ row \in Row
        /\ row.status \in {"published", "pruned"} => e \in ledger
        /\ row.fannedOut => e \in heard
        /\ row.attempts <= tries[e]
    BY <1>2, <1>3 DEF RowOK, Row
  <2> HIDE DEF p, row
  <2> QED
    BY <1>3, <1>a, <2>1, <2>2, <2>3, <2>4, PublisherStep DEF PubOK
<1>10. ASSUME NEW c \in Call, c.event = NoEvent, NEW row \in Row, RowOK(e, row),
              pubs' = [pubs EXCEPT ![e].pc = "over"],
              calls' = [calls EXCEPT ![e] = c],
              rows' = [rows EXCEPT ![e] = row],
              UNCHANGED <<tx, relays, ledger, heard, tries, reported>>
       PROVE  IInv'
  <2> DEFINE p == [pubs[e] EXCEPT !.pc = "over"]
  <2>1. p \in Pub /\ p.pc = "over"
    BY <1>3 DEF Pub
  <2>2. pubs' = [pubs EXCEPT ![e] = p]
    BY <1>10
  <2> HIDE DEF p
  <2> QED
    BY <1>3, <1>10, <1>a, <2>1, <2>2, PublisherStep DEF PubOK, RowOK
<1>11. ASSUME pubs[e].pc = "inTx", NEW c \in Call, c.event = NoEvent,
              pubs' = [pubs EXCEPT ![e].pc = "over"],
              calls' = [calls EXCEPT ![e] = c],
              rows' = [rows EXCEPT ![e] = AbsentRow],
              tx' = [tx EXCEPT ![e] = "aborted"],
              UNCHANGED <<relays, ledger, heard, tries, reported>>
       PROVE  IInv'
  <2> DEFINE p == [pubs[e] EXCEPT !.pc = "over"]
  <2>1. p \in Pub /\ p.pc = "over"
    BY <1>3 DEF Pub
  <2>2. pubs' = [pubs EXCEPT ![e] = p] /\ tx[e] = "open"
    BY <1>2, <1>11 DEF PubOK
  <2>3. AbsentRow \in Row /\ AbsentRow.status = "absent" /\ ~AbsentRow.fannedOut
        /\ AbsentRow.attempts <= tries[e]
    BY <1>c, Types DEF AbsentRow
  <2> HIDE DEF p
  <2> QED
    BY <1>11, <2>1, <2>2, <2>3, PublisherStep DEF PubOK
<1>12. CASE Rollback(e)
  <2>1. calls[e].event = NoEvent
    BY <1>2, <1>12 DEF PubOK, Rollback
  <2> QED
    BY <1>3, <1>11, <1>12, <1>a, <2>1 DEF Rollback
<1>13. CASE PublisherDies(e)
  BY <1>2, <1>3, <1>10, <1>11, <1>13, <1>a, Types DEF PublisherDies
<1>14. CASE PublisherRecords(e) \/ PublisherRecordFails(e)
  <2>1. CallOver(e) /\ EndCall(e)
    BY <1>14 DEF PublisherRecords, PublisherRecordFails
  <2>2. calls[e].event = e
    BY <1>2, <2>1 DEF CallOver, PubOK
  <2>3. tx[e] = "committed" /\ (calls[e].durable = "ok" => e \in ledger)
        /\ (calls[e].plain = "done" => e \in heard)
    BY <1>2, <2>2, EventOutboxConstants DEF CallOK
  <2>4. ASSUME NEW row \in Row, RowOK(e, row), rows' = [rows EXCEPT ![e] = row]
        PROVE  IInv'
    BY <1>10, <2>1, <2>4, Types DEF EndCall
  <2>5. Published(rows[e]) \in Row
        /\ (calls[e].durable = "ok" => RowOK(e, Published(rows[e])))
    BY <1>2, <1>3, <2>3, Types DEF RowOK
  <2>6. [rows[e] EXCEPT !.fannedOut = @ \/ SiblingsRan(e)] \in Row
    BY <1>3 DEF Row, SiblingsRan
  <2>7. RowOK(e, [rows[e] EXCEPT !.fannedOut = @ \/ SiblingsRan(e)])
    BY <1>2, <1>3, <2>3 DEF Row, RowOK, SiblingsRan
  <2> QED
    BY <1>2, <1>3, <1>14, <1>a, <2>4, <2>5, <2>6, <2>7
    DEF PublisherRecords, PublisherRecordFails
<1> QED
  BY <1>4, <1>6, <1>7, <1>8, <1>9, <1>12, <1>13, <1>14 DEF PublisherNext

----------------------------------------------------------------------------
(* Relays *)

\* Every step of a relay keeps the invariant.
LEMMA RelayInv ==
    ASSUME IInv, NEW r \in Relay, RelayNext(r) PROVE IInv'
<1>1. /\ calls \in [Actor -> Call] /\ rows \in [Event -> Row]
      /\ relays \in [Relay -> RelayState] /\ r \in Actor
      /\ reported \subseteq Event
  BY Actors DEF IInv, TypeOK
<1>2. calls[r] \in Call /\ relays[r] \in RelayState
  BY <1>1
<1>3. RelayOK(relays[r], calls[r].event) /\ CallOK(calls[r])
  BY <1>1 DEF IInv
<1>a. calls = [calls EXCEPT ![r] = calls[r]]
  BY <1>1
<1>b. \A e \in Event : RowOK(e, rows[e])
  BY DEF IInv
<1>d. \A e \in reported : tries[e] = MaxAttempts
  BY DEF IInv, GivenUpAfterAllTries
<1>e. tries \in [Event -> 0..MaxAttempts]
  BY DEF IInv, TypeOK
<1>c. NoCall \in Call /\ NoCall.event = NoEvent /\ CallOK(NoCall)
  BY Types DEF CallOK
<1>4. CASE StartRelay(r)
  <2>1. calls[r].event = NoEvent
    BY <1>3, <1>4 DEF RelayOK, StartRelay
  <2>2. IdleRelay \in RelayState /\ RelayOK(IdleRelay, NoEvent)
    BY Types DEF IdleRelay, RelayOK
  <2> QED
    BY <1>1, <1>2, <1>3, <1>4, <1>a, <1>b, <1>d, <2>1, <2>2,
       RelayStep DEF StartRelay
<1>5. CASE RelayStops(r)
  <2>1. DownRelay \in RelayState /\ RelayOK(DownRelay, NoEvent)
    BY Types DEF DownRelay, RelayOK
  <2> QED
    BY <1>1, <1>5, <1>b, <1>c, <1>d, <2>1, RelayStep DEF RelayStops
<1>6. CASE Sweep(r)
  <2> DEFINE s == [relays[r] EXCEPT !.pc = "sweep",
                                    !.todo = {SnapshotOf(e) : e \in Due}]
  <2>1. \A e \in Due : SnapshotOf(e) \in Snapshot /\ SnapOK(SnapshotOf(e))
    BY <1>1, <1>b DEF Due, SnapshotOf, Snapshot, SnapOK, Row, RowOK
  <2>2. /\ s \in RelayState /\ s.pc = "sweep"
        /\ s.todo = {SnapshotOf(e) : e \in Due}
    BY <1>2, <2>1 DEF RelayState
  <2>3. relays' = [relays EXCEPT ![r] = s]
        /\ UNCHANGED <<tx, rows, pubs, calls, ledger, heard, tries, reported>>
    BY <1>6 DEF Sweep
  <2>4. calls[r].event = NoEvent
    BY <1>3, <1>6 DEF RelayOK, Sweep
  <2> HIDE DEF s
  <2>5. RelayOK(s, calls[r].event)
    BY <2>1, <2>2, <2>4 DEF RelayOK
  <2> QED
    BY <1>1, <1>2, <1>3, <1>a, <1>b, <1>d, <2>2, <2>3, <2>5, RelayStep
<1>7. CASE Republish(r)
  <2>1. PICK x \in relays[r].todo :
          /\ relays' = [relays EXCEPT ![r] = [pc |-> "publish",
                                              todo |-> @.todo \ {x},
                                              current |-> x]]
          /\ calls' = [calls EXCEPT ![r] = IF x.fannedOut
                                           THEN DurableCall(x.event)
                                           ELSE FullCall(x.event)]
          /\ tries' = [tries EXCEPT ![x.event] = IF @ < MaxAttempts THEN @ + 1
                                                                    ELSE @]
    BY <1>7 DEF Republish
  <2>2. x \in Snapshot /\ SnapOK(x)
    BY <1>2, <1>3, <2>1 DEF RelayState, RelayOK
  <2>3. PICK s \in RelayState :
          /\ s = [pc |-> "publish", todo |-> relays[r].todo \ {x}, current |-> x]
          /\ s.pc = "publish" /\ s.current = x /\ s.todo \subseteq relays[r].todo
    <3> DEFINE n == [pc |-> "publish", todo |-> relays[r].todo \ {x}, current |-> x]
    <3>1. n \in RelayState
      BY <1>2, <2>1, <2>2 DEF RelayState
    <3> QED
      BY <3>1
  <2>4. PICK c \in Call :
          /\ c = IF x.fannedOut THEN DurableCall(x.event) ELSE FullCall(x.event)
          /\ c.event = x.event /\ c.durable = "todo" /\ c.plain # "done"
    BY <2>2, Types DEF SnapOK, DurableCall, FullCall
  <2>5. /\ relays' = [relays EXCEPT ![r] = s] /\ calls' = [calls EXCEPT ![r] = c]
        /\ UNCHANGED <<tx, rows, pubs, ledger, heard, reported>>
    BY <1>1, <1>7, <2>1, <2>3, <2>4 DEF Republish
  <2>6. CallOK(c)
    BY <2>2, <2>4 DEF SnapOK, CallOK
  <2>7. /\ tries' \in [Event -> 0..MaxAttempts]
        /\ \A e \in Event : tries[e] <= tries'[e]
        /\ x.attempts + 1 <= tries'[x.event]
    BY <1>e, <2>1, <2>2, EventOutboxConstants DEF SnapOK, Snapshot
  <2>8. Grows
    BY <1>e, <2>5, <2>7 DEF Grows
  <2>9. RelayOK(s, c.event)'
    <3>1. \A y \in relays[r].todo : SnapOK(y)'
      BY <1>2, <1>3, <2>8, GrowsKeeps DEF RelayState, RelayOK
    <3> QED
      BY <2>1, <2>3, <2>4, <2>7, <3>1 DEF RelayOK
  <2>10. \A e \in Event : RowOK(e, rows[e])'
    BY <1>1, <1>b, <2>5, <2>8, GrowsKeeps DEF RowOK
  <2>11. GivenUpAfterAllTries'
    BY <1>1, <1>d, <1>e, <2>5, <2>7, EventOutboxConstants DEF GivenUpAfterAllTries
  <2> QED
    BY <1>1, <2>3, <2>4, <2>5, <2>6, <2>7, <2>9, <2>10, <2>11, RelayStepCounted
<1>8. ASSUME NEW pc \in {"sweep", "report"},
             relays[r].pc = "publish" \/ (relays[r].pc = "report" /\ pc = "sweep"),
             pc = "report" => tries[relays[r].current.event] = MaxAttempts,
             relays' = [relays EXCEPT ![r].pc = pc],
             NEW c \in Call, c.event = NoEvent,
             calls' = [calls EXCEPT ![r] = c],
             rows' \in [Event -> Row],
             \A e \in Event : RowOK(e, rows'[e]),
             reported' \subseteq Event,
             \A e \in reported' : tries[e] = MaxAttempts,
             UNCHANGED <<tx, pubs, ledger, heard, tries>>
      PROVE  IInv'
  <2> DEFINE s == [relays[r] EXCEPT !.pc = pc]
  <2>1. s \in RelayState /\ s.pc = pc /\ s.current = relays[r].current
        /\ s.todo = relays[r].todo
    BY <1>2 DEF RelayState
  <2>2. relays' = [relays EXCEPT ![r] = s]
    BY <1>8
  <2> HIDE DEF s
  <2>3. RelayOK(s, c.event) /\ CallOK(c)
    BY <1>3, <1>8, <2>1 DEF RelayOK, CallOK
  <2> QED
    BY <1>8, <2>1, <2>2, <2>3, RelayStep
<1>9. CASE RelayRecordFails(r)
  BY <1>1, <1>8, <1>9, <1>b, <1>c, <1>d DEF RelayRecordFails
<1>10. CASE ReportExhausted(r)
  <2>1. calls[r].event = NoEvent /\ relays[r].current.event \in Event
        /\ tries[relays[r].current.event] = MaxAttempts
    BY <1>3, <1>10 DEF RelayOK, ReportExhausted, SnapOK
  <2> QED
    BY <1>1, <1>2, <1>8, <1>10, <1>a, <1>b, <1>d, <2>1 DEF ReportExhausted
<1>11. ASSUME NEW d \in Delay, RelayRecords(r, d) PROVE IInv'
  <2> DEFINE x == relays[r].current
             e == x.event
  <2>1. x \in Snapshot /\ SnapOK(x) /\ x.attempts + 1 <= tries[e]
    BY <1>2, <1>3, <1>11 DEF RelayState, RelayOK, RelayRecords
  <2>2. e \in Event /\ x.attempts + 1 \in 0..MaxAttempts
    BY <2>1, EventOutboxConstants DEF Snapshot, SnapOK
  <2>3. calls[r].event = e
    BY <1>3, <1>11 DEF RelayRecords, CallOver, RelayOK
  <2>4. (calls[r].durable = "ok" => e \in ledger)
        /\ (calls[r].plain = "done" => e \in heard)
    BY <1>3, <2>2, <2>3, EventOutboxConstants DEF CallOK
  <2>5. rows[e] \in Row /\ RowOK(e, rows[e]) /\ tx[e] = "committed"
    BY <1>1, <1>b, <2>1, <2>2 DEF SnapOK
  <2>6. d \in Nat
    BY EventOutboxConstants
  <2>7. RecordedRow(r, d) \in Row
    <3>1. [rows[e] EXCEPT !.attempts = x.attempts + 1] \in Row
      BY <2>2, <2>5 DEF Row
    <3> HIDE DEF x
    <3> QED
      BY <2>6, <3>1, Types DEF RecordedRow, SiblingsRan, Row, x
  <2>8. RowOK(e, RecordedRow(r, d))
    BY <2>1, <2>2, <2>4, <2>5, Types DEF RecordedRow, RowOK, SiblingsRan, Row, Published
  <2>9. rows' = IF Present(rows[e]) THEN [rows EXCEPT ![e] = RecordedRow(r, d)]
                                    ELSE rows
    BY <1>11 DEF RelayRecords
  <2>10. rows' \in [Event -> Row] /\ \A f \in Event : RowOK(f, rows'[f])
    BY <1>1, <1>b, <2>2, <2>7, <2>8, <2>9
  <2>a. x.attempts + 1 >= MaxAttempts => tries[e] = MaxAttempts
    BY <1>e, <2>1, <2>2, EventOutboxConstants
  <2>11. PICK pc \in {"sweep", "report"} :
            /\ relays' = [relays EXCEPT ![r].pc = pc]
            /\ pc = "report" => tries[e] = MaxAttempts
    BY <1>11, <2>a DEF RelayRecords
  <2> QED
    BY <1>1, <1>8, <1>11, <1>c, <1>d, <2>10, <2>11 DEF RelayRecords
<1>12. CASE Prune(r)
  <2>1. calls[r].event = NoEvent
    BY <1>3, <1>12 DEF RelayOK, Prune
  <2>2. IdleRelay \in RelayState /\ RelayOK(IdleRelay, NoEvent)
    BY Types DEF IdleRelay, RelayOK
  <2>3. \A e \in Event : Pruned(rows[e]) \in Row /\ RowOK(e, Pruned(rows[e]))
    BY <1>1, <1>b DEF Pruned, Row, RowOK
  <2>4. rows' \in [Event -> Row] /\ \A e \in Event : RowOK(e, rows'[e])
    BY <1>1, <1>12, <1>b, <2>3 DEF Prune
  <2> QED
    BY <1>1, <1>2, <1>3, <1>12, <1>a, <1>d, <2>1, <2>2, <2>4, RelayStep
    DEF Prune
<1> QED
  BY <1>4, <1>5, <1>6, <1>7, <1>9, <1>10, <1>11, <1>12 DEF RelayNext

----------------------------------------------------------------------------
(* Time and the theorems *)

\* Time changes no status and no flag.
LEMMA TickInv ==
    ASSUME IInv, Tick PROVE IInv'
<1>1. /\ rows' \in [Event -> Row]
      /\ \A e \in Event : /\ rows'[e].status = rows[e].status
                          /\ rows'[e].fannedOut = rows[e].fannedOut
                          /\ rows'[e].attempts = rows[e].attempts
  <2>1. \A n \in Nat : Sooner(n) \in Nat
    BY DEF Sooner
  <2> QED
    BY <2>1 DEF IInv, TypeOK, Tick, Row
<1>2. UNCHANGED <<tx, pubs, relays, calls, ledger, heard, tries, reported>>
  BY DEF Tick
<1> QED
  BY <1>1, <1>2
  DEF IInv, TypeOK, OnlyCommitted, CallOK, RowOK, PubOK, RelayOK, SnapOK,
      GivenUpAfterAllTries

\* Every step keeps the invariant.
LEMMA NextInv == IInv /\ [Next]_vars => IInv'
<1> SUFFICES ASSUME IInv, [Next]_vars PROVE IInv'
  OBVIOUS
<1>1. CASE UNCHANGED vars
  BY <1>1 DEF vars, IInv, TypeOK, OnlyCommitted, CallOK, RowOK, PubOK, RelayOK,
              SnapOK, GivenUpAfterAllTries
<1> QED
  BY <1>1, BusInv, PublisherInv, RelayInv, TickInv DEF Next

\* The invariant holds in every reachable state.
THEOREM InvariantHolds == Spec => []IInv
  BY InitInv, NextInv, PTL DEF Spec

\* Every row, publisher, relay and call keeps its type, and no counter of the
\* relay passes outboxMaxAttempts, although relays overwrite each other's counts.
THEOREM TypeCorrect == Spec => []TypeOK
<1>1. IInv => TypeOK
  BY DEF IInv
<1> QED
  BY <1>1, InvariantHolds, PTL

\* A row is stamped or pruned only for an event the durable router has recorded,
\* however many relays and publishers write it from what they read earlier.
THEOREM NothingDropped == Spec => []KeptUntilRecorded
<1>1. IInv => KeptUntilRecorded
  BY DEF IInv, RowOK, KeptUntilRecorded
<1> QED
  BY <1>1, InvariantHolds, PTL

\* No subscriber hears of a change that is not committed.
THEOREM NothingPremature == Spec => []OnlyCommitted
<1>1. IInv => OnlyCommitted
  BY DEF IInv
<1> QED
  BY <1>1, InvariantHolds, PTL

\* fanned_out is set only once the plain subscribers have run.
THEOREM FlagIsTrue == Spec => []FlagMeansRan
<1>1. IInv => FlagMeansRan
  BY DEF IInv, RowOK, FlagMeansRan
<1> QED
  BY <1>1, InvariantHolds, PTL

\* Nobody is told to give an event up before the relays published it
\* outboxMaxAttempts times, although they overwrite each other's counts.
THEOREM GivenUpEarned == Spec => []GivenUpAfterAllTries
<1>1. IInv => GivenUpAfterAllTries
  BY DEF IInv
<1> QED
  BY <1>1, InvariantHolds, PTL
=============================================================================
