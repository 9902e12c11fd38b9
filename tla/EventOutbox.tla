---------------------------- MODULE EventOutbox -----------------------------
(***************************************************************************)
(* The transactional outbox of package dynamic: the table                  *)
(* kernel_event_outbox, the publishers that persist an event, hand it to   *)
(* the bus and stamp its row, and the relays of all processes that sweep   *)
(* rows nobody stamped.                                                    *)
(*                                                                         *)
(* A publication on the bus (package events) is a call that runs the plain *)
(* subscribers, whose errors are swallowed, and the durable router (the    *)
(* dispatcher's ledger), whose error is returned, in any order.            *)
(***************************************************************************)
EXTENDS Naturals, FiniteSets

CONSTANTS
    Event,        \* events, by their publication id
    Relay,        \* relay goroutines of all processes
    MaxAttempts,  \* outboxMaxAttempts
    MinAge,       \* outboxRelayMinAge
    Retention,    \* outboxRetention
    Delay,        \* the delays outboxBackoff gives
    NoEvent

Actor == Event \cup Relay   \* the publisher of an event bears its name

ASSUME EventOutboxConstants ==
    /\ MaxAttempts \in Nat \ {0}
    /\ MinAge \in Nat
    /\ Retention \in Nat
    /\ Delay \subseteq Nat
    /\ Event \cap Relay = {}
    /\ NoEvent \notin Event

VARIABLES
    tx,        \* tx[e]: the transaction whose change e announces
    rows,      \* rows[e]: the outbox row of e
    pubs,      \* pubs[e]: what the publisher of e is doing
    relays,    \* relays[r]: what relay r is doing
    calls,     \* calls[a]: the publication actor a is waiting for
    ledger,    \* the events the durable router has recorded
    heard,     \* the events the plain subscribers have run for
    tries,     \* tries[e]: publications by relays, counted up to MaxAttempts
    reported   \* the events reportExhausted was called for

vars == <<tx, rows, pubs, relays, calls, ledger, heard, tries, reported>>

----------------------------------------------------------------------------
(* Rows, publishers, relays and calls *)

\* "staged": inserted by a transaction that is still open; "pruned": deleted by
\* retention.
Row == [status : {"absent", "staged", "unpublished", "published", "pruned"},
        attempts : 0..MaxAttempts,
        fannedOut : BOOLEAN,
        age : Nat,        \* how long until the row is old enough to be swept
        due : Nat,        \* how long until next_attempt_at
        keep : Nat]       \* how long until retention may delete it

AbsentRow == [status |-> "absent", attempts |-> 0, fannedOut |-> FALSE,
              age |-> 0, due |-> 0, keep |-> 0]

NewRow(status) == [AbsentRow EXCEPT !.status = status, !.age = MinAge]

\* persisted: the publisher knows the id of its row. hook: a CommitHook waits.
Pub == [pc : {"new", "persist", "inTx", "hook", "publish", "over"},
        persisted : BOOLEAN,
        hook : BOOLEAN]

\* A row as a sweep read it.
Snapshot == [event : Event \cup {NoEvent}, attempts : 0..MaxAttempts,
             fannedOut : BOOLEAN]

NoSnapshot == [event |-> NoEvent, attempts |-> 0, fannedOut |-> FALSE]

RelayState == [pc : {"down", "idle", "sweep", "publish", "report"},
               todo : SUBSET Snapshot,
               current : Snapshot]

DownRelay == [pc |-> "down", todo |-> {}, current |-> NoSnapshot]

IdleRelay == [pc |-> "idle", todo |-> {}, current |-> NoSnapshot]

Call == [event : Event \cup {NoEvent},
         plain : {"todo", "done", "skipped"},
         durable : {"todo", "ok", "failed", "refused"}]

NoCall == [event |-> NoEvent, plain |-> "todo", durable |-> "todo"]

\* bus.Publish
FullCall(e) == [event |-> e, plain |-> "todo", durable |-> "todo"]

\* bus.PublishDurableOnly
DurableCall(e) == [event |-> e, plain |-> "skipped", durable |-> "todo"]

CallOver(a) == /\ calls[a].event # NoEvent
               /\ \/ calls[a].durable = "refused"
                  \/ /\ calls[a].plain # "todo"
                     /\ calls[a].durable \in {"ok", "failed"}

SiblingsRanOnAnyError(a) == calls[a].durable # "ok"

\* siblingsRan: the error is the durable router's, and the plain subscribers ran
\* in the call that returned it.
SiblingsRan(a) == calls[a].durable = "failed" /\ calls[a].plain = "done"

----------------------------------------------------------------------------
(* The bus *)

\* The event:emit capability is denied before anything runs.
Refuse(a) ==
    /\ calls[a].event # NoEvent
    /\ calls[a].plain # "done"
    /\ calls[a].durable = "todo"
    /\ calls' = [calls EXCEPT ![a].durable = "refused"]
    /\ UNCHANGED <<tx, rows, pubs, relays, ledger, heard, tries, reported>>

RunPlain(a) ==
    LET e == calls[a].event
    IN  /\ e # NoEvent
        /\ calls[a].plain = "todo"
        /\ calls[a].durable # "refused"
        /\ calls' = [calls EXCEPT ![a].plain = "done"]
        /\ heard' = heard \cup {e}
        /\ UNCHANGED <<tx, rows, pubs, relays, ledger, tries, reported>>

\* The router records the event, which collapses into an earlier recording, and
\* may fail before or after it did.
RunDurable(a, result) ==
    LET e == calls[a].event
    IN  /\ e # NoEvent
        /\ calls[a].durable = "todo"
        /\ calls' = [calls EXCEPT ![a].durable = result]
        /\ \/ ledger' = ledger \cup {e}
           \/ result = "failed" /\ ledger' = ledger
        /\ UNCHANGED <<tx, rows, pubs, relays, heard, tries, reported>>

----------------------------------------------------------------------------
(* Publishers *)

\* publishCanonical, or OutboxPublisher.Publish outside a transaction: the change
\* is committed, then the event is persisted.
Written(e) ==
    /\ pubs[e].pc = "new"
    /\ tx' = [tx EXCEPT ![e] = "committed"]
    /\ pubs' = [pubs EXCEPT ![e].pc = "persist"]
    /\ UNCHANGED <<rows, relays, calls, ledger, heard, tries, reported>>

StartPublication(e, persisted) ==
    /\ pubs' = [pubs EXCEPT ![e].pc = "publish", ![e].persisted = persisted]
    /\ calls' = [calls EXCEPT ![e] = FullCall(e)]

\* The row is inserted; the publisher may not learn of it.
Persist(e) ==
    /\ pubs[e].pc = "persist"
    /\ rows' = [rows EXCEPT ![e] = NewRow("unpublished")]
    /\ \E persisted \in BOOLEAN : StartPublication(e, persisted)
    /\ UNCHANGED <<tx, relays, ledger, heard, tries, reported>>

\* The outbox is not armed or the insert fails: the event fans out all the same.
PersistFails(e) ==
    /\ pubs[e].pc = "persist"
    /\ StartPublication(e, FALSE)
    /\ UNCHANGED <<tx, rows, relays, ledger, heard, tries, reported>>

StageAndPublish(e, persisted, hook) ==
    /\ pubs[e].pc = "new"
    /\ tx' = [tx EXCEPT ![e] = "open"]
    /\ rows' = [rows EXCEPT ![e] = IF persisted THEN NewRow("staged") ELSE @]
    /\ StartPublication(e, persisted)
    /\ UNCHANGED <<relays, ledger, heard, tries, reported>>

\* publishInTx: the row joins the caller's transaction, the publication waits in
\* the CommitHook, if the context carries one.
Stage(e, persisted, hook) ==
    /\ pubs[e].pc = "new"
    /\ tx' = [tx EXCEPT ![e] = "open"]
    /\ rows' = [rows EXCEPT ![e] = IF persisted THEN NewRow("staged") ELSE @]
    /\ pubs' = [pubs EXCEPT ![e] = [pc |-> "inTx", persisted |-> persisted,
                                    hook |-> hook]]
    /\ UNCHANGED <<relays, calls, ledger, heard, tries, reported>>

Commit(e) ==
    /\ pubs[e].pc = "inTx"
    /\ tx' = [tx EXCEPT ![e] = "committed"]
    /\ rows' = [rows EXCEPT ![e].status = IF @ = "staged" THEN "unpublished"
                                                          ELSE @]
    /\ pubs' = [pubs EXCEPT ![e].pc = IF pubs[e].hook THEN "hook" ELSE "over"]
    /\ UNCHANGED <<relays, calls, ledger, heard, tries, reported>>

\* The rows go with the transaction and hook.Discard drops the publication.
Rollback(e) ==
    /\ pubs[e].pc = "inTx"
    /\ tx' = [tx EXCEPT ![e] = "aborted"]
    /\ rows' = [rows EXCEPT ![e] = AbsentRow]
    /\ pubs' = [pubs EXCEPT ![e].pc = "over"]
    /\ UNCHANGED <<relays, calls, ledger, heard, tries, reported>>

\* hook.Run, which the caller may leave out.
RunHook(e) ==
    /\ pubs[e].pc = "hook"
    /\ StartPublication(e, pubs[e].persisted)
    /\ UNCHANGED <<tx, rows, relays, ledger, heard, tries, reported>>

Present(row) == row.status \in {"unpublished", "published"}

Published(row) == [row EXCEPT !.status = "published", !.keep = Retention]

EndCall(e) == /\ pubs' = [pubs EXCEPT ![e].pc = "over"]
              /\ calls' = [calls EXCEPT ![e] = NoCall]
              /\ UNCHANGED <<tx, relays, ledger, heard, tries, reported>>

RecordsWhateverCame(e) ==
    /\ pubs[e].pc = "publish"
    /\ CallOver(e)
    /\ rows' = IF pubs[e].persisted /\ Present(rows[e])
               THEN [rows EXCEPT ![e] = Published(@)]
               ELSE rows
    /\ EndCall(e)

\* The publication returns: the row is stamped published, or marked fanned_out
\* when only the durable router failed.
PublisherRecords(e) ==
    /\ pubs[e].pc = "publish"
    /\ CallOver(e)
    /\ rows' = IF ~pubs[e].persisted \/ ~Present(rows[e]) THEN rows
               ELSE IF calls[e].durable = "ok"
                    THEN [rows EXCEPT ![e] = Published(@)]
               ELSE [rows EXCEPT ![e].fannedOut = @ \/ SiblingsRan(e)]
    /\ EndCall(e)

\* That write fails and its error is ignored.
PublisherRecordFails(e) ==
    /\ pubs[e].pc = "publish"
    /\ CallOver(e)
    /\ EndCall(e)
    /\ UNCHANGED rows

\* The publisher's process dies; the database rolls an open transaction back.
PublisherDies(e) ==
    /\ pubs[e].pc \in {"persist", "inTx", "hook", "publish"}
    /\ IF pubs[e].pc = "inTx"
       THEN /\ tx' = [tx EXCEPT ![e] = "aborted"]
            /\ rows' = [rows EXCEPT ![e] = AbsentRow]
       ELSE UNCHANGED <<tx, rows>>
    /\ pubs' = [pubs EXCEPT ![e].pc = "over"]
    /\ calls' = [calls EXCEPT ![e] = NoCall]
    /\ UNCHANGED <<relays, ledger, heard, tries, reported>>

----------------------------------------------------------------------------
(* Relays *)

DueAnyAttempts == {e \in Event : /\ rows[e].status = "unpublished"
                                 /\ rows[e].age = 0
                                 /\ rows[e].due = 0}

Due == {e \in Event : /\ rows[e].status = "unpublished"
                      /\ rows[e].age = 0
                      /\ rows[e].due = 0
                      /\ rows[e].attempts < MaxAttempts}

SnapshotOf(e) == [event |-> e, attempts |-> rows[e].attempts,
                  fannedOut |-> rows[e].fannedOut]

\* RelayOutboxOnce reads the due rows without claiming them.
Sweep(r) ==
    /\ relays[r].pc = "idle"
    /\ relays' = [relays EXCEPT ![r].pc = "sweep",
                                ![r].todo = {SnapshotOf(e) : e \in Due}]
    /\ UNCHANGED <<tx, rows, pubs, calls, ledger, heard, tries, reported>>

\* republish: the row as it was read decides who hears of the event again.
Republish(r) ==
    /\ relays[r].pc = "sweep"
    /\ \E s \in relays[r].todo :
          /\ relays' = [relays EXCEPT ![r] = [pc |-> "publish",
                                              todo |-> @.todo \ {s},
                                              current |-> s]]
          /\ calls' = [calls EXCEPT ![r] = IF s.fannedOut
                                           THEN DurableCall(s.event)
                                           ELSE FullCall(s.event)]
          /\ tries' = [tries EXCEPT ![s.event] = IF @ < MaxAttempts THEN @ + 1
                                                                    ELSE @]
    /\ UNCHANGED <<tx, rows, pubs, ledger, heard, reported>>

RecordedRowUncounted(r, d) ==
    LET row == rows[relays[r].current.event]
    IN  IF calls[r].durable = "ok"
        THEN [Published(row) EXCEPT !.due = 0]
        ELSE [row EXCEPT !.due = d, !.fannedOut = @ \/ SiblingsRan(r)]

\* The row the relay writes: its attempts are those it read, plus one.
RecordedRow(r, d) ==
    LET row == rows[relays[r].current.event]
        tried == [row EXCEPT !.attempts = relays[r].current.attempts + 1]
    IN  IF calls[r].durable = "ok"
        THEN [Published(tried) EXCEPT !.due = 0]
        ELSE [tried EXCEPT !.due = d, !.fannedOut = @ \/ SiblingsRan(r)]

RelayRecordsTooSoon(r, d) ==
    LET s == relays[r].current
    IN  /\ relays[r].pc = "publish"
        /\ CallOver(r)
        /\ rows' = IF Present(rows[s.event])
                   THEN [rows EXCEPT ![s.event] = RecordedRow(r, d)]
                   ELSE rows
        /\ relays' = [relays EXCEPT ![r].pc =
                        IF /\ calls[r].durable # "ok"
                           /\ s.attempts + 2 >= MaxAttempts
                        THEN "report" ELSE "sweep"]
        /\ calls' = [calls EXCEPT ![r] = NoCall]
        /\ UNCHANGED <<tx, pubs, ledger, heard, tries, reported>>

\* The update is by id alone. An error on the last attempt is then reported.
RelayRecords(r, d) ==
    LET s == relays[r].current
    IN  /\ relays[r].pc = "publish"
        /\ CallOver(r)
        /\ rows' = IF Present(rows[s.event])
                   THEN [rows EXCEPT ![s.event] = RecordedRow(r, d)]
                   ELSE rows
        /\ relays' = [relays EXCEPT ![r].pc =
                        IF /\ calls[r].durable # "ok"
                           /\ s.attempts + 1 >= MaxAttempts
                        THEN "report" ELSE "sweep"]
        /\ calls' = [calls EXCEPT ![r] = NoCall]
        /\ UNCHANGED <<tx, pubs, ledger, heard, tries, reported>>

\* The update fails: nothing is counted and nothing reported.
RelayRecordFails(r) ==
    /\ relays[r].pc = "publish"
    /\ CallOver(r)
    /\ relays' = [relays EXCEPT ![r].pc = "sweep"]
    /\ calls' = [calls EXCEPT ![r] = NoCall]
    /\ UNCHANGED <<tx, rows, pubs, ledger, heard, tries, reported>>

ReportExhausted(r) ==
    /\ relays[r].pc = "report"
    /\ reported' = reported \cup {relays[r].current.event}
    /\ relays' = [relays EXCEPT ![r].pc = "sweep"]
    /\ UNCHANGED <<tx, rows, pubs, calls, ledger, heard, tries>>

Pruned(row) == IF row.status = "published" /\ row.keep = 0
               THEN [row EXCEPT !.status = "pruned"]
               ELSE row

\* The end of a sweep: published rows past retention are deleted, unless the
\* statement fails, which nobody notices.
Prune(r) ==
    /\ relays[r].pc = "sweep"
    /\ relays[r].todo = {}
    /\ rows' \in {rows, [e \in Event |-> Pruned(rows[e])]}
    /\ relays' = [relays EXCEPT ![r] = IdleRelay]
    /\ UNCHANGED <<tx, pubs, calls, ledger, heard, tries, reported>>

StartRelay(r) ==
    /\ relays[r].pc = "down"
    /\ relays' = [relays EXCEPT ![r] = IdleRelay]
    /\ UNCHANGED <<tx, rows, pubs, calls, ledger, heard, tries, reported>>

\* StopOutboxRelay between two sweeps, or the end of the process at any moment.
RelayStops(r) ==
    /\ relays[r].pc # "down"
    /\ relays' = [relays EXCEPT ![r] = DownRelay]
    /\ calls' = [calls EXCEPT ![r] = NoCall]
    /\ UNCHANGED <<tx, rows, pubs, ledger, heard, tries, reported>>

----------------------------------------------------------------------------
(* Time *)

Sooner(n) == IF n > 0 THEN n - 1 ELSE 0

Tick ==
    /\ rows' = [e \in Event |-> [rows[e] EXCEPT !.age = Sooner(@),
                                                !.due = Sooner(@),
                                                !.keep = Sooner(@)]]
    /\ rows' # rows
    /\ UNCHANGED <<tx, pubs, relays, calls, ledger, heard, tries, reported>>

----------------------------------------------------------------------------

Init ==
    /\ tx = [e \in Event |-> "none"]
    /\ rows = [e \in Event |-> AbsentRow]
    /\ pubs = [e \in Event |-> [pc |-> "new", persisted |-> FALSE,
                                hook |-> FALSE]]
    /\ relays = [r \in Relay |-> DownRelay]
    /\ calls = [a \in Actor |-> NoCall]
    /\ ledger = {}
    /\ heard = {}
    /\ tries = [e \in Event |-> 0]
    /\ reported = {}

BusNext(a) == \/ Refuse(a)
              \/ RunPlain(a)
              \/ \E result \in {"ok", "failed"} : RunDurable(a, result)

PublisherNext(e) == \/ Written(e)
                    \/ Persist(e)
                    \/ PersistFails(e)
                    \/ \E persisted, hook \in BOOLEAN : Stage(e, persisted, hook)
                    \/ Commit(e)
                    \/ Rollback(e)
                    \/ RunHook(e)
                    \/ PublisherRecords(e)
                    \/ PublisherRecordFails(e)
                    \/ PublisherDies(e)

RelayNext(r) == \/ StartRelay(r)
                \/ Sweep(r)
                \/ Republish(r)
                \/ \E d \in Delay : RelayRecords(r, d)
                \/ RelayRecordFails(r)
                \/ ReportExhausted(r)
                \/ Prune(r)
                \/ RelayStops(r)

Next == \/ \E a \in Actor : BusNext(a)
        \/ \E e \in Event : PublisherNext(e)
        \/ \E r \in Relay : RelayNext(r)
        \/ Tick

Spec == Init /\ [][Next]_vars

\* A running relay goes on sweeping, subscribers return, and the relay's updates
\* succeed now and then. Nothing is assumed of publishers or of the router.
Fairness ==
    /\ WF_vars(Tick)
    /\ \A r \in Relay :
          /\ WF_vars(Sweep(r))
          /\ WF_vars(Republish(r))
          /\ WF_vars(BusNext(r))
          /\ SF_vars(\E d \in Delay : RelayRecords(r, d))
          /\ WF_vars(ReportExhausted(r))
          /\ WF_vars(Prune(r))

FairSpec == Spec /\ Fairness

----------------------------------------------------------------------------
(* Properties *)

\* Every row, publisher, relay and call has its type; a relay's counter never
\* passes outboxMaxAttempts.
TypeOK ==
    /\ tx \in [Event -> {"none", "open", "committed", "aborted"}]
    /\ rows \in [Event -> Row]
    /\ pubs \in [Event -> Pub]
    /\ relays \in [Relay -> RelayState]
    /\ calls \in [Actor -> Call]
    /\ ledger \subseteq Event
    /\ heard \subseteq Event
    /\ tries \in [Event -> 0..MaxAttempts]
    /\ reported \subseteq Event

\* A row is stamped published, and later pruned, only for an event the durable
\* router has recorded: no relay, publisher, retention or stale update takes an
\* event out of the outbox before it is safe elsewhere.
KeptUntilRecorded ==
    \A e \in Event : rows[e].status \in {"published", "pruned"} => e \in ledger

\* No subscriber, plain or durable, hears of a change that is not committed:
\* events staged in a transaction are published after its commit only, and never
\* when it rolls back.
OnlyCommitted ==
    \A e \in Event : e \in ledger \cup heard => tx[e] = "committed"

\* fanned_out restricts every retry to the durable router, so it may be set only
\* once the plain subscribers have run: a refused publication does not set it.
FlagMeansRan ==
    \A e \in Event : rows[e].fannedOut => e \in heard

\* The report of exhaustion is earned: although relays overwrite each other's
\* counts and stamps, nobody is told to give an event up before the relays have
\* published it outboxMaxAttempts times.
GivenUpAfterAllTries ==
    \A e \in reported : tries[e] = MaxAttempts

\* Every event whose row is committed is recorded by the durable router or uses
\* up the relay's attempts, whatever publishers do, provided a relay eventually
\* stays up.
Relayed ==
    \A e \in Event :
        (\E r \in Relay : <>[](relays[r].pc # "down"))
        => (rows[e].status = "unpublished"
            ~> e \in ledger \/ rows[e].attempts = MaxAttempts)

\* The comment in publishCanonical: a crash "between the committed data write and
\* the publish can no longer lose the event".
CommittedIsAnnounced ==
    \A e \in Event :
        (\E r \in Relay : <>[](relays[r].pc # "down"))
        => (pubs[e].pc = "persist"
            ~> e \in ledger \/ rows[e].attempts = MaxAttempts)
=============================================================================
