# A TLA+ model of metacore-kernel

metacore-kernel is a library of Go packages from which multi-tenant business
applications are assembled. Most of its packages are request/response code over
one database transaction. What is hard about it is concentrated in a few durable
protocols in which several processes meet only in database tables: a job queue,
an event delivery ledger, an event outbox, an idempotency table, payment ledgers.
This project models those protocols, model-checks them with TLC and proves their
main invariants with TLAPS. Paths below are relative to the repository; the exact
lines of every definition are in `PROJECT.json` under `map`.

## 1. Inventory

### Components that carry a protocol

| component | state it keeps | operations | hard behaviour | what makes it correct |
|---|---|---|---|---|
| `outbox` | table `metacore_outbox_jobs`; per process: poll and maintenance loops, worker slots | `Enqueue(Tx)`, `claim`, `heartbeat`, `run`, `finish`, `ReapStuck`, `Retry`, `Cleanup`, `Start`, `Shutdown` | many replicas with their own clocks, takeover of expired leases, late results, lost answers, shutdown that gives attempts back | one owner per row, attempt budget, dead only when earned, one live job per dedupe key, every job ends |
| `dispatch` | table `event_deliveries`; per process: sweeper, attempts | insert on publication with a first attempt at once, `claim`, `reapExhausted`, `runClaimed`, results, `Replay`, `ForgetDeliveries`, `emitDeadLetter`, `Wire` and its cancel | as above, plus refunds for subscribers that are not ready, a limit that is no column, replays | leased queue, no delivery out of everyone's reach, dead letters tell the truth, one live generation |
| event outbox (`dynamic`) | table `kernel_event_outbox`, `CommitHook`s | persist or stage, commit, in-line publication, marks, `RelayOutboxOnce`, `reportExhausted`, retention | rows are read without a claim and written by id; process death between any two statements | a row leaves only when the event is recorded; nothing uncommitted is announced |
| `events` | subscriptions in memory | `Publish`, `PublishDurableOnly`, subscribe | swallowed and returned errors, order of subscribers | the error tells the publisher who ran |
| `idempotency` | table `metacore_idempotency_keys` | `Reserve`, `Put`, `Release`, `Cleanup`, the middleware | lease expiry under a running handler, unfenced late writes | one request per key within its lease, stored responses stay |
| `payments`, `payments/ledger` | payments with their events, refunds, holds | `StartCharge`, `Refresh`, `Cancel`, `observe`, the reconciliation job, `CreateRefund`, `recheckRefund`, `SettleRefund`, holds | provider calls that time out after taking effect, readings that are old when they are recorded, keys the provider forgets, people who settle by hand | nobody is charged or refunded twice, a late update takes nothing back, what is final is true, nothing stays reserved in silence |
| `payments/inbox`, `payments/incidents` | journal of webhooks, open incidents | `Record`, `Due`, `Claim`, `Resolve`, `ResolveManual`, `Purge` | claims without a fence, death between any two writes, incidents and rows in separate transactions | every notification ends, and what needs a person has an incident |
| `cachecoherence` | epochs, invalidators, watchers | bump, invalidate in order, watch, refresh | an epoch that is visible before a layer is clean | a watcher never keeps a layer older than its epoch |
| `automation`, `runtime/flow` | runs, steps, suspended nodes | start, step, pause, resume | resume races, crash between step and record | a step is recorded before the next starts |
| `installer` | addon installations | install, uninstall, compensate | failure of one of several steps | compensation leaves nothing behind |
| `licensing` | license state per instance | refresh, grace, expire | offline periods, clock | states follow the grace machine |
| `notifications` | bounded in-memory queue, workers | enqueue, drain | full queue, shutdown | nothing accepted is lost before shutdown |
| `legacybridge` | leases, checkpoints | two-way sync | two workers, restarts | a checkpoint never passes unsynced rows |

How they interact. A write of `dynamic` (or a guest event of `runtime/wasm`)
becomes a row of the event outbox; its publication on the `events` bus runs plain
subscribers and one durable router, `dispatch`, which inserts one delivery per
subscription, keyed by the occurrence id, so that a second publication of the same
occurrence collapses. A relay republishes rows nobody stamped. Dead deliveries are
announced on the bus again. A webhook of a payment provider is written to the inbox
before its handler runs; the handler, a caller's poll and the reconciliation job all
end in `observe` of the payments ledger, which alone decides what a reading of the
provider does to a payment. `outbox` is the job queue applications use directly;
`idempotency` stands in front of their HTTP handlers. None of these shares memory
with another process: the tables are the only shared state, and a call that fails
may have taken effect.

### Components that are not modelled

The remaining packages (`PROJECT.json` lists each with its reason) are transport
and third-party engines (`ws`, `push`, `runtime/wasm`, `agent`, `vector`), data and
parsing (`manifest`, `query`, `importer`, `metadata`), single-row stores
(`settings`, `apitoken`, `connectors`) and wiring (`host`, `bridge`). Two are pure
algorithms worth a check against a reference definition later: `money`
(allocation) and `preset` (flattening).

## 2. Modules

| module | models | state |
|---|---|---|
| `LeasedQueue` | the abstract promise of a durable queue with leases | `phase`, `holder`, `used`, `work` |
| `Outbox` | `src/outbox`: `worker.go`, `service.go`, `job.go`, `schema.go` | `jobs` (the table), `slots` (handlers under way), `mode` (life of each process) |
| `OutboxProofs` | theorems about `Outbox` | |
| `Dispatch` | `src/dispatch`: `ledger.go`, `enqueue.go`, `delivery.go`, `dispatcher.go` | `rows`, `slots`, `mode`, `limit`, `reaping`, `owed`, `letters` |
| `DispatchProofs` | theorems about `Dispatch` | |
| `EventOutbox` | `src/dynamic/outbox.go`, `canonical_events.go`, `commithook.go` with `src/events/events.go` | `tx`, `rows`, `pubs`, `relays`, `calls`, `ledger`; histories `heard`, `tries`, `reported` |
| `EventOutboxProofs` | theorems about `EventOutbox` | |
| `Idempotency` | `src/idempotency/gorm_store.go`, `middleware.go` | `rows`, `reqs` |
| `IdempotencyProofs` | theorems about `Idempotency` | |
| `PaymentStatus` | `src/payments`: `status.go`, `observe.go`, `event.go`, `model.go`; `observe` of `src/payments/ledger/observe.go` | operators only |
| `Charges` | `src/payments/ledger`: `charge.go`, `observe.go`, `ledger.go`, `reconcile.go`; `hold.go`, `settle.go` of `src/payments` | `created`, `payments`, `hold` (tables), `procs`, `posted`, `provider`, `reports`, `late`, `cancels`; history `misjudged` |
| `ChargesProofs` | theorems about `Charges` and `PaymentStatus` | |
| `Refunds` | `src/payments/ledger/refund.go`, `src/payments/refund.go` | `pay`, `refunds` (tables), `procs`, `adrift`, `books`, `accepted`, `panel`; histories `overlapped`, `misjudged`, `byHand` |
| `RefundsProofs` | theorems about `Refunds` | |
| `Inbox` | `src/payments/inbox`: `store.go`, `incidents.go`, `classify.go`, `maintenance.go` | `rows`, `incidents` (tables), `workers`; history `answered` |
| `InboxProofs` | theorems about `Inbox` | |
| `SumProofs` | lemmas about sums over finite sets of keys, for the two modules that add amounts | |
| `MCOutbox`, `MCDispatch`, `MCIdempotency`, `MCCharges`, `MCRefunds`, `MCInbox` | instances for TLC | |

Conventions common to all modules:

* A SQL statement is one atomic step; two statements of one function are two steps
  unless they are one transaction. A statement may fail without effect, and where
  the code could not tell, it may take effect while its caller sees an error
  (`ClaimAnswerLost`, `EnqueueUnattended`, the second disjunct of `ReserveFails`,
  `Persist` with `persisted = FALSE`).
* Instants are distances from the present and `Tick` brings them nearer; an
  instant that has passed stays where the code can no longer tell how long ago.
  This keeps the state space finite without a clock. Only `Outbox` gives each
  process its own clock (`Skew`).
* A process dies at any moment (`Crash`, `Exit`, `PublisherDies`, `RelayStops`,
  `Dies`) and loses its memory; tables stay.
* A claim token is fresh: no row and no worker in sight carries it. The code draws
  random UUIDs.
* Payloads, names, tenants, logging, metrics, observers and hooks are left out.

### Outbox

`jobs[j]` is the row with id `j`; kind, dedupe key and `max_attempts` never change
and are constants. `Enqueue`, `Retry` and `Cleanup` are the service's statements
(the partial unique index is `IndexAdmits`). `Poll` is one claim: up to as many
rows as there are free slots and `BatchSize` admits, all under one token, ordered
by nobody's choice. `Heartbeat` either renews the fenced lease or, when the row is
no longer this slot's, cancels the handler with cause `lost`; a heartbeat that
fails does nothing. `HandlerReturns` and `Finish` separate the moment the handler
returns from the fenced result write, which decides on the attempts read at the
claim. `ReapStuck` ends running rows whose lease is over and whose budget is spent.
`Shutdown`, `LoopsEnd`, `CancelJobs` and `ShutdownReturns` are the steps of
`Shutdown`. Retention 0 keeps rows forever. A `run_at` in the past and one of now
are both "due".

### Dispatch

A delivery is `<<c, g>>`, generation `g` of the chain that `Replay` extends.
`Enqueue` inserts a leased row and starts the publisher's own attempt;
`EnqueueUnattended` is the same insert when its process is gone before the attempt.
`Sweep` claims; `ReapScan` reads exhausted rows and `Reap` updates each later, as
the code does; `Finish` is every result (delivered, retried, refunded, dead,
cancelled); a dead result owes an announcement, which `EmitDeadLetter` makes.
`limit[r]` is the attempt limit process `r` was wired with, because the table does
not hold it. `Slot` bounds the goroutines, which the code does not. `Replay` of one
row is one step; its filter names the statuses `Replayable`, which the caller chooses
(delivered and dead by default). The runs let it name every status but `pending`, and
`OneLiveGeneration` says that this is needed (observation 15). The guard against
dead-letter events of dead-letter events and rows of an older schema without a payload
are not modelled.

### EventOutbox

One publisher per event, named after it, and any number of relays. `tx[e]` is the
transaction whose change `e` announces. The publisher either commits first and
persists afterwards (`Written`, `Persist`, as `publishCanonical` does) or stages
the row in the transaction (`Stage`, `Commit`, `RunHook`). A call on the bus is
`calls[a]`: it may be refused before anyone runs, runs the plain subscribers (whose
errors are swallowed) and the durable router (whose error is returned) in either
order, and returns when both are done. A relay reads all due rows (`Sweep`), and
for each one publishes it as it was read (`Republish`), writes its result by id
(`RelayRecords`) and reports exhaustion; `Prune` ends the sweep. The durable router
is assumed to be subscribed, as the host wires it. Aggregate sequence numbers, the
limit of 200 rows per sweep, and arming the tables are left out.

### Idempotency

A request reserves its key (`Insert`, `Lookup`, tried `MaxTries` times), waits and
polls while another is in flight, runs the handler, and stores the response (`Put`,
unfenced, as in the code) or releases the key (fenced by the token). The `SELECT`
after a failed `INSERT` compares with the instant the `INSERT` used, so a row it
finds cannot look expired to it; this is why `Lookup` does not ask. The model
assumes `Lease <= TTL` (the defaults are one minute and 24 hours): without it a
late response could expire under a request that is still in its lease. `lease` and
`fresh` of a request are histories: what is left of its reservation, and of the time
a response it stored within its lease is to be remembered.

### PaymentStatus, Charges

`PaymentStatus` holds the pure part: the lattice (`transitions`, `Reachable`,
`advances`), what a re-read of the provider means for a row (`Observe`,
`ObserveOutcome`), the id under which it is recorded (`EventID`) and the whole body
of the transaction that records it (`observe`): duplicates, anomalies, and the
correction that a second reading of the reconciliation job makes. The search of
`Reachable` is stated by its result: what it walks through from a status is the least
set that holds the status and that no move but one to `cancelling` leaves. A row remembers the
ids of its events and nothing else of them.

`Charges` is one document. `StartCharge` is the transaction under the document's
lock (replay of the key, hold, replay check, row); the request then runs outside it:
it is `posted`, and the provider may create the payment, refuse it or never see it,
whether or not somebody still waits for the answer (`Crash`). `RecordCreated`,
`markFailed` and `Indeterminate` are the three ends of `sendToProvider`. `markFailed`
follows any error that is not indeterminate. That may be the provider's refusal, but
`Executor.one` (`capability/query.go:740-769`) returns such an error also when the
invoker fails on the way back, panics, or answers with an output the contract does not
admit; the request may then have been carried out, or still be on its way. `misjudged`
remembers the attempts failed like that, and `MaxMisjudged` bounds them. `Refresh`,
`List` (the job's listing and its re-reads) and `Webhook` take a reading at one
moment (`AtProvider`, `ProviderMoves` fills `reports`) and record it at another; a
webhook may arrive any number of times. `Cancel` is the move to `cancelling`, the
call, and the re-read. The provider is external: its payment moves along the
statuses of `ProviderStatus`, and may capture one it had given up (`LateCapture`).
Drawer cash is a charge that is paid at once. A till's hold expires, is released, or
ends when the document is paid (`settleDocument`).

A reading is recorded by `Take`. The transaction of `observe` finds and locks one
payment row (`Locked`); if it applies a capture it also reads what the other rows of
the document have paid, as they are committed at that moment, and ends in a step of its
own (`Commit`), between which other captures may be recorded and holds taken. The read
of the total and the UPDATE of the hold row, which locks it (`HoldLocked`), are one step:
a hold taken between them is found by the UPDATE, as one taken before the read is. The
drawer-cash transaction is one step too: it runs under the document's lock, and
`CheckReplay` turns it away while another payment of the document is open.

### Refunds

`CreateRefund` is the transaction under the payment's lock; `Asking` is a request to
the provider, sent under the refund's key, that is answered, refused or never heard
of. A caller that gives up or dies leaves its request behind (`adrift`), and the
provider may still carry it out (`ProviderRefundsLate`). `ErrorAnswer` is an error that
passes for a refusal although the request went through or still may, as in `Charges`;
on a first request it fails the refund, which `misjudged` remembers. `ReplayRefund` is the caller's retry, `recheckRefunds` and `recheckRefund` the
job's, inside the window in which the provider remembers keys; past it the job reads
the refund if it was numbered and puts it before a person if not (`SendToReview`).
`updateRefund` records an answer over whatever the row says by now, `applyRefunds` is
the transaction after it, in which the payment's total follows; `SettleRefund` is a
person's decision, `PanelRefund` a refund nobody asked the ledger for, and
`ObservePayment` the re-read that brings its total in.

What is assumed of the environment is `WindowsFit`: a request reaches the provider
within `AskTime` or never, `AskTime` is no longer than the time a first request
counts as under way, and the window and a request fit into the life of a key. The
code sends with a deadline (`MutatingTimeout`, 30 s, `src/capability/commerce.go`)
shorter than `refundInFlight` (one minute), and re-posts for twelve hours where
providers keep keys for twenty-four.

### Inbox

One request of a provider, delivered any number of times. `Record` stores it, as a
duplicate if `hasTwin`; the same goroutine then runs the handler without a claim.
`Due` finds rows to run again and `Claim` takes one; `Rerun` is a person's forced
claim. Nothing fences a claim: a slow worker resolves whatever the row is by then.
`Resolve` is three steps: `ReadRow` (together with the return of the handler, which
shares nothing), `applyIncidents` (each incident is a statement of its own; a failure
leaves some of them written, `IncidentsFail`) and `WriteRow`. An incident is its
fingerprint, a kind and a subject. `RetryAfter`, jitter and the previous signing key
are left out.

## 3. Runs

| run | bounds | checks |
|---|---|---|
| `outbox_safety` | 2 jobs with one dedupe key and budgets 2 and 1, 2 replicas of one slot, skew 1, lease 1 | types, `AttemptBudget`, `OneOwner`, `SnapshotCurrent`, `OneLivePerKey`, `LeaseRespected`, `NoEarlyDeath` |
| `outbox_live` | 1 job with budget 2, 1 replica of 2 slots that crashes, stops and restarts | `Outbox` implements `LeasedQueue`; `Settles`, `ShutdownEnds` |
| `dispatch_safety` | 1 chain of 2 generations, 2 goroutines, limit 2; every outcome of an attempt; replays of delivered, dead and cancelled rows | types, `AnyProcessCanResume`, `DeadLettersAreDead`, `OneLiveGeneration` |
| `dispatch_live` | 1 chain that may be forgotten and published again, 2 goroutines; ok, failure, not ready | `Settles`; `Dispatch` implements `LeasedQueue` |
| `event_outbox` | 1 event, 2 relays, 2 attempts | types, `KeptUntilRecorded`, `OnlyCommitted`, `FlagMeansRan`, `GivenUpAfterAllTries`, `Relayed` |
| `idempotency_safety` | 4 requests of one key, lease 1, TTL 2, 3 tries | types, `OneInLease`, `OnceIfTimely`, `StoredKept` |
| `charges` | total 2, 2 attempts, one of 1 that may be authorized and refuse its cancellation, one of 1 or 2 that may be given up, 1 channel, 1 job, 1 till, 1 cancellation, 1 late capture, no misjudged error | types, `ChargedOnce`, `OneOpen`, `TwoReadingsSuffice`, `NoLostAuthorization`, `PaidEndsHold` |
| `refunds` | a refund of half and one of all, the latter in cash, 2 goroutines, window 1, 1 unit refunded in the panel; errors after the refund was carried out | types, `NoDoubleRefund`, `FinalIsTrue`, `ReturnedWithinCapture`, `NumberedIsNotReviewed`, `RefundsResolve` |
| `inbox` | 2 deliveries, a webhook goroutine and a sweep, one retry, 1 intervention of a person | `ReviewHasIncident`, `Attended` |

What they show. `OneOwner`, `LeaseRespected` and the two refinements: whatever the
interleaving, one worker at a time can decide a row, and what a worker whose lease
was taken over writes has no effect. `AttemptBudget` and `NoEarlyDeath`: a job is
started exactly as often as its budget allows before it is buried. `Settles`,
`ShutdownEnds` and `Relayed`: nothing is left lying, and shutdown returns.
`AnyProcessCanResume`: no pending delivery is invisible to both the claim and the
reaper while all processes agree on the limit. `GivenUpAfterAllTries`: although
relays overwrite each other's counts, an event is never reported as exhausted before
it was published `outboxMaxAttempts` times; overwriting can only give it more tries.
`OnceIfTimely` is what is left of the promise of the idempotency package when leases
can run out: a response stored within its lease is the only one, for its TTL.

`ChargedOnce`: a creation that timed out or whose process died keeps the document
from being charged again until its fate is known. It holds while no error was misjudged,
and `charges_error_answer` shows what happens otherwise. `PaidEndsHold`: whichever way
the money is learned of, the transaction that counts the document as paid ends its hold,
unless another one overtook it (observation 13). `OneOpen` and
`NoLostAuthorization`: readings that arrive late, twice and in any order, beside a
cancellation that is being refused, do not take a payment back.
`TwoReadingsSuffice` evaluates the ledger's own `observe` twice in every reachable
state: whatever was recorded before, two readings of the job record a capture, at a
provider whose webhooks are not numbered (observation 11).
`NoDoubleRefund`, `FinalIsTrue`: the same refund may be asked for by its caller, a
retry and the job, and the answers of each may be lost or late; it is carried out
once, and what the ledger calls failed did not happen, but for the exceptions the
property names (observations 5 and 14). `RefundsResolve`: no refund
stays reserved without somebody who asks or is asked. `ReviewHasIncident` and
`Attended`: although workers overwrite each other's outcomes and counts, every
notification comes to rest, handled or before a person who has an incident.

Why these bounds are enough to be interesting. Two workers suffice for a takeover
and a late result; budget 2 separates the retry from the last attempt, budget 1
makes the first attempt the last; lease 1 lets a lease be live, about to expire and
over; two jobs with one key make `Retry` meet a newer job. Generations of a chain and
events of the outbox do not interact except through the goroutine or relay that
handles them, so one chain and one event carry the races; two events in
`EventOutbox` are beyond TLC and are left to the proofs. A poll that claims several
jobs under one token is left to the proofs of `Outbox` too, which hold for any
`BatchSize`. Four requests are the fewest that make `Reserve` use up its three tries.
Two attempts are the fewest for a second charge. The document's total is two units,
one attempt asks for one of them and the other for one or two, so that an attempt can
cover it alone, or two together and be recorded at once. An instance of `Charges` with a
misjudged error takes longer than a run should; the violation run has one, and the
theorems cover any number. The turns a payment can take are divided between the two
attempts. An instance in which either attempt may ask for one or two, and webhooks also
run in the goroutine that charges, passed as well.
One refund through the provider carries the races of its requests, and one in cash
competes for the amount; with one unit of every window the request is inside it, at
its end and past it. A larger instance of `Refunds` without liveness (in flight 1,
window 2, key life 3, requests of length 1) passed too, and so did `Inbox` with handlers
that report failed writes; they take longer than a run should. Two deliveries of one
notification are the fewest that share a payment's incidents.
The theorems of section 5 remove the bounds for the invariants they cover.

`CHECK_DEADLOCK FALSE` is used in the idempotency run only: there each request ends
and nothing is left to do.

Every property has a mutant (`PROJECT.json`): a variant of one definition with a
plausible bug (a dropped fence, an off-by-one, a missing condition of a WHERE
clause), under which TLC finds the property violated. The variants stand beside the
definitions they replace and are used nowhere else.

### Runs that show a disagreement

Three runs check a sentence of the repository's own documentation and TLC finds the
code violating it. The findings in `PROJECT.json` quote the sentences.

| run | sentence | what happens instead |
|---|---|---|
| `dispatch_mixed_limits` | any process can pick a pending row up | after a restart with a lower limit a waiting row is skipped by claim and reaper alike |
| `event_outbox_lost` | a crash after the committed write can no longer lose the event | the row is inserted after the commit, by a statement of its own |
| `charges_error_answer` | a definite error means nothing was created at the provider | an error after the creation fails the attempt too, and the buyer pays what is failed (`NothingCreated`) |

### Observations

Behaviours of the code met while modelling that a comment of the repository speaks
against or that a reader should know of. The first five and 12 to 15 were
counterexamples of properties in a stronger form; each property now names what it
excepts. All but the last two are about the payment packages.

1. *A lost capture.* `reconcile.go:26-27` promises that "a second consistent read
   applies the provider's status as an audited correction". A reading that
   contradicts the row raises a flag under an event id made of the payment and the
   status. If the flag is overwritten by another contradiction, or corrected away,
   the same reading is a duplicate ever after (`observe.go:154`) and the status is
   not applied. `TwoReadingsSuffice` excepts it as `FlagLost`.
2. *An old reading confirms an old webhook.* The second reading that corrects a row
   may itself be older than the row, so a payment can be opened again
   (`corrected` in `OneOpen`); the next readings repair it, unless observation 1
   applies.
3. *A second refused cancellation.* The refusal is recorded under an id that ends in
   `after|cancelling`; the second refusal of the same payment is a duplicate and the
   row stays `cancelling` until the status changes.
4. *A quiet organization.* `reconcile.go:31-33` re-asks pending refunds "so none
   stays reserved forever", but `Orgs` (`reconcile.go:330-337`) lists organizations
   by open, flagged or recent payments only. A pending refund of an old payment in an
   organization without others is not re-asked: `RefundsResolve` fails with
   `Busy = FALSE`.
5. *A caller's retry of a refund* does not ask whether the first request is still
   under way (only the job does). The first one's definite error can then fail a
   refund that the retry carried out (`overlapped` in `FinalIsTrue`).
6. *Cash refunds of a provider's payment* raise the refunded total above the
   provider's; the job's readings flag this as reversed refunds and correct it down.
7. *Panel and cash refunds* are compared with the captured amount by their maximum
   and not their sum (`Refundable`), so together they can exceed it; and a process
   that dies between a refund's success and `applyRefunds` leaves the payment's total
   behind until the next reading.
8. *A duplicate of a failed notification.* `store.go:216-218` says "a provider's retry
   of a failed delivery must be processed". A retry that arrives while the first
   delivery is under way is stored as `duplicada`, and such a row counts as a twin
   itself: when the first delivery then fails, every further retry within the window
   is taken for a duplicate. The sweep still runs the first one again.
9. *An incident closed between two writes.* One worker opens the incident of a row
   under review, another of the same payment closes it as handled and writes, then
   the first writes: a row under review without an open incident (`answered` in
   `ReviewHasIncident`). And an incident opened under the notification's own id stays
   open when a later attempt learns the payment and closes under that.
10. *Attempts are counted by `Resolve` only*, so a notification whose handler ends the
    process every time is retried for ever, and a slow `Resolve` can bring a finished
    row back to `reintentar`.
11. *Numbered webhooks and a long history.* A correction opens a payment again under a
    flag whose id is used up by it. With webhooks that carry event ids a status has two
    ids, one of the webhooks and one of the readings, so a payment can be opened twice,
    and the third `paid` then meets both rows of its id (`observe.go:154`). Ten delayed
    readings do it, as a fold of `observe` shows: from `pending`, paid, failed (webhook),
    failed, authorized (webhook), authorized, paid, failed twice, authorized twice; the
    row is `authorized` and further readings of `paid` are duplicates. Without numbers a
    payment is opened again at most once, and this cannot happen (`TwoReadingsSettle`).
12. *A cancellation learned from a reading.* `docs/RFC-PAYMENTS-STANDARD.md:424` says
    "Al pasar a `cancelling` se guarda `cancelled_from`; una re-lectura de un estado
    abierto anterior a ese es `stale`." Only `Cancel` saves it (`charge.go:424-425`).
    When a reading brings an authorized payment to `cancelling` (a cancellation made at
    the provider, or one whose answer was lost), `applyOutcome` leaves it empty
    (`observe.go:211-214`), and a late `at_device` is then applied. `Authorized`, and so
    `NoLostAuthorization`, counts a `cancelling` row only with its `cancelled_from`.
13. *Two captures at once leave the hold.* `docs/RFC-PAYMENTS-STANDARD.md:425` says
    "Cuando el documento queda pagado completo ..., el hold vivo pasa a `consumed`."
    `observe` locks the payment's row and not the document (`observe.go:101-102`), so
    two transactions that record the halves of a total each read the other half as not
    paid (`charge.go:154-168`), and the hold stays until it expires; the same goes for a
    hold taken after the UPDATE found none. It needs two payments under way at once,
    that is one given up and captured late, misjudged (14), or opened again by a
    correction.
    `PaidEndsHold` excepts the commit of an `Overtaken` transaction.
14. *Errors after the provider acted.* What `charges_error_answer` shows of charges
    holds of refunds too: `refund.go:169-187` fails a refund whose first request ended in
    an invalid output or a panic after the money was returned. Its amount is free for
    another refund (`misjudged` in `FinalIsTrue` and `ReturnedWithinCapture`). And a
    payment failed like that has no reference, so its readings are taken for the next
    attempt's (`misjudged` in `TwoReadingsSuffice`).
15. *A replay of pending rows.* `ledger.go:501` says "Replay re-queues terminal
    deliveries", but `ReplayFilter.Statuses` may name any status. A caller that names
    `pending` gets a second generation beside a live first one (the condition of
    `OneLiveGeneration`).
16. *The not-ready streak.* `delivery.go:89-90` says NotReadySince is "when the
    subscriber first answered "not ready" in the current streak". When the wait is over,
    the first not-ready failure that counts is rescheduled with it cleared
    (`ledger.go:380`), so the next not-ready answer opens a new wait: a module that never
    loads is awaited once per attempt, not once.

### Windows the protocols leave open

The models contain the following behaviours; they are the usual windows of
at-least-once protocols and no property of the project forbids them.

* A job whose heartbeats fail runs beside its successor (`outbox`); only its result
  is fenced.
* The reaper of `dispatch` ends a row whose lease was renewed after the reaper read
  it: it compares the token, not the lease.
* A process that ends between the dead write and the publication of the dead-letter
  event loses the event.
* A relay runs the plain subscribers again when the publisher died, or had not yet
  written `fanned_out`, when the row was read; and a relay or publisher still at work
  may stamp a row that was reported as exhausted, or make it due again.
* The observer of a delivery (`dispatcher.go:339`) is called after the write and not
  called if the process ends there; `ForgetDeliveries` between the rows of one
  `Replay` leaves successors of forgotten rows.
* A handler that outlives its reservation, or whose response could not be stored,
  does not keep a retry with the same key from running.

## 4. Fairness

Liveness is checked under weak fairness of what the Go scheduler and the loops
guarantee: time passes, handlers return, a goroutine that has a result writes it or
fails to, tickers of a running process fire. Claims need strong fairness per job
(`SweepFor(r, {i})`, `PollFor(r, {j})`): the code orders due rows by their instant,
so the oldest is taken as soon as a slot is free again and again, an order the model
does not keep. `EventOutbox` needs strong fairness of `RelayRecords`: a database
that refuses every update of a relay for ever keeps the row for ever. Nothing is
assumed of heartbeats, of results being written successfully, of restarts or of
publishers; every liveness property says instead "provided some process eventually
stays up". `Refunds` assumes that a goroutine of the job goes on, that the job
comes to every refund it lists as due, and that it does not die at the same point of
it every time. `Inbox` assumes the same of the sweep, and that eventually the process
and the database stay up; nothing is assumed of webhook goroutines or of people.
`Charges` has no liveness property: whether a payment ends is the provider's choice.
`dispatch_live` leaves out the outcome of a capability provider that is
down: while it lasts, attempts are refunded without limit, by design.

## 5. Proofs

All proofs hold for every number of jobs, deliveries, replicas, slots, requests,
events, relays, attempts, refunds, notifications and goroutines, from the named
assumptions on the constants only. Every safety property that a passing run checks is
proved, the action properties and the two refinements included.

`OutboxProofs`: `TypeCorrect`, `BudgetKept`, `SingleOwner`, `SnapshotValid`,
`LeaseFence`, `DeathIsEarned`. The inductive invariant is
`TypeOK /\ AttemptBudget /\ OneOwner /\ SnapshotCurrent`. The budget is not
inductive alone: `claim` does not compare the attempts of pending rows, so it rests
on `finish` never leaving a pending row without budget, and `finish` decides on the
attempts it remembers from the claim; `SnapshotCurrent` says these are the row's
whenever the fenced write can succeed, and that in turn needs `OneOwner` and fresh
tokens. `LeaseFence` and `DeathIsEarned` are action properties from the same
invariant. `KeysUnique` (`OneLivePerKey`) needs one more step: `Retry` brings a dead
job back only if its key is free, and nothing else makes a row live. `RefinesQueue`
shows that `Outbox` implements `LeasedQueue`, one lemma for each action of the queue
and one for the steps that stutter. A poll that claims a batch is one step of the
queue, which takes sets; `SnapshotCurrent` is what makes the decision of `finish` the
decision the queue would take.

`DispatchProofs`: `TypeCorrect`, `SingleHolder`, `LettersTellTheTruth`
(`DeadLettersAreDead`), `SingleGeneration` (`OneLiveGeneration`), `ResumedByAny`
(`AnyProcessCanResume`), `RefinesQueue` (`ImplementsQueue`). `SingleGeneration` is for
callers that do not replay pending rows: then a generation is born when the one before
it has ended, and no step brings an ended row back. The fence is
`OneHolder /\ SnapshotCurrent`, on fresh tokens as in `Outbox`. The limits rest on it
through `LimitKept`: a row nobody holds has an attempt left, a held one is within the
limit, and a row whose token a reaper still remembers from its read has spent its
attempts, so the reaper, which compares tokens alone, buries no row that has one left. `ResumedByAny` and
`RefinesQueue` assume `OneLimit`, that all processes were wired with one
`maxAttempts`; the run `dispatch_mixed_limits` shows that they must.

`IdempotencyProofs`: `TypeCorrect`, `Exclusive` (`OneInLease`), `Once`
(`OnceIfTimely`), `ResponseKept` (`StoredKept`). `OneInLease` needs
`Backed`: the row of a key lets nobody in for as long as the lease of the request
that reserved it lasts, being that reservation or a response that a late request
put in its place. That a late, unfenced response is harmless to the exclusion is
where `Lease <= TTL` is used. `OnceIfTimely` needs `Remembered`: a response stored in
time, or a later one over it, is in the table for as long as it is to be remembered;
that the one who stores it was alone in its lease is `OneInLease` again.

`EventOutboxProofs`: `TypeCorrect`, `NothingDropped` (`KeptUntilRecorded`),
`NothingPremature` (`OnlyCommitted`), `FlagIsTrue` (`FlagMeansRan`), `GivenUpEarned`
(`GivenUpAfterAllTries`). The invariant says what everybody who remembers something
may rely on: a bus call is for a committed change and its results are true
(`CallOK`), a row relays can see belongs to a committed change (`RowOK`), a row as a
sweep read it had an attempt left (`SnapOK`), and no count, in the table or in a
relay's memory, exceeds the publications relays made. That suffices although rows
change between the read and the write, because commitment, the ledger, the runs of
subscribers and the publications only grow (`Grows`): a stale count can be too low,
never too high.

`ChargesProofs`: `TypeCorrect`, `SingleOpen` (`OneOpen`), `ChargedAtMostOnce`
(`ChargedOnce`), `ReadingsFindTheirRow`, `AuthorizationKept` (`NoLostAuthorization`),
`CoveredEndsHold` (`PaidEndsHold`), `TwoReadingsSettle` (`TwoReadingsSuffice`). The
first group of lemmas is about the lattice: what the search of `Reachable` can and
cannot come to from an authorization or from an end (`SearchStays`, `PastAuthorized`,
`PastEnd`), and from it what each reading does to a row (`Classified`, `Effect`). The
invariant then speaks of the two sides of the wire. What the provider has was charged
and has a row (`SentHasRow`), and a reading under way that says a payment ended without
money is still true, late captures aside (`ReportsTrue`, `WorkTrue`). The rest,
`Faithful`, holds while no error was misjudged, and a misjudged attempt stays so
(`MisjudgedStays`): only the newest attempt can be without a reference, and it is open
while it is (`Unconfirmed`), so a reading finds its own row; no late reading closes an
attempt that may yet bring money (`LiveKept`); and what may bring money fits the total
(`LiveWithin`), because
`StartCharge` adds an attempt only when none is open and then the live ones are the
paid ones. `ChargedOnce` alone says nothing of requests on their way and is not
inductive. `CoveredEndsHold` compares what a transaction remembers of the paid total
with what it is at its commit. `TwoReadingsSettle` needs the history that a row keeps in the ids of its
events (`Traced`): the flag that opens a payment again is raised under an id that
stays, so it is raised once, and an open payment has not been closed twice by the same
status; its reading is therefore never taken for a duplicate. The property is about
webhooks without numbers; observation 11 is why.

`RefundsProofs`: `TypeCorrect`, `RefundedOnce` (`NoDoubleRefund`), `FinalStatusTrue`
(`FinalIsTrue`), `NeverOverRefunded` (`ReturnedWithinCapture`), `ReviewedUnnumbered`
(`NumberedIsNotReviewed`). That a key is carried out once rests on `PostYoung`: a
request on its way, waited for or adrift, is no older than the window and the time it
may take, so the provider still remembers its key; this is where `WindowsFit` is used. That a failed
refund did not happen rests on `FirstAlone` and `FirstUnknown`: only a definite error of
a first request fails a refund, and while it is out nobody else asks, unless a caller's
retry overlapped it; an error that came though the request was carried out, or is adrift,
makes the refund `misjudged`. `Within` says that what the ledger has promised or returned fits
the payment; what the provider returned is part of it.

`InboxProofs`: `ReviewedIsAnnounced` (`ReviewHasIncident`) and `RetriesHaveWaits`, that
the index into the table of waits is never past its end. Claims are not fenced, so the
invariant is about the workers: an outcome for a person that is about to be written has
its incident, or another worker's outcome has closed it since (`AnnouncedWork`).

`SumProofs`: the community module folds over a set by a recursive function. Its
existence, and what adding, removing and joining elements does to the sum, is proved
by a smallest counterexample among the subsets of a finite set, because the induction
theorems of the library cannot be instantiated by the installed provers. The sets of
attempts and of refunds are assumed finite, as the keys, bounded strings, are.

Only model-checked: the liveness properties `Settles`, `ShutdownEnds`, `Relayed`,
`RefundsResolve` and `Attended` (fairness and ENABLED are beyond the prover). The
three runs that show a disagreement are counterexamples and have nothing to prove.

## 6. Not modelled

Of the components above that are modelled in part: the reconciliation job's lease
(the model lets any number of jobs run, which is what the lease avoids and correctness
does not rest on), several providers of one document, payments found by a session id,
disputes and updates of kind refund, currencies and decimal amounts, the closing of
shifts (`Settle`, a pure sum), the HTTP handlers and their validation.

The map covers a small share of the repository's lines, and will: the largest
packages (`manifest`, the CRUD service of `dynamic`, `agent`, `runtime/wasm`,
`dataload`) describe, validate, load and transport data, and each request is one
transaction or a pure conversion of large records. A model of a validator of
independent field rules would repeat the rules. What is left of protocols is in the
plan.

## 7. Plan

1. Done: `LeasedQueue`, `Outbox`, `Dispatch`, `EventOutbox`, `Idempotency`,
   `Charges`, `Refunds` and `Inbox`, each with proofs of its safety properties.
2. Proofs left: the safety part of what the liveness runs assume (that the step a
   property waits for is enabled whenever it should be, stated without ENABLED); what
   the reaper of `Outbox` and the relay of `EventOutbox` never do to a row that is done,
   as action properties.
3. `EventOutbox` composed with the ledger of `Dispatch`: at-least-once delivery from
   the committed write to the subscriber. An abstract payment that `Charges`
   implements.
4. `cachecoherence` (epochs and watchers; `cachecoherence.go:376` publishes the new epoch
   although an invalidator failed), `runtime/flow` and `automation`
   (suspension and resumption), `installer` (compensation), `licensing` (grace),
   `notifications` (bounded queue), `legacybridge` (leases and checkpoints).
5. `money` allocation and `preset` flattening against reference definitions.
