# Formal models of the Core (event hub)

The Core receives events from the modules of a municipality, records each one,
delivers a copy to every subscribed module through RabbitMQ, retries what the
modules reject and keeps what it could not deliver for an operator.  This
directory holds TLA+ models of that program, the TLC runs that check them and
TLAPS proofs about them.  `src/backend/app` is abbreviated `app/` below.

## The system

| Component | State it keeps | Operations | Talks to |
|---|---|---|---|
| Ingestion and routing (`app/services/event_hub_service.py`, `app/workers/inbox_worker.py`, `app/api/v1/events.py`) | `event_log`, `event_types`, new rows of `deliveries`, `dead_letters` of rejected events | `ingest`, `_route`, `_publish_to_queue`, `_reject`, `record_malformed`, `reprocess` | registry (reads), broker (publishes), delivery service (calls `reprocess`) |
| Delivery cycle (`app/services/delivery_service.py`, worker loop, `app/api/v1/dlq.py`) | `deliveries`, `dead_letters`, `retry_audit` | `handle_dlq_message`, `process_due_retries`, `retry_dead_letter`, `retry_many`, `discard_dead_letter` | broker, database, operators |
| Broker adapter and topology (`app/messaging/*`) | connection, channel, declared exchanges and queues | `connect`, `declare`, `publish`, `consume` | RabbitMQ |
| Registry (`app/services/registry_service.py`, `app/models/registry.py`) | `modules`, `event_types`, `subscriptions`, `publications` | register, update, declare, set schema, subscribe, unsubscribe, publish/remove a publication, apply topology | broker (declares queues), ingestion |
| Database session (`app/core/database.py`) | one transaction per request or message | load, flush, commit, rollback | PostgreSQL |
| Retry policy (`app/services/retry_policy.py`) | none | `delay_for`, `exhausted` | delivery cycle, topology (tiers) |
| Envelope and validation (`app/services/envelope.py`, `validation.py`) | none | `model_validate`, `validate_data` | ingestion |
| Accounts (`app/services/auth_service.py`, `user_service.py`) | `users`, failed logins, API keys | login, tokens, create, update, delete, rotate | API |
| Alerts and statistics (`app/services/stats_service.py`) | none | `integration_alerts`, similar names | registry, log (reads) |
| Catalogues (`app/services/catalog_service.py`) | `zonas`, `barrios`, items | create, update | seed |
| Start-up (`app/main.py`, `app/workers/inbox_worker.py`), seeds, deployment | processes, connections, consumers | `lifespan`, `main`, `start_consumers`, `run` | database, broker |

How they interact.  One worker process runs handlers of `core.inbox` (prefetch
16) and of `q.dlq` (prefetch 8) and, every 30 s, a scan of the due retries; the
API runs requests of producers, operators and administrators.  Nothing is
shared but the database, under READ COMMITTED and without row locks or version
columns, and RabbitMQ.  SQLAlchemy flushes the columns whose value changed
since they were loaded (`autoflush=False`), so two transactions that loaded the
same row overwrite each other column by column.  A message leaves for RabbitMQ
before the transaction that records it commits.

What makes it correct, by component:

- *Delivery cycle*: a routed delivery is always somewhere; the attempts are
  bounded; one place at a time answers for a delivery; a resolved dead letter
  stays resolved; every delivery ends with its consumer or an operator.
- *Ingestion*: a message leaves evidence; an eventId has one row and no second
  effect; a rejected event can be acted on; the log's outcomes are final; no
  handler waits for ever.
- *Registry*: every active subscription has a queue that is declared; owners
  keep what they declared; what was cancelled stays cancelled; alerts are exact.
- *Start-up*: a broker that was down does not leave the worker without consumers;
  delays are tiers that exist; health is honest.
- *Accounts*: a team keeps an active account; locks and counts of failed logins hold.
- *Catalogues*: codes and ids are for ever; edits survive each other and the seed.

What is hard to test is the list `hazards` of `PROJECT.json`, each at its line.

## Modules

| Module | Models | Kind |
|---|---|---|
| `DeliveryPromise` | what the hub promises for a delivery: NEW, TRAVELLING, PARKED, SETTLED | abstract |
| `DeliveryCycle` | the delivery cycle: copies in RabbitMQ, rows, dead letters, sessions | detailed |
| `MCDeliveryCycle` | symmetry for its runs | instance |
| `DeliveryCycleProofs` | theorems about `DeliveryCycle`: types, attempts, final letters | proofs |
| `EventHub` | what the hub promises about an event: outcome and receivers | abstract |
| `Ingest` | the pipeline from a published message to `event_log` | detailed |
| `MCIngest` | events, messages and types of its runs, symmetry | instance |
| `Registry` | modules, event types and owners, publications, subscriptions, queues, alerts | detailed |
| `Startup` | the API and the worker that start and die around `Registry` (EXTENDS it) | composition |
| `Accounts` | accounts of the teams, logins and the lock | detailed |
| `Catalogue` | zonas, barrios and items, and the replicas that seed them | detailed |
| `MCRegistry`, `MCStartup`, `MCAccounts`, `MCCatalogue` | the values of their runs | instance |
| `AccountsProofs` | theorems about `Accounts` | proofs |
| `RegistryProofs` | theorems about `Registry` | proofs |
| `CatalogueProofs` | theorems about `Catalogue` | proofs |
| `CustodyProofs` | who answers for a delivery in `DeliveryCycle`: none is forgotten, audits, open letters and custodians are in step (EXTENDS `DeliveryCycleProofs`) | proofs |
| `IngestProofs` | theorems about `Ingest` | proofs |
| `HubProofs` | that `Ingest` implements `EventHub` (EXTENDS `IngestProofs`) | proofs |
| `StartupProofs` | theorems about `Startup`, and what restarts keep of the registry (EXTENDS `RegistryProofs`) | proofs |

### DeliveryCycle

| State | Code |
|---|---|
| `row` | `deliveries.status`, `attempts`, `next_retry_at IS NOT NULL`; `NoRow` before the event is routed |
| `letters` | the statuses of the delivery's `dead_letters`, in the order they were opened |
| `audits` | how many `retry_audit` rows with mode AUTOMATIC |
| `place`, `target` | each copy of a message: `queue` (the module's queue), `waiting` (a tier with a TTL), `dlq` (`q.dlq`) |
| `session` | a transaction in progress: what it loaded, what it will write, the message it has not acknowledged |
| `consumed`, `dropped` | observations: the consumer acknowledged a copy; RabbitMQ discarded one nacked out of `q.dlq` |

Actions: `Route` is the committed first publish; `HandleDlqMessage`,
`ScheduleRetry`, `DlqCommit`, `DlqAck` are the steps of `_handle_dlq` between
its awaits, `DlqCrash` and `DlqFail` its failures; `DueRead`, `DuePublish`,
`DueCommit` those of `process_due_retries`; `OpenRequest` with `RetryPublish` or
`DiscardLoad` and `RequestCommit` an operator's request.  `Commit` writes only
the columns a session changed (`Flush`), which is how updates are lost.
Consumers and RabbitMQ's own moves are external.  `Publish` has three outcomes:
it succeeds; it fails (broker down, or the message is refused); it fails for
the caller although RabbitMQ has the message (the confirm was lost).

`RowsExclusive` is no part of the code: with TRUE, a session does not load a
delivery another session is working on.  It separates what holds in every
schedule from what holds only while nobody overlaps.

### Ingest

| State | Code |
|---|---|
| `known`, `strict`, `received`, `subscribed` | `event_types` rows, those with a `json_schema`, `total_received`, active subscriptions of active modules |
| `log`, `delivery`, `letter` | row of `event_log` (and whose body it has), its `deliveries`, its dead letter SCHEMA_VIOLATION |
| `strays` | dead letters of messages that match no delivery, and of unreadable ones |
| `message`, `answers` | where each published message is; the HTTP answers its producer got |
| `published`, `returned`, `dropped` | copies ever put in a module's queue; copies and messages in or out of `q.dlq` |
| `session` | a transaction of a worker, request or operator |

A transaction reads at one step what it later decides on: `Begin` looks the
eventId up, `FindType` or `MissType` the type, `CreateType` and `Insert` flush
rows that unique indexes guard, `Route` reads subscriptions and deliveries,
`PublishTo` publishes to one subscriber, `Answer` sends the HTTP response and
only then `Commit` makes it visible (`get_session` commits after its `yield`).
`MayFlushType` is PostgreSQL's wait for the transaction that wrote the same
`event_types` row.  `Raise` is a database error, after which `_on_message`
nacks the message into `q.dlq`; `Crash` leaves it to be redelivered.
`OpenLetter`, `Revalidate` and `CommitReprocess` are `reprocess` called from
`retry_dead_letter`.  A delivery's life after it was committed is left to
`DeliveryCycle`: here a delivery is DELIVERED or RETRYING as first written.

### Registry

| State | Code |
|---|---|
| `type` | row of `event_types`: `owner_module`, `discovered`, who wrote `json_schema`, `total_received` |
| `status` | `modules.active`; ABSENT before the module is registered |
| `published`, `subscription` | rows of `publications` and `subscriptions` (ACTIVE or PAUSED: `active`) |
| `queue`, `brokerUp` | queues of modules that RabbitMQ has; whether it answers |
| `owed` | observation: modules reactivated, seeded, or refused by the broker since a declaration named them |
| `request` | a request in progress: what it loaded, what it will write, whether it found no type, whether another deleted its row |
| `seeding` | the seed in progress: the rows of `event_types` it loaded, what else it found missing |

A request loads rows and passes its guards in one step (`create_module` ...
`delete_publication`, named after the endpoints, each calling the operator named
after the method of `RegistryService`), flushes its insertions and applies the
topology in `Flush`, and writes in `Commit`.  A subscription or a publication of a
type that was not there goes through `declare_missing` first: `declare_event_type`
looks the type up a second time, with no actor to ask whether it owns it.
`Inserts`, `Pending` and `Taken`
are the unique indexes: an insertion waits for the transaction that holds its
key and fails if that one committed.  `Written` writes the columns that changed
since they were loaded; `Stale` is the UPDATE of a deleted row, which matches
none and ends the request.  `get_or_create` is the hub.  `seed` is
`python -m app.seeds`, in one transaction of three steps that others interleave:
it loads the types (`SeedLoads`), inserts the missing ones and looks for modules
and pairs (`SeedFlushes`), and writes owners, modules, publications and
subscriptions (`SeedCommits`); it may fail at each (`SeedFails`).  `integration_alerts` the five kinds of alerts that look
at types, senders and receivers.

### Startup

EXTENDS `Registry` and adds the two processes: `stage` (how far `lifespan`,
`main` or `start_consumers` has got), `names` (the queue names it read and will
declare), `ladder` (the `RETRY_DELAYS` it started with), `connected`,
`consuming`, and what RabbitMQ keeps: `base` and the retry `tiers`.
`SeedOnStartup`, `connect_broker`, `lifespan_topology` and `start_consumers` are
the steps between awaits; the seed takes its own steps, may be off
(`SEED_ON_STARTUP`) and, when it fails, is swallowed, and the start goes on; `Die` is what a process that ends takes with it;
`Request` is a request of `Registry` served by a running API, which connects an
API that started without RabbitMQ (`_require_channel`).  `settings` are
`BROKER_REQUIRED` and `RUN_WORKER`.

### Accounts

`account` is the row of `users` by email (exists, `active`,
`failed_login_attempts`), `request` a unit of work, with two observations:
`alone` (no request about the same team overlapped with it) and `gone`.
`create`, `update`, `set_password`, `delete` are `UserService`'s methods,
`login` and `failed_login` the two ends of `AuthService.login`; `Commit` writes
the columns that changed.  `record_failed_login` commits by itself in the code;
nothing of the request follows it, so it is one commit here as well.

### Catalogue

`row` is a row of a catalogue by its code, with who inserted it as its `id`;
`replica` is how far the start of an API replica has got and which codes its
seed found missing: it reads the zonas (`SeedReads`), flushes them
(`SeedFlushes`, which waits for another seed that holds one of them and is
rolled back if that one committed), and commits everything or nothing
(`SeedCommits`).  A replica may start without its seed (`SEED_ON_STARTUP` off), and
a seed may fail at any step, the database not accepting connections among the
reasons (`SeedFails`): `lifespan` swallows it and the replica serves.

## Runs

Every bound is a CONSTANT named in its module: `Copies`, `MaxFaults`,
`MaxManual` (requests of operators), `MaxEdits`, `MaxNacks`, `MaxReprocess`,
`MaxRequests`, `MaxEvents`, `MaxSeeds`, `MaxCrashes`, `MaxOutages`, `MaxStops`.
`CHECK_DEADLOCK FALSE` is set in the safety runs because a hub with no messages,
no faults left and nobody asking for anything really rests.

| Run | Question | Bounds, and why they suffice |
|---|---|---|
| `cycle_overlap` | do attempts stay bounded and is no delivery forgotten, however sessions overlap? | 1 delivery, 2 handlers, 2 scans, 1 operator, 1 fault of any kind but a refusal, 3 copies, 2 attempts: two sessions of each kind are all that can conflict over one row, deliveries are independent |
| `cycle_calm` | who answers for a delivery? are letters, audits and rows in step? is anything left of a delivery that is over? | 2 deliveries, 2 sessions of each kind, 3 requests, 2 refused publishes, no overlap on one delivery: a delivery may be refused twice, or each of two once |
| `cycle_promise` | does every delivery end somewhere, and does the cycle implement `DeliveryPromise`? | 1 delivery, a handler, a scan and an operator that overlap on it, 1 outage, crash or lost confirm, 4 copies: two copies of the delivery may be under way and one more be rejected |
| `ingest_faults` | is there evidence of every message? | 3 messages of 2 events, one unreadable; a worker, a request and 2 operators; 1 fault of any kind, 1 edit, 1 nack |
| `ingest_calm` | at most one copy per eventId? does the log implement `EventHub`? | 2 workers, a request and an operator, 2 messages of one event, 2 modules, an outage, 2 edits |
| `ingest_drains` | is every message handled in the end? | 2 workers and a request on 2 messages, 2 faults |
| `registry_owners` | who may change what, do stale rows win, do active subscriptions have queues, do the alerts tell? | the administrator and 2 modules (symmetric: both consume, the Core publishes), 1 type (types are independent), 2 requests that overlap, 1 event, 1 seed in its steps, any number of outages: a conflict takes two requests, and the seed or the hub is a third |
| `startup_queues` | are queues and tiers there, is health honest, is `core.inbox` consumed in the end? | 1 module, 1 type, 3 requests one after the other, 1 seed that may fail or be killed at any step, 1 crash, 1 outage, two ladders of which each has a delay the other lacks, three deployments |
| `accounts_overlap` | can a team lose its access, a count pass the limit, a lock come undone? | 2 accounts of one team and the administrator's team, limit 2, 2 requests at a time and 5 in all: a lock takes two failures, a reactivation and an overlapping pair the rest |
| `catalogue_replicas` | are codes reused or edits undone, does a seed leave half of itself, do all replicas serve? | 2 replicas whose seeds overlap and may fail, 1 stop, 2 requests, a zona and a barrio of the seed and others that are not |

Two runs show disagreements between the code and what its comments and
docstrings say (`findings` of `PROJECT.json` quotes both):

| Run | What TLC finds |
|---|---|
| `cycle_race` | a due scan's commit erases the retry that the handler of the copy it published has just scheduled; needs a refused publish in between |
| `startup_idle` | an API that consumes by itself and starts while RabbitMQ is down never consumes |

`OneCustodian` and `OpenLettersAreDead` are checked without crashes on purpose:
after a crash a redelivered copy travels beside the one that replaced it and
opens a second letter (see `hazards`).  `AttemptsAudited` counts the attempts of
a scan whose publish failed, which are not audited, by the faults spent: that
bound says nothing during an outage, which fails any number of publishes, so
there are none in `cycle_calm`.  `NeverForgotten`
holds with overlaps (`cycle_overlap`) or with refused publishes (`cycle_calm`)
but not with both (`cycle_race`).  In the same way `InboxConsumed` holds of the
deployments of `startup_queues` and not of the one of `startup_idle`.

Definitions named `*_off_by_one`, `*_without_letter` and so on are the mutated
forms `PROJECT.json` lists under `mutants`: bugs this code could have, each of
which breaks a property.

## Divergences

What else the models show of this code against its documents.  Each is
reproduced with the definition and the constants named here, and stated as a
clause of a property where one covers the rest.

- `NothingLost` (`DeliveryCycle`) does not hold once `FaultKinds` has
  `"database"`: `_on_message` nacks a message of `q.dlq` whose handler raised,
  and `q.dlq` has no dead letter exchange (`rabbitmq.py:123`,
  `topology.py:119`), so RabbitMQ discards it; `delivery_service.py:6` says the
  failed messages must not be lost.
- `LettersFinal` does not hold with two operators who overlap on one delivery
  (`LettersApart` false): two requests that loaded a letter OPEN both resolve it (`delivery_service.py:269`, `417`; ADR-001
  line 16 says a resolved letter is not resolved twice).
- `MalformedIsMalformed` (`Ingest`) does not hold with two workers: of two first
  events of an undeclared type the loser of the unique index is nacked and
  filed as MALFORMED_MESSAGE (`registry_repository.py:81`).
- `CorrectedIsAccepted` (`Ingest`) does not hold: a rejected event that is
  corrected and sent again with its eventId, as `docs/eventos.md:184` asks, is
  answered as a duplicate.
- A module that is reactivated does not get its queue until the next
  declaration (`update_module` applies no topology), nor does one subscribed by
  `python -m app.seeds`: both are in `owed`, and copies sent before are
  unroutable.
- `RetriesHaveQueues` does not hold with `{}` in `Ladders`: with an empty
  `RETRY_DELAYS` the policy gives 5 s (`retry_policy.py:55`) and `base_topology`
  declares no tier.
- `set_schema` by somebody who is not the owner succeeds on a discovered type
  and leaves it discovered; the owner who declares it later keeps that schema.
  Of two overlapping claims of an unowned type the last commit wins.
- `ClaimsStand` (`Registry`) does not hold: besides those two claims, a publication
  that found no type looks again in `declare_event_type` without an actor
  (`registry_service.py:323`), finds a type somebody claimed meanwhile and
  overwrites its owner (line 166), and a subscription clears its `discovered`
  (line 162); the docstring at 147-150 says that declaring is not free, and that
  only the owner touches a type's schema.  A seed that loaded the type before the
  claim overwrites the owner as well (`seeds/__main__.py:86`, `135`).
  `OwnersHold` says what is left: only who looked before the claim was there.
- A replica may serve without the catalogues and modules of the seed: `lifespan`
  swallows whatever the seed raises and goes on (`main.py:100-103`), so that
  nothing of the seed is certain in an API that answers; `SeedIsWhole` says that
  there is all of it or none.
- ROUTED is written, and answered, although every publish failed and the
  deliveries were deferred (`event_hub_service.py:253`); `models/events.py:22`
  says of it "Entregado a todas sus suscripciones activas".  In `RoutedIsBacked` a
  deferred delivery is enough.
- `test_usuarios.py:167` is named after a password change that unlocks the account,
  but what unlocks it in the test is a PATCH of `active`; `set_password` leaves
  the lock closed (`LockStays`).
- NO_SUBSCRIBERS counts subscriptions of inactive modules, to which nothing is
  routed (the last clause of `HolesAreAlerted`).
- The seed at every start restores cancelled subscriptions, removed publications
  and deleted initial accounts of the board (`CancelledStays`).
- Two deactivations that overlap leave a team without accounts, and of two
  failed logins that overlap one is not counted, or a login that loaded the
  account earlier resets the count and the account stays active past the limit
  (the clauses with `alone`).
- The due scan publishes the deliveries of a module that was deactivated.

## Fairness

`DeliveryCycle!Fairness`: RabbitMQ comes back after an outage, expires TTLs and
redelivers (weak fairness); consumers answer every message; the worker takes
messages of `q.dlq` and scans every 30 s oldest first, so what can be taken
again and again is taken (strong fairness, since broker outages and busy
sessions interrupt it); a started session takes its next step.  Nobody has to
publish and no operator has to act.  `Ingest!Fairness` is the same for
`core.inbox`; a session that waits for another transaction is served when that
one ends, hence strong fairness of `Pipeline`.  Both leave crashes and faults
bounded: a fault that happens for ever defeats any retry.

`Startup!StartupSpec`: `deploy/compose.yaml` restarts both processes
(`restart: unless-stopped`) and a start goes on to its end, hence weak fairness of
`Starting`; RabbitMQ, restarted as well, comes back (`Recover`).  Requests and
outages have none.  The seed of a start has its part in `Starting`: it ends, by its
commit or by a failure, because no transaction of a request is open before the API
serves.  `Catalogue!Spec`: a replica's `Lifespan` goes on, and an insertion that
waits is served when the other transaction ends; `SeedFails` has no fairness, no
seed has to fail.

## Proofs

`DeliveryCycleProofs` proves, for every set of deliveries, copies, handlers,
scans and operators, every bound and every set of faults, with
`DeliveryCycleAssumption` (disjoint kinds of sessions, `MaxAttempts > 0`, the
bounds are naturals) as the only assumption:

- `TypeCorrect == Spec => []TypeOK`;
- `AttemptsStayBounded == Spec => []AttemptsBounded`: a counter never passes
  `MaxAttempts + 1`, and a row that is scheduled is within `MaxAttempts`;
- `LettersStayFinal == Spec /\ []LettersApart => LettersFinal`.

`LettersApart` says that two operators' requests do not work on one delivery at
the same time; handlers and scans may overlap them and each other.  Without it
it is false (divergences).  It is a hypothesis about a behaviour, which nothing
in the code enforces: `OperatorsStayApart` proves it of a single operator, and of
the schedules with `RowsExclusive`.

`AttemptsBounded` is not inductive: a commit mixes columns computed from an old
row with columns another session wrote meanwhile.  The invariant proved is
`Bounded == TypeOK /\ AttemptsBounded /\ SessionsBounded`, where
`SessionsBounded` says of every pending change that it sets `next_retry_at`
only together with a counter within the limit, and writes a counter beyond the
limit only together with clearing the `next_retry_at` it loaded.  `Flush`
of such a change preserves `RowBounded` whatever the row has become; one lemma
per action shows that sessions keep such changes.

`LettersFinal` needs `HeldInv`: what each session has in hand (`InHand`), above
all that the letter an operator loaded is still open when the request commits,
because the commits of handlers and scans only append letters.

`CustodyProofs` proves, from the same assumption and `"refusal" \notin FaultKinds`
(with refused publishes and overlaps it is false, run `cycle_race`):

- `NothingForgotten == Spec => []NeverForgotten`.

`NeverForgotten` is not inductive either: the copy, the due row or the letter
that answers for a delivery now may be the one a session at work is about to
remove.  `CustodyInv` is `OrderInv` (a delivery without a row has no letters, was not
consumed and is no session's, a copy is in the hands of one handler, and a session
has a copy or a letter only of its own rows) with `RowsKept`, which asks for one
that survives the commits of all of them: a
copy that its handler has not replaced (`Carried`), a dead letter that no
operator who published a copy is going to close (`Filed`), or a due row with no
letters that every session leaves due or replaces by a letter (`Scheduled`).
`PublishStep` is where the absence of refusals counts: a publish that
put no copy met an outage, so no handler holds a copy any more, and the copies
are all back in `q.dlq`.  `CommitStep` is the proof for the commits of handlers,
scans and operators alike.

The module goes on with the other properties of run `cycle_calm`, each under the
assumption named here:

- `AttemptsStayAudited == Spec => []AttemptsAudited`, if `"outage" \notin
  FaultKinds`;
- `NothingForgottenApart == Spec /\ []RowsApart => []NeverForgotten`, with any
  faults, refused publishes among them;
- `OneCustodianAlways == Spec /\ []RowsApart => []OneCustodian` and
  `LettersStayDead == Spec /\ []RowsApart => []OpenLettersAreDead`, if
  `FaultKinds \subseteq {"refusal"}`.

`RowsApart`, that no two sessions work on one delivery, is again a hypothesis about
the behaviour: nothing in the code keeps sessions apart, and the divergences above
are what happens when they overlap.  `ExclusiveStaysApart` proves it of the
schedules of run `cycle_calm`, where `RowsExclusive` is TRUE.

`AuditInv` bounds every pending change, written or only loaded, by the audits there are now, which only grow; a scan at work means the broker is up, so
a publish that fails costs a fault.  `ApartInv` says that no two sessions have a
row in common and that the letter an operator loaded is therefore still open
when the request commits.  `KeeperInv` is about what each session at work is
going to leave: `OneKeeper` of the row, the letters and the copies after its
commit and acknowledgement (`Ready`), or of the present ones as long as it has
published nothing.  One lemma covers what a publish does to it, whichever session
publishes (`KeeperPublish`), and one the commits (`KeeperCommit`).  `AnswerInv`
asks less, that somebody will answer after each session's commit (`Answerable`),
and is kept by every fault: a crash redelivers the copy it did not acknowledge,
a rollback leaves the row that was due.

`AccountsProofs` proves the properties of `Accounts` for any emails, teams,
requests, limit and bounds, from `AccountsAssumption` (finitely many emails,
each of one team; a positive limit):

- `TypeCorrect == Spec => []TypeOK`;
- `LocksStay == Spec => LockStays`;
- `LimitsHold == Spec => ActiveWithinLimit`;
- `TeamsKeepAccess == Spec => TeamKeepsAccess`.

They are action properties that relate what a request loaded to what it writes
later, so the invariant `IInv` carries that relation: `Plausible` says what each
operation may write given the row it loaded, `OverlapsKnown` that of two
requests about one team that overlap both know, `AloneIsFresh` that a request
that is alone still finds the row it loaded, `AloneLeavesAnother` that if it
takes access away somebody else of the team is active (from the count of
`_assert_not_last_active`, by the cardinality theorems).  `Counted` bounds the
counts of failed logins by the requests served, which is what makes `TypeOK`
inductive.  `BeginKeeps` and `CommitKeeps` are the two halves of every request;
`OnlyCommitsChange` and `WhatCommitsWrite` reduce the three properties to one
commit.

`RegistryProofs` proves the properties of `Registry` for any modules, types,
requests, operations, board of the seed and bounds, from `RegistryAssumption`
(the administrator is a module; the board names modules and types; the bounds
are naturals):

- `TypeCorrect == Spec => []TypeOK`;
- `QueuesAreReady == Spec => []QueuesReady`;
- `DeclarationsStay == Spec => DeclaredStays`;
- `CancellationsStay == Spec => CancelledStays`;
- `OwnersKeepTypes == Spec => OwnersHold`;
- `HolesAlerted == Spec => []HolesAreAlerted`, which is a fact about
  `integration_alerts` in any state and needs no invariant.

What a request loaded and what it is going to write are again the point, and
`IInv` says how they agree with the tables at every step.  `UnitsConsistent`
holds what the guards established when the request began (who may change the
owner, or that the type was not there when it looked, that a module of a
subscription exists).  `FoundOrGone` says that a
request that found a subscription still has it or has been told that it is gone,
which gives `CancelledStays`.  `QueuesComing` says that a request that is going
to activate a subscription has declared the queue, is going to, or found the
module inactive; with `NamesHeld` (whoever registers a module holds its name, by
the unique index) and `SubscribersExist` (nobody subscribes for an absent
module) it makes `QueuesReady` inductive: without them a commit could activate a
subscription, or a module, whose queue nobody declared.  `Fresh` is what the
guards of every operation give a unit of work, so that there is one proof for
all beginnings (`BeginKeeps`), one for the second look (`DeclareMissingKeeps`), one
for flushes and one for commits.  `SeedRegisters` says that a seed at its last step
registers every module that is not there, so that it subscribes none that is
absent; `SeedCommitKeeps` is the proof for its commit.  `OwnersHold` is what
remains of ownership under these overlaps: `RegistryWrites` lists the steps that
write the types, and `OwnersStep` shows of each that it changes an owner or a
schema only for one who may or who looked before the claim.

`CatalogueProofs` proves the safety properties of `Catalogue` for any codes,
seed, replicas, requests and bounds, from `CatalogueAssumption` (the kinds of
codes are disjoint, the zona of a barrio of the seed is one of the seed):

- `TypeCorrect == Spec => []TypeOK`, with the zona of every barrio existing;
- `SeedsAreWhole == Spec => []SeedIsWhole`;
- `CodesStay == Spec => CodesForever`;
- `PatchesStay == Spec => PatchesCompose`.

`SeedIsWhole` follows from `SeedCovered`: a seed at its last step is going to insert
every code of the seed that does not exist, whatever requests and other seeds
inserted since it read, and nothing is ever deleted; so its commit, which is
refused if any of them was inserted meanwhile, leaves the whole seed, and every
other way it may end leaves nothing.  `ZonasCovered` (a seed inserts
the zonas of its barrios or found them) and `UnitsConsistent` (the zona a request
is going to write exists) carry the reference from a barrio to its zona.

`IngestProofs` proves safety of `Ingest` for any events, messages, types,
modules, workers, requests, operators, faults and bounds, from
`IngestAssumption` alone:

- `TypeCorrect == Spec => []TypeOK`;
- `EvidenceStays == Spec => []EvidenceKept`;
- `TrafficStays == Spec => []TrafficSeen`;
- `RoutedStays == Spec => []RoutedIsBacked`.

Its `IInv` adds three things.  `SessionsSound` says what a unit of work knows at
each of its steps: a session that records an event holds its type's row and is
the first, one that records nothing found the event recorded, and what it counts
as delivered was published.  `LocksExclude` is the row lock of `event_types`, on
which "the first" rests.  `LogBacked` says that what is in the log came in a
message of that event.

`HubProofs` proves, for any number of handlers and requests, any faults and any
edits, while no two operators work on the letter of one event (`TakeTurns`; one
who discards a letter while another retries it breaks `RejectedIsActionable`, and a
single operator, as in run `ingest_calm`, takes turns with nobody):

- `HubIsKept == Spec /\ []TakeTurns => HubKept`, the refinement of `EventHub`;
- `RejectedStaysActionable == Spec /\ []TakeTurns => []RejectedIsActionable`;
- `PublishedOnce == Spec /\ []TakeTurns => []NoDoublePublish`, if besides nothing
  fails but the broker (`Calm`): a crash, a rollback or a lost confirm repeats
  copies that are already in a queue.

`HubInv` adds to `IInv` that only a routed event has deliveries (`RoutedAlone`)
and what a session has decided (`Decided`): the status it is going to write
agrees with the deliveries it is going to write, and an operator at work has an
event whose letter is still open.  So every commit is one step of `EventHub`
(`RecordHub`, `RetryHub`, `DecideStep`) and every other step leaves the log and
the deliveries alone.  `OnceInv` adds that a session publishes to nobody twice
(`Ahead`) and that whatever was published is a delivery or belongs to a session
at work (`PublishedKept`); no other session can be at work on that event's
copies, because it would hold the same row lock (`PublishersExclude`).

`StartupProofs` proves, for any registry, deployments, crashes and outages:

- `ConsumersHaveQueues == StartupSpec => []RetriesHaveQueues`, if `{} \notin
  Ladders` (see the divergences);
- `HealthStaysHonest == StartupSpec => []HealthIsHonest`;
- `ProcessesTyped == StartupSpec => []StartupTypeOK`;
- `QueuesStayReady == StartupSpec => []QueuesReady`,
  `DeclarationsOutliveRestarts == StartupSpec => DeclaredStays`,
  `CancellationsOutliveRestarts == StartupSpec => CancelledStays` and
  `OwnersOutliveRestarts == StartupSpec => OwnersHold`: what `RegistryProofs`
  shows of requests holds when processes start, seed and die around them.

`StartupInv` adds that consumers come last: a process that consumes was connected
and had declared the topology with the ladder it started with (`HookedLast`),
and an API serves only after both (`ServesLast`).  `ProcessInv` adds that a
process whose consumers are hooked, or about to be, is connected
(`HooksConnected`), and that an API that does not serve has no request at work
(`RequestsServed`), so that the seed of a start waits for nobody.
`RegistryProofs`' `IInv` is kept as well: a start is a step of the seed, an
`apply_topology` of names read earlier or nothing to the registry, and a crash
rolls every request and the seed back; each request is a step of `Registry`, whose lemmas are cited.

Only model-checked: liveness (`Settles`, `InboxDrains`, `InboxConsumed`,
`ReplicasServe`, `PromiseKept`), which is out of the prover's reach, and
`SettledIsOver`.

## Not modelled

Payloads, texts, timestamps (the order of `next_retry_at` values is a choice of
any non-empty batch of due rows), pagination, the dashboard's queries,
formatting, logging, metrics and deployment.  The limit of 100 rows per due
scan: the batch is any non-empty subset.  `last_publish_at` of a module: no
property reads it.  Two messages with one eventId and different types: in
`Ingest` an event has one type, whose row serialises the transactions that
insert it.  `retry_many` is `retry_dead_letter` once per letter, in one
transaction; the model has one transaction per letter.  In `DeliveryCycle` and
`Ingest` every queue exists; whether it does is the question of `Registry` and
`Startup`.  Tokens, API secrets and their rotation, password hashes.
`max_attempts` and texts of a subscription; the description of a type.  The
alert about similar names (`_is_near_duplicate`), a pure function of two names
that its unit tests reach.  The in-memory broker of the tests.  `seed --drop`.
In `Accounts` the seed is one step, which requests may overlap with rows loaded
before it and written after; in `Registry` and `Catalogue` it has the steps of its
flushes.  Seeds that overlap each other are left to `Catalogue`: in `Registry` one
runs at a time.

## Plan

Done: `DeliveryCycle`, `Ingest` with their abstract specifications, `Registry`,
`Startup` (composed with it), `Accounts`, `Catalogue`.  Left, in this order:

1. Composition of `Ingest` with `DeliveryCycle`: the copy that is rejected
   before its delivery commits; and of `Registry` with `DeliveryCycle` for
   retries to deactivated modules.
2. `SimilarNames`: the bounded edit distance against its textbook definition.
