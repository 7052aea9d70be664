---------------------------- MODULE DeliveryCycle ----------------------------
(***************************************************************************)
(* The life of a delivery after the hub routed its event: the copies of    *)
(* the message in RabbitMQ, the row of the table "deliveries", its dead    *)
(* letters, and the three kinds of database session that rewrite them      *)
(* concurrently:                                                           *)
(*   - a handler of q.dlq          (worker, handle_dlq_message),           *)
(*   - a scan of the due retries   (worker loop, or an administrator's     *)
(*                                  POST /deliveries/process-due-retries), *)
(*   - an operator resolving a dead letter (retry or discard).             *)
(*                                                                         *)
(* The code takes no row lock and keeps no version column, so a session    *)
(* computes from the row it loaded and its commit writes the columns whose *)
(* value it changed.  Publishing happens between the load and the commit.  *)
(***************************************************************************)
EXTENDS Naturals, Sequences, FiniteSets

CONSTANTS
  Deliveries,    \* rows of "deliveries": one per (event, target module)
  Copies,        \* bound: copies of messages RabbitMQ holds at once
  NoCopy,        \* a value that is not a copy
  NoDelivery,    \* a value that is not a delivery
  DlqHandlers,   \* concurrent handlers of q.dlq (prefetch=8 in the code)
  Scans,         \* concurrent due scans
  Operators,     \* concurrent requests on the dead letters
  MaxAttempts,   \* max_attempts of the subscription, copied to the delivery
  RowsExclusive, \* TRUE: sessions that load the same delivery never overlap
                 \* (a lucky schedule; nothing in the code enforces it)
  FaultKinds,    \* the faults that may happen
  MaxFaults,     \* bound: how many faults happen
  MaxManual      \* bound: how many requests operators make

Sessions == DlqHandlers \cup Scans \cup Operators

ASSUME DeliveryCycleAssumption ==
  /\ MaxAttempts \in Nat \ {0}
  /\ MaxFaults \in Nat
  /\ MaxManual \in Nat
  /\ RowsExclusive \in BOOLEAN
  /\ FaultKinds \subseteq {"outage", "crash", "database", "confirm", "refusal"}
  /\ NoCopy \notin Copies
  /\ NoDelivery \notin Deliveries
  /\ DlqHandlers \cap Scans = {}
  /\ DlqHandlers \cap Operators = {}
  /\ Scans \cap Operators = {}

VARIABLES
  row,       \* delivery -> the committed row; status "NONE" before routing
  letters,   \* delivery -> states of its dead letters, oldest first
  audits,    \* delivery -> rows of retry_audit with mode AUTOMATIC
  place,     \* copy -> where RabbitMQ has it
  target,    \* copy -> the delivery it is a copy of
  session,   \* session -> its unit of work
  brokerUp,  \* the broker accepts publishes and serves consumers
  consumed,  \* delivery -> the consumer acknowledged some copy
  dropped,   \* delivery -> RabbitMQ discarded a copy nacked out of q.dlq
  faults,    \* faults still allowed
  manual     \* operator requests still allowed

database == <<row, letters, audits>>
broker == <<place, target, brokerUp, consumed, dropped>>
vars == <<database, broker, session, faults, manual>>

-----------------------------------------------------------------------------
DeliveryStatus == {"NONE", "DELIVERED", "RETRYING", "DEAD", "DISCARDED"}
LetterStatus == {"OPEN", "RETRIED", "DISCARDED"}
Places == {"free", "queue", "waiting", "dlq"}

\* The columns the cycle turns on; next stands for next_retry_at IS NOT NULL.
Row == [status : DeliveryStatus, attempts : Nat, next : BOOLEAN]
NoRow == [status |-> "NONE", attempts |-> 0, next |-> FALSE]

\* What one session is going to write for one delivery: the columns it loaded,
\* the columns it leaves, whether it opens a dead letter and adds an audit.
Change == [seen : Row, new : Row, opens : BOOLEAN, audits : BOOLEAN]

Write(seen, status, attempts, next, opens, audited) ==
  [seen |-> seen, new |-> [status |-> status, attempts |-> attempts, next |-> next],
   opens |-> opens, audits |-> audited]

Loaded(r) == Write(r, r.status, r.attempts, r.next, FALSE, FALSE)

Session == [pc : {"idle", "retry", "discard", "work", "ack"},
            rows : SUBSET Deliveries,             \* rows it works on
            todo : SUBSET Deliveries,             \* rows it has still to publish
            change : [Deliveries -> Change],
            copy : Copies \cup {NoCopy},          \* unacknowledged message
            letter : Nat,                         \* dead letter in hand
            resolve : LetterStatus]               \* its new state

Idle == [pc |-> "idle", rows |-> {}, todo |-> {},
         change |-> [d \in Deliveries |-> Loaded(NoRow)],
         copy |-> NoCopy, letter |-> 0, resolve |-> "OPEN"]

\* Variants named *_without_..., *_off_by_one and the like are faulty on
\* purpose: each is a bug this code could have, that a property must notice.
attempts_exhausted_off_by_one(attempts) == attempts > MaxAttempts

attempts_exhausted(attempts) == attempts >= MaxAttempts

\* Session rows that overlap are excluded only under RowsExclusive.
MayLoad(d) == RowsExclusive => \A s \in Sessions : d \notin session[s].rows

\* Only an OPEN dead letter may be retried or discarded.
Resolvable_unchecked(d, i) == TRUE
Resolvable(d, i) == letters[d][i] = "OPEN"

OpenLetters(d) == {i \in DOMAIN letters[d] : letters[d][i] = "OPEN"}

Fault(kind) ==
  /\ kind \in FaultKinds
  /\ faults > 0
  /\ faults' = faults - 1

-----------------------------------------------------------------------------
(* Publishing with publisher confirms.  ok is what the caller sees: a      *)
(* publish raises when the broker is unreachable, when it refuses the      *)
(* message (basic.nack), and when the confirm is lost although the broker  *)
(* holds the message.                                                      *)

PutCopy(d, where) ==
  \E c \in Copies :
    /\ place[c] = "free"
    /\ place' = [place EXCEPT ![c] = where]
    /\ target' = [target EXCEPT ![c] = d]

Publish(d, where, ok) ==
  \/ /\ ok
     /\ brokerUp
     /\ PutCopy(d, where)
     /\ UNCHANGED faults
  \/ /\ ~ok
     /\ \/ ~brokerUp /\ UNCHANGED faults
        \/ brokerUp /\ Fault("refusal")
     /\ UNCHANGED <<place, target>>
  \/ /\ ~ok
     /\ brokerUp
     /\ Fault("confirm")
     /\ PutCopy(d, where)

(* SQLAlchemy flushes the columns whose value changed since the load.  A   *)
(* next_retry_at is a fresh timestamp each time it is set, hence a change. *)
Flush(current, ch) ==
  [status   |-> IF ch.new.status # ch.seen.status THEN ch.new.status ELSE current.status,
   attempts |-> IF ch.new.attempts # ch.seen.attempts THEN ch.new.attempts ELSE current.attempts,
   next     |-> IF ch.seen.next \/ ch.new.next THEN ch.new.next ELSE current.next]

FlushLetters(d, s) ==
  LET resolved == IF s.letter \in DOMAIN letters[d] /\ s.resolve # "OPEN"
                  THEN [letters[d] EXCEPT ![s.letter] = s.resolve]
                  ELSE letters[d]
  IN  IF s.change[d].opens THEN Append(resolved, "OPEN") ELSE resolved

Commit(s) ==
  /\ row' = [d \in Deliveries |->
               IF d \in s.rows THEN Flush(row[d], s.change[d]) ELSE row[d]]
  /\ letters' = [d \in Deliveries |->
                   IF d \in s.rows THEN FlushLetters(d, s) ELSE letters[d]]
  /\ audits' = [d \in Deliveries |->
                  IF d \in s.rows /\ s.change[d].audits THEN audits[d] + 1 ELSE audits[d]]

-----------------------------------------------------------------------------
(* Routing: the committed effect of _publish_to_queue on a new delivery.   *)

first_attempt_unscheduled(published) ==
  [status |-> IF published THEN "DELIVERED" ELSE "RETRYING", attempts |-> 1, next |-> FALSE]

first_attempt(published) ==
  [status |-> IF published THEN "DELIVERED" ELSE "RETRYING", attempts |-> 1, next |-> ~published]

Route(d) ==
  /\ row[d] = NoRow
  /\ \E published \in BOOLEAN :
       /\ Publish(d, "queue", published)
       /\ row' = [row EXCEPT ![d] = first_attempt(published)]
  /\ UNCHANGED <<letters, audits, session, brokerUp, consumed, dropped, manual>>

-----------------------------------------------------------------------------
(* RabbitMQ and the target module.                                         *)

ConsumerAck(c) ==
  /\ brokerUp
  /\ place[c] = "queue"
  /\ place' = [place EXCEPT ![c] = "free"]
  /\ target' = [target EXCEPT ![c] = NoDelivery]
  /\ consumed' = [consumed EXCEPT ![target[c]] = TRUE]
  /\ UNCHANGED <<database, session, brokerUp, dropped, faults, manual>>

Move(c, from, to) ==
  /\ brokerUp
  /\ place[c] = from
  /\ place' = [place EXCEPT ![c] = to]
  /\ UNCHANGED <<database, session, target, brokerUp, consumed, dropped, faults, manual>>

\* A nack without requeue goes through muni.dlx to q.dlq.
ConsumerNack(c) == Move(c, "queue", "dlq")

\* The TTL of the tier's queue sends the copy back to the target's queue.
TtlExpire(c) == Move(c, "waiting", "queue")

\* Closing the connection requeues what the handlers had not acknowledged.
BrokerDown ==
  /\ brokerUp
  /\ Fault("outage")
  /\ brokerUp' = FALSE
  /\ session' = [s \in Sessions |-> [session[s] EXCEPT !.copy = NoCopy]]
  /\ UNCHANGED <<database, place, target, consumed, dropped, manual>>

BrokerUp ==
  /\ ~brokerUp
  /\ brokerUp' = TRUE
  /\ UNCHANGED <<database, place, target, consumed, dropped, session, faults, manual>>

-----------------------------------------------------------------------------
(* A handler of q.dlq.                                                     *)

Held(c) == \E h \in DlqHandlers : session[h].copy = c

exhaust_without_letter(r, attempts) == Write(r, "DEAD", attempts, FALSE, FALSE, TRUE)
exhaust(r, attempts) == Write(r, "DEAD", attempts, FALSE, TRUE, TRUE)

\* The attempt that failed is counted when the next one is scheduled; with
\* the copy in a tier RabbitMQ owns the retry, otherwise the scheduler does.
schedule_retry_uncounted(r, published) ==
  Write(r, "RETRYING", r.attempts, ~published, FALSE, FALSE)
schedule_retry_counting_down(r, published) ==
  Write(r, "RETRYING", r.attempts - 1, ~published, FALSE, TRUE)
schedule_retry_never_due(r, published) ==
  Write(r, "RETRYING", r.attempts + 1, FALSE, FALSE, TRUE)
schedule_retry_always_due(r, published) ==
  Write(r, "RETRYING", r.attempts + 1, TRUE, FALSE, TRUE)
schedule_retry_unaudited(r, published) ==
  Write(r, "RETRYING", r.attempts + 1, ~published, FALSE, FALSE)

schedule_retry(r, published) ==
  Write(r, "RETRYING", r.attempts + 1, ~published, FALSE, TRUE)

\* handle_dlq_message: the delivery of the message is loaded; if it has no
\* attempts left it is exhausted, otherwise a retry has to be published.
HandleDlqMessage(h, c) ==
  LET d == target[c]
      exhausted == attempts_exhausted(row[d].attempts)
      change == IF exhausted THEN exhaust(row[d], row[d].attempts) ELSE Loaded(row[d])
  IN
  /\ brokerUp
  /\ session[h].pc = "idle"
  /\ place[c] = "dlq"
  /\ ~Held(c)
  /\ MayLoad(d)
  /\ session' = [session EXCEPT ![h] =
                   [Idle EXCEPT !.pc = IF exhausted THEN "work" ELSE "retry",
                                !.rows = {d}, !.copy = c,
                                !.change = [Idle.change EXCEPT ![d] = change]]]
  /\ UNCHANGED <<database, broker, faults, manual>>

\* _schedule_retry: the copy is published to the exchange of its tier.
ScheduleRetry(h, d) ==
  /\ session[h].pc = "retry"
  /\ d \in session[h].rows
  /\ \E published \in BOOLEAN :
       /\ Publish(d, "waiting", published)
       /\ session' = [session EXCEPT
                        ![h].pc = "work",
                        ![h].change[d] = schedule_retry(@.seen, published)]
  /\ UNCHANGED <<database, brokerUp, consumed, dropped, manual>>

DlqCommit(h) ==
  /\ session[h].pc = "work"
  /\ Commit(session[h])
  /\ session' = [session EXCEPT ![h] = [Idle EXCEPT !.pc = "ack", !.copy = session[h].copy]]
  /\ UNCHANGED <<broker, faults, manual>>

\* Removes the copy in hand from q.dlq; after an outage there is none.
TakeOut(h) ==
  LET c == session[h].copy IN
  /\ place' = [k \in Copies |-> IF k = c THEN "free" ELSE place[k]]
  /\ target' = [k \in Copies |-> IF k = c THEN NoDelivery ELSE target[k]]

DlqAck(h) ==
  /\ session[h].pc = "ack"
  /\ TakeOut(h)
  /\ session' = [session EXCEPT ![h] = Idle]
  /\ UNCHANGED <<database, brokerUp, consumed, dropped, faults, manual>>

\* The worker stops: the transaction is rolled back, the message requeued.
DlqCrash(h) ==
  /\ session[h].pc # "idle"
  /\ Fault("crash")
  /\ session' = [session EXCEPT ![h] = Idle]
  /\ UNCHANGED <<database, broker, manual>>

\* The handler raises: rollback and nack(requeue=False), and q.dlq has no
\* dead letter exchange.
DlqFail(h) ==
  /\ session[h].pc \in {"retry", "work"}
  /\ Fault("database")
  /\ TakeOut(h)
  /\ dropped' = [d \in Deliveries |->
                   dropped[d] \/ (session[h].copy \in Copies /\ d \in session[h].rows)]
  /\ session' = [session EXCEPT ![h] = Idle]
  /\ UNCHANGED <<database, brokerUp, consumed, manual>>

-----------------------------------------------------------------------------
(* process_due_retries.                                                    *)

Due(d) == row[d].status = "RETRYING" /\ row[d].next

\* healthy() and due_for_retry: the batch is the rows whose time has come.
DueRead(s) ==
  /\ session[s].pc = "idle"
  /\ brokerUp
  /\ \E batch \in SUBSET {d \in Deliveries : Due(d) /\ MayLoad(d)} \ {{}} :
       session' = [session EXCEPT ![s] =
         [Idle EXCEPT !.pc = "work", !.rows = batch, !.todo = batch,
                      !.change = [d \in Deliveries |->
                                    Loaded(IF d \in batch THEN row[d] ELSE NoRow)]]]
  /\ UNCHANGED <<database, broker, faults, manual>>

due_attempt_left_due(r, published) ==
  Write(r, r.status, r.attempts + 1, TRUE, FALSE, published)

\* The attempt is counted before it is known whether it can be published.
due_attempt(r, published) ==
  LET attempts == r.attempts + 1 IN
  IF published THEN Write(r, "DELIVERED", attempts, FALSE, FALSE, TRUE)
  ELSE IF attempts_exhausted(attempts) THEN exhaust(r, attempts)
  ELSE Write(r, r.status, attempts, TRUE, FALSE, FALSE)

DuePublish(s, d) ==
  /\ session[s].pc = "work"
  /\ d \in session[s].todo
  /\ \E published \in BOOLEAN :
       /\ Publish(d, "queue", published)
       /\ session' = [session EXCEPT
                        ![s].todo = @ \ {d},
                        ![s].change[d] = due_attempt(@.seen, published)]
  /\ UNCHANGED <<database, brokerUp, consumed, dropped, manual>>

DueCommit(s) ==
  /\ session[s].pc = "work"
  /\ session[s].todo = {}
  /\ Commit(session[s])
  /\ session' = [session EXCEPT ![s] = Idle]
  /\ UNCHANGED <<broker, faults, manual>>

-----------------------------------------------------------------------------
(* An operator's request: retry_dead_letter or discard_dead_letter of a    *)
(* letter whose reason is DELIVERY_FAILED.                                 *)

\* The letter is loaded and must be OPEN.
OpenRequest(o, d, i, request) ==
  /\ session[o].pc = "idle"
  /\ manual > 0
  /\ manual' = manual - 1
  /\ Resolvable(d, i)
  /\ MayLoad(d)
  /\ session' = [session EXCEPT ![o] =
                   [Idle EXCEPT !.pc = request, !.rows = {d}, !.letter = i]]
  /\ UNCHANGED <<database, broker, faults>>

\* The counter starts again: the operator gave a new opportunity.
republish_row_untouched(r) == Loaded(r)
republish(r) == Write(r, "DELIVERED", 1, FALSE, FALSE, FALSE)

\* _retry_by_republishing: the delivery is loaded, then the copy published.
RetryPublish(o, d) ==
  /\ session[o].pc = "retry"
  /\ d \in session[o].rows
  /\ \E published \in BOOLEAN :
       /\ Publish(d, "queue", published)
       /\ session' = [session EXCEPT
            ![o].pc = "work",
            ![o].resolve = IF published THEN "RETRIED" ELSE "OPEN",
            ![o].change[d] = IF published THEN republish(row[d]) ELSE @]
  /\ UNCHANGED <<database, brokerUp, consumed, dropped, manual>>

\* discard_dead_letter: the delivery is loaded and marked DISCARDED.
discard(r) == Write(r, "DISCARDED", r.attempts, FALSE, FALSE, FALSE)

DiscardLoad(o, d) ==
  /\ session[o].pc = "discard"
  /\ d \in session[o].rows
  /\ session' = [session EXCEPT ![o].pc = "work",
                                ![o].resolve = "DISCARDED",
                                ![o].change[d] = discard(row[d])]
  /\ UNCHANGED <<database, broker, faults, manual>>

RequestCommit(o) ==
  /\ session[o].pc = "work"
  /\ Commit(session[o])
  /\ session' = [session EXCEPT ![o] = Idle]
  /\ UNCHANGED <<broker, faults, manual>>

\* A scan or a request that fails or dies is rolled back; what it published
\* stays published.
Rollback(s) ==
  /\ session[s].pc # "idle"
  /\ Fault("crash") \/ Fault("database")
  /\ session' = [session EXCEPT ![s] = Idle]
  /\ UNCHANGED <<database, broker, manual>>

-----------------------------------------------------------------------------
Init ==
  /\ row = [d \in Deliveries |-> NoRow]
  /\ letters = [d \in Deliveries |-> <<>>]
  /\ audits = [d \in Deliveries |-> 0]
  /\ place = [c \in Copies |-> "free"]
  /\ target = [c \in Copies |-> NoDelivery]
  /\ session = [s \in Sessions |-> Idle]
  /\ brokerUp \in BOOLEAN
  /\ consumed = [d \in Deliveries |-> FALSE]
  /\ dropped = [d \in Deliveries |-> FALSE]
  /\ faults = MaxFaults
  /\ manual = MaxManual

Handler(h) ==
  \/ \E c \in Copies : HandleDlqMessage(h, c)
  \/ \E d \in Deliveries : ScheduleRetry(h, d)
  \/ DlqCommit(h)
  \/ DlqAck(h)
  \/ DlqCrash(h)
  \/ DlqFail(h)

Scan(s) ==
  \/ DueRead(s)
  \/ \E d \in Deliveries : DuePublish(s, d)
  \/ DueCommit(s)
  \/ Rollback(s)

Operator(o) ==
  \/ \E d \in Deliveries : \E i \in DOMAIN letters[d], request \in {"retry", "discard"} :
       OpenRequest(o, d, i, request)
  \/ \E d \in Deliveries : RetryPublish(o, d) \/ DiscardLoad(o, d)
  \/ RequestCommit(o)
  \/ Rollback(o)

RabbitMQ ==
  \/ \E c \in Copies : ConsumerAck(c) \/ ConsumerNack(c) \/ TtlExpire(c)
  \/ BrokerDown
  \/ BrokerUp

Next ==
  \/ \E d \in Deliveries : Route(d)
  \/ RabbitMQ
  \/ \E h \in DlqHandlers : Handler(h)
  \/ \E s \in Scans : Scan(s)
  \/ \E o \in Operators : Operator(o)

Spec == Init /\ [][Next]_vars

(* Fairness.  RabbitMQ comes back, serves its queues and expires its TTLs;  *)
(* the target module answers every message; a started session takes its    *)
(* next step unless a fault stops it; the worker is offered every message  *)
(* of q.dlq and scans every 30 seconds, oldest first, so each message and  *)
(* each due row is taken if it can be taken again and again.  Nobody has   *)
(* to publish, and no operator has to act.                                 *)
Fairness ==
  /\ WF_vars(BrokerUp)
  /\ \A c \in Copies :
       /\ WF_vars(TtlExpire(c))
       /\ WF_vars(ConsumerAck(c) \/ ConsumerNack(c))
       /\ SF_vars(\E h \in DlqHandlers : HandleDlqMessage(h, c))
  /\ \A h \in DlqHandlers :
       /\ WF_vars(\E d \in Deliveries : ScheduleRetry(h, d))
       /\ WF_vars(DlqCommit(h))
       /\ WF_vars(DlqAck(h))
  /\ \A d \in Deliveries :
       SF_vars(\E s \in Scans : DueRead(s) /\ d \in session'[s].rows)
  /\ \A s \in Scans :
       /\ WF_vars(\E d \in Deliveries : DuePublish(s, d))
       /\ WF_vars(DueCommit(s))
  /\ \A o \in Operators :
       /\ WF_vars(\E d \in Deliveries : RetryPublish(o, d) \/ DiscardLoad(o, d))
       /\ WF_vars(RequestCommit(o))

FairSpec == Spec /\ Fairness

-----------------------------------------------------------------------------
(* Properties.                                                             *)

DatabaseTyped ==
  /\ row \in [Deliveries -> Row]
  /\ letters \in [Deliveries -> Seq(LetterStatus)]
  /\ audits \in [Deliveries -> Nat]

BrokerTyped ==
  /\ place \in [Copies -> Places]
  /\ target \in [Copies -> Deliveries \cup {NoDelivery}]
  /\ \A c \in Copies : place[c] = "free" <=> target[c] = NoDelivery
  /\ brokerUp \in BOOLEAN
  /\ consumed \in [Deliveries -> BOOLEAN]
  /\ dropped \in [Deliveries -> BOOLEAN]

SessionsTyped == session \in [Sessions -> Session]

BudgetsTyped == faults \in 0..MaxFaults /\ manual \in 0..MaxManual

\* Every variable has its type; a copy has a target exactly while it exists.
TypeOK == DatabaseTyped /\ BrokerTyped /\ SessionsTyped /\ BudgetsTyped

\* A delivery is attempted at most once more than its subscription allows,
\* and the scheduler never keeps a delivery beyond max_attempts, whatever
\* sessions overlap and whatever updates they lose: _schedule_retry counts
\* the attempt when it schedules it and process_due_retries counts it again.
RowBounded(r) ==
  /\ r.attempts <= MaxAttempts + 1
  /\ r.next => r.attempts <= MaxAttempts

AttemptsBounded == \A d \in Deliveries : RowBounded(row[d])

\* What makes it inductive although a commit mixes columns of two sessions:
\* a change that sets next_retry_at also writes a counter within the limit,
\* and one that writes a counter beyond it also clears the next_retry_at it
\* loaded.  A handler about to publish loaded one delivery with attempts
\* left, a scan loaded rows within the bound.
ChangeBounded(ch) ==
  LET counted == ch.new.attempts # ch.seen.attempts IN
  /\ counted => ch.new.attempts <= MaxAttempts + 1
  /\ ch.new.next => counted /\ ch.new.attempts <= MaxAttempts
  /\ counted /\ ch.new.attempts > MaxAttempts => ch.seen.next

WorkBounded(s, work) ==
  \A d \in work.rows :
    LET ch == work.change[d] IN
    IF s \in DlqHandlers /\ work.pc = "retry"
    THEN work.rows = {d} /\ ~attempts_exhausted(ch.seen.attempts)
    ELSE IF s \in Scans /\ d \in work.todo THEN ch.seen.next /\ RowBounded(ch.seen)
    ELSE ChangeBounded(ch)

SessionsBounded == \A s \in Sessions : WorkBounded(s, session[s])

\* A copy whose handler committed and is about to acknowledge it is spent.
Spent(c) == \E h \in DlqHandlers : session[h].pc = "ack" /\ session[h].copy = c
Live(c, d) == place[c] # "free" /\ target[c] = d /\ ~Spent(c)

Discarded(d) == \E i \in DOMAIN letters[d] : letters[d][i] = "DISCARDED"
Parked(d) == OpenLetters(d) # {}

InCustody(d) ==
  \/ consumed[d]
  \/ \E c \in Copies : Live(c, d)
  \/ Due(d)
  \/ Parked(d)
  \/ Discarded(d)

\* A routed delivery is always somewhere: processed by its consumer, travelling
\* in RabbitMQ, due in the scheduler, waiting for an operator or discarded by
\* one.  Crashes, outages and unconfirmed publishes do not change that, nor do
\* refused publishes while sessions of one delivery do not overlap; only a
\* handler of q.dlq that raises may forget a message ("los mensajes fallidos
\* no deben perderse", delivery_service.py).
NeverForgotten ==
  \A d \in Deliveries : row[d] # NoRow => InCustody(d) \/ dropped[d]

\* The same without the exception for handlers that raise: it does not hold
\* once FaultKinds has "database" (README, divergences).
NothingLost ==
  \A d \in Deliveries : row[d] # NoRow => InCustody(d)

\* A dead letter that was resolved is never resolved again, nor otherwise:
\* RETRIED and DISCARDED are terminal (ADR-001).
LettersFinal ==
  [][\A d \in Deliveries : \A i \in DOMAIN letters[d] :
       letters[d][i] # "OPEN" => letters'[d][i] = letters[d][i]]_vars

\* One place answers for a delivery no session is working on: a copy in
\* RabbitMQ that no handler holds, or the scheduler, or one open dead letter
\* ("RabbitMQ owns this retry; the scheduler must not publish it again",
\* _schedule_retry).
Custodians(d) ==
  Cardinality({c \in Copies : target[c] = d /\ ~Held(c)})
    + (IF Due(d) THEN 1 ELSE 0)
    + Cardinality(OpenLetters(d))

OneCustodian ==
  \A d \in Deliveries :
    (\A s \in Sessions : d \notin session[s].rows) => Custodians(d) <= 1

\* What is over stays over: of a delivery that the target module processed, or
\* that an operator discarded, no copy travels, none is due and no dead letter is
\* open once the sessions that had loaded it are done, so that nobody processes
\* it twice or is asked about it again; refused publishes do not change that.
SettledIsOver ==
  \A d \in Deliveries :
    /\ consumed[d] \/ Discarded(d)
    /\ \A s \in Sessions : d \notin session[s].rows
    => Custodians(d) = 0

\* The dead letter queue is the deliveries in DEAD: a delivery has an open
\* dead letter exactly while it is DEAD (ADR-001).
OpenLettersAreDead ==
  \A d \in Deliveries : Parked(d) <=> row[d].status = "DEAD"

\* Every attempt after the first leaves a row in retry_audit, except those of
\* a scan whose publish fails: the counter is ahead of the audit by no more
\* than the publishes that failed (while there is no outage, faults count them).
AttemptsAudited ==
  \A d \in Deliveries : row[d].attempts <= audits[d] + 1 + (MaxFaults - faults)

\* A routed delivery is eventually processed by its consumer or put before an
\* operator, again and again after each manual retry: the counter of
\* attempts, which overlapping sessions may set back, ends every cycle.
Settles ==
  \A d \in Deliveries :
    (row[d] # NoRow) ~> (consumed[d] \/ Parked(d) \/ Discarded(d))

-----------------------------------------------------------------------------
(* Refinement: each delivery keeps the promise of DeliveryPromise.         *)

Phase(d) ==
  IF row[d] = NoRow THEN "NEW"
  ELSE IF consumed[d] \/ Discarded(d) THEN "SETTLED"
  ELSE IF Parked(d) THEN "PARKED"
  ELSE "TRAVELLING"

Promise == INSTANCE DeliveryPromise WITH phase <- [d \in Deliveries |-> Phase(d)]

\* Unless a publish is refused or a handler of q.dlq raises, the delivery cycle
\* implements the promise, its liveness included.
PromiseKept == Promise!Spec

-----------------------------------------------------------------------------
(* What holds besides: the parts of the inductive invariants, first what   *)
(* is in order whatever overlaps and whatever fails.                       *)

Unrouted(d) ==
  /\ row[d] = NoRow /\ letters[d] = <<>>
  /\ \A c \in Copies : target[c] # d
  /\ \A s \in Sessions : d \notin session[s].rows

\* A delivery nobody has heard of, or a routed one.
RowsRouted == \A d \in Deliveries : (Unrouted(d) /\ ~consumed[d]) \/ row[d].status # "NONE"

\* What a session has still to publish is of its rows; a handler's copy is in
\* q.dlq and is of its only row; an operator's letter is one of its row's.
InOrder(s, u) ==
  /\ u.todo \subseteq u.rows
  /\ u.pc \in {"idle", "ack"} => u.rows = {}
  /\ u.copy \in Copies => /\ s \in DlqHandlers /\ brokerUp /\ place[u.copy] = "dlq"
                          /\ u.pc \in {"retry", "work"} => u.rows = {target[u.copy]}
  /\ \A d \in u.rows : u.change[d].new.status = "NONE" => u.change[d].seen.status = "NONE"
  /\ IF s \in Operators
     THEN \A d \in u.rows : u.letter \in DOMAIN letters[d] /\ u.rows = {d}
     ELSE u.resolve = "OPEN"

UnitsInOrder == \A s \in Sessions : InOrder(s, session[s])

HoldersDistinct ==
  \A h, k \in DlqHandlers : session[h].copy \in Copies /\ session[k].copy = session[h].copy => h = k

\* What the sessions have in hand fits what RabbitMQ and the database have,
\* whatever overlaps and whatever fails.
OrderInv == TypeOK /\ RowsRouted /\ UnitsInOrder /\ HoldersDistinct

-----------------------------------------------------------------------------
(* The parts of the inductive invariant of custody.                        *)

\* A commit that leaves a due row due, or opens a dead letter for it.
KeepsDue(ch) ==
  \/ ch.opens
  \/ (ch.seen.next => ch.new.next) /\ ch.new.status \in {ch.seen.status, "RETRYING"}

\* The handler that holds the copy has put another one in its place.
Replaced(c) ==
  \E h \in DlqHandlers :
    /\ session[h].copy = c
    /\ session[h].pc = "ack" \/ (session[h].pc = "work" /\ ~session[h].change[target[c]].opens)

\* The operator who is going to resolve the letter has published a copy.
Retried(d, i) ==
  \E o \in Operators :
    /\ session[o].pc = "work" /\ d \in session[o].rows
    /\ session[o].letter = i /\ session[o].resolve = "RETRIED"

\* Who answers for a routed delivery, even after the sessions at work commit.
Carried(d) == \E c \in Copies : target[c] = d /\ ~Replaced(c)

Filed(d) ==
  \E i \in DOMAIN letters[d] : letters[d][i] \in {"OPEN", "DISCARDED"} /\ ~Retried(d, i)

\* Only a delivery that never reached q.dlq is in the hands of the scans alone.
Scheduled(d) ==
  /\ letters[d] = <<>> /\ Due(d)
  /\ \A s \in Sessions : d \in session[s].rows => KeepsDue(session[s].change[d])

Custody(d) == consumed[d] \/ dropped[d] \/ Carried(d) \/ Filed(d) \/ Scheduled(d)

RowsKept == \A d \in Deliveries : row[d].status # "NONE" => Custody(d)

CustodyInv == OrderInv /\ RowsKept

-----------------------------------------------------------------------------
(* The parts of the inductive invariants of the audit, and of schedules    *)
(* whose sessions do not overlap on a delivery.                            *)

\* The publishes that failed while there is no outage.
Failed == MaxFaults - faults

\* A change that counts an attempt audits it, or its publish failed.
ChangeAudited(d, ch) ==
  /\ ch.seen.attempts <= audits[d] + 1 + Failed
  /\ ch.new.attempts <= audits[d] + 1 + (IF ch.audits THEN 1 ELSE 0) + Failed

AuditInv ==
  /\ TypeOK /\ AttemptsAudited
  /\ \A s \in Sessions, d \in Deliveries : ChangeAudited(d, session[s].change[d])
  /\ \A s \in Scans : session[s].pc # "idle" => brokerUp

\* Only a scan works on several rows and publishes them one by one, only a
\* handler has a copy, and the letter that an operator loaded is still open.
InHand(s, u) ==
  /\ u.pc \in {"idle", "ack"} => u.rows = {}
  /\ u.todo \subseteq u.rows
  /\ s \notin Scans => u.todo = {} /\ \A d \in u.rows : u.rows = {d}
  /\ s \notin DlqHandlers => u.copy \notin Copies
  /\ s \in Operators => \A d \in u.rows : u.letter \in OpenLetters(d)
  /\ s \notin Operators => u.resolve = "OPEN"

\* No two sessions work on one delivery.
RowsApart == \A s, t \in Sessions : s # t => session[s].rows \cap session[t].rows = {}

ApartInv == TypeOK /\ RowsApart /\ \A s \in Sessions : InHand(s, session[s])

\* The requests of operators on one delivery take turns; handlers and scans may
\* overlap.
LettersApart ==
  \A o, p \in Operators : o # p => session[o].rows \cap session[p].rows = {}

\* Two ways to take turns: nobody overlaps, or there is only one operator.
OperatorsApart == RowsExclusive \/ \A o, p \in Operators : o = p

HeldInv == TypeOK /\ LettersApart /\ \A s \in Sessions : InHand(s, session[s])

\* At most one copy, due row or open letter answers for a routed delivery, and
\* it is DEAD exactly while a letter does.
OneKeeper(r, states, copies) ==
  LET open == {i \in DOMAIN states : states[i] = "OPEN"} IN
  /\ r.status # "NONE"
  /\ \A c, x \in copies : c = x
  /\ \A i, j \in open : i = j
  /\ open # {} <=> r.status = "DEAD"
  /\ copies # {} => r.status # "DEAD" /\ ~(r.status = "RETRYING" /\ r.next)

Lives(d) == {c \in Copies : Live(c, d)}

\* When the session commits, one keeper is left; until it has published, there
\* is one now and the session loaded it.
Ready(s, u, d) ==
  /\ row[d].status # "NONE"
  /\ IF u.pc = "work" /\ d \notin u.todo
     THEN OneKeeper(Flush(row[d], u.change[d]), FlushLetters(d, u), Lives(d) \ {u.copy})
     ELSE /\ OneKeeper(row[d], letters[d], Lives(d))
          /\ s \notin Operators => u.change[d].seen = row[d]
          /\ s \in DlqHandlers => u.copy \in Lives(d)
          /\ s \in Scans => Due(d)
          /\ s \in Operators => u.change[d] = Loaded(NoRow)

\* A handler at work holds its copy in q.dlq, alone.
HandlersHold ==
  \A h \in DlqHandlers :
    /\ session[h].pc # "idle" => session[h].copy \in Copies /\ place[session[h].copy] = "dlq"
    /\ \A k \in DlqHandlers :
         session[h].copy \in Copies /\ session[k].copy = session[h].copy => h = k

\* Between two sessions one keeper answers for a routed delivery.
AtRest(d) ==
  (\A s \in Sessions : d \notin session[s].rows)
    => Unrouted(d) \/ OneKeeper(row[d], letters[d], Lives(d))

KeeperInv ==
  /\ ApartInv /\ OpenLettersAreDead /\ HandlersHold
  /\ \A d \in Deliveries : AtRest(d)
  /\ \A s \in Sessions : \A d \in session[s].rows : Ready(s, session[s], d)

\* Besides the sessions, RabbitMQ, the scheduler or a letter answers for a
\* delivery in this state; nobody has to for one that was consumed or dropped.
Answered(r, states, copies) ==
  \/ copies # {}
  \/ r.status = "RETRYING" /\ r.next
  \/ \E i \in DOMAIN states : states[i] \in {"OPEN", "DISCARDED"}

Over(d) == consumed[d] \/ dropped[d]

\* Somebody will answer when the session commits; one that has still to publish
\* loaded what is committed.
Answerable(s, u, d) ==
  IF u.pc = "work" /\ d \notin u.todo
  THEN Over(d) \/ Answered(Flush(row[d], u.change[d]), FlushLetters(d, u), Lives(d) \ {u.copy})
  ELSE /\ s \in DlqHandlers => u.change[d].seen = row[d]
       /\ s \in Scans => Due(d)

AnswerInv ==
  /\ OrderInv /\ ApartInv /\ NeverForgotten
  /\ \A s \in Sessions : \A d \in session[s].rows : Answerable(s, session[s], d)

=============================================================================
