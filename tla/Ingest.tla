-------------------------------- MODULE Ingest --------------------------------
(***************************************************************************)
(* The hub's pipeline: how a published message becomes a row of event_log  *)
(* with its deliveries, concurrently in                                    *)
(*   - the handlers of core.inbox            (worker, _handle_inbox),      *)
(*   - requests POST /events                 (publish_event),              *)
(*   - operators who retry the dead letter of a rejected event (reprocess),*)
(* while modules subscribe and change schemas.  Every one of them is one   *)
(* database transaction under READ COMMITTED: it reads what is committed,  *)
(* a unique index or a row it updates makes the others wait until it ends, *)
(* and the copies it publishes to the modules' queues leave at once.       *)
(* What becomes of a delivery after that is module DeliveryCycle.          *)
(***************************************************************************)
EXTENDS Naturals, FiniteSets

CONSTANTS
  Events,        \* eventIds
  Types,         \* names of event types
  TypeOf,        \* event -> its type
  Modules,       \* modules that may subscribe
  Messages,      \* messages that producers publish; several may carry one event
  EventOf,       \* message -> its event, or NoEvent if it has no valid envelope
  Fit,           \* messages whose data meets the JSON Schema of their type
  NoEvent, NoMessage, NoModule,
  Workers,       \* concurrent handlers of core.inbox (prefetch=16 in the code)
  Requests,      \* concurrent HTTP requests
  Operators,     \* concurrent retries of dead letters
  FaultKinds,    \* the faults that may happen
  MaxFaults,     \* bound: how many faults happen
  MaxEdits,      \* bound: changes of subscriptions and schemas
  MaxNacks,      \* bound: copies the modules reject while the hub still works
  MaxReprocess   \* bound: retries of rejected events

Sessions == Workers \cup Requests \cup Operators

ASSUME IngestAssumption ==
  /\ TypeOf \in [Events -> Types]
  /\ EventOf \in [Messages -> Events \cup {NoEvent}]
  /\ Fit \subseteq Messages
  /\ NoEvent \notin Events /\ NoMessage \notin Messages /\ NoModule \notin Modules
  /\ Workers \cap Requests = {} /\ Workers \cap Operators = {} /\ Requests \cap Operators = {}
  /\ FaultKinds \subseteq {"outage", "crash", "database", "confirm"}
  /\ {MaxFaults, MaxEdits, MaxNacks, MaxReprocess} \subseteq Nat

VARIABLES
  known,       \* types with a row in event_types
  strict,      \* types whose row has a json_schema
  received,    \* type -> total_received
  subscribed,  \* type -> modules with an active subscription
  log,         \* event -> its row of event_log
  delivery,    \* event -> module -> status of its row of deliveries
  letter,      \* event -> its dead letter SCHEMA_VIOLATION
  strays,      \* the other dead letters
  message,     \* message -> where it is
  answers,     \* message -> the answers its producer got over HTTP
  published,   \* event -> module -> copies ever put in the module's queue
  returned,    \* copies the modules rejected, in q.dlq
  dropped,     \* messages RabbitMQ discarded when nacked out of q.dlq
  session,     \* session -> its unit of work
  brokerUp,
  budget       \* what the bounds still allow

registry == <<known, strict, received, subscribed>>
hub == <<log, delivery, letter>>
queues == <<message, published, returned, dropped>>
vars == <<registry, hub, strays, queues, answers, session, brokerUp, budget>>

-----------------------------------------------------------------------------
LogStatus == {"NONE", "ROUTED", "NO_SUBSCRIBERS", "REJECTED"}
Outcome == {"NONE", "DELIVERED", "RETRYING"}
Reasons == {"MALFORMED_MESSAGE", "DELIVERY_FAILED"}

Nothing == [m \in Modules |-> "NONE"]

\* work:    the message in hand (an operator has the body of the logged event)
\* queued:  RabbitMQ waits for its acknowledgement
\* locks:   it flushed its event type: others who flush it wait
\* total:   the total_received it is going to write
\* fits:    the data met the schema the session loaded
\* status:  event_log.status it is going to write; NONE: it writes no row
\* was:     the status an operator loaded
\* seen:    the deliveries it found
\* todo:    subscribers it has still to publish to
\* rows:    the deliveries it is going to write
Idle == [pc |-> "idle", work |-> NoMessage, queued |-> FALSE, locks |-> FALSE,
         total |-> 0, fits |-> TRUE, status |-> "NONE", was |-> "NONE", seen |-> Nothing,
         todo |-> {}, rows |-> Nothing]

Session == [pc : {"idle", "type", "create", "insert", "route", "publish", "answer",
                  "commit", "ack", "check", "discard"},
            work : Messages \cup {NoMessage}, queued : BOOLEAN, locks : BOOLEAN,
            total : Nat, fits : BOOLEAN, status : LogStatus, was : LogStatus,
            seen : [Modules -> Outcome], todo : SUBSET Modules,
            rows : [Modules -> Outcome]]

EventIn(s) == EventOf[session[s].work]
TypeIn(s) == TypeOf[EventIn(s)]
Logged(e) == log[e].status # "NONE"

\* It parses as an EventEnvelope.
Readable(m) == EventOf[m] # NoEvent

\* A type without json_schema validates nothing.
validate_data(t, m) == t \in strict => m \in Fit

InHand(m) == \E w \in Workers : session[w].queued /\ session[w].work = m

\* After the last write a request first answers its producer: get_session
\* commits when the response has been sent.
Finish(s) == IF s \in Requests THEN "answer" ELSE "commit"

Spend(what) == budget[what] > 0 /\ budget' = [budget EXCEPT ![what] = @ - 1]
Fault(kind) == kind \in FaultKinds /\ Spend("faults")

-----------------------------------------------------------------------------
(* Producers.                                                              *)

PublishToInbox(m) ==
  /\ message[m] = "unsent"
  /\ message' = [message EXCEPT ![m] = "inbox"]
  /\ UNCHANGED <<registry, hub, strays, published, returned, dropped, answers, session,
                 brokerUp, budget>>

\* The session starts and looks the eventId up: a duplicate, or a message
\* without a valid envelope, goes no further.
Begin(s, m, queued) ==
  LET e == EventOf[m] IN
  session' = [session EXCEPT ![s] =
    [Idle EXCEPT !.pc = IF ~Readable(m) \/ Logged(e) THEN Finish(s) ELSE "type",
                 !.work = m, !.queued = queued]]

Receive(w, m) ==
  /\ brokerUp
  /\ session[w].pc = "idle"
  /\ message[m] = "inbox"
  /\ ~InHand(m)
  /\ Begin(w, m, TRUE)
  /\ UNCHANGED <<registry, hub, strays, queues, answers, brokerUp, budget>>

\* FastAPI answers 422 to a body that is not an envelope before the endpoint.
Submit(r, m) ==
  /\ session[r].pc = "idle"
  /\ message[m] = "unsent"
  /\ Readable(m)
  /\ message' = [message EXCEPT ![m] = "http"]
  /\ Begin(r, m, FALSE)
  /\ UNCHANGED <<registry, hub, strays, published, returned, dropped, answers, brokerUp, budget>>

-----------------------------------------------------------------------------
(* How a session ends before its commit.                                   *)

\* Where the message goes when the handler raises: RabbitMQ moves a nacked
\* message of core.inbox to q.dlq, a producer that got an error may try again.
AfterError_acknowledged(s, where) == IF session[s].queued THEN "done" ELSE where
AfterError(s, where) ==
  IF session[s].queued THEN "dlq"
  ELSE IF s \in Requests /\ where = "http" THEN "unsent"
  ELSE where

Abort(s) ==
  /\ message' = [m \in Messages |->
                   IF m = session[s].work THEN AfterError(s, message[m]) ELSE message[m]]
  /\ session' = [session EXCEPT ![s] = Idle]

Raise(s) ==
  /\ session[s].pc \notin {"idle", "ack"}
  /\ Fault("database")
  /\ Abort(s)
  /\ UNCHANGED <<registry, hub, strays, published, returned, dropped, answers, brokerUp>>

\* The process stops: what it had not acknowledged is delivered again.
Crash(s) ==
  /\ session[s].pc # "idle"
  /\ Fault("crash")
  /\ message' = [m \in Messages |->
                   IF s \in Requests /\ m = session[s].work /\ message[m] = "http"
                   THEN "unsent" ELSE message[m]]
  /\ session' = [session EXCEPT ![s] = Idle]
  /\ UNCHANGED <<registry, hub, strays, published, returned, dropped, answers, brokerUp>>

-----------------------------------------------------------------------------
(* get_or_create, the validation and the insert of the event.              *)

\* A flush that touches the row of a type waits for the transaction that
\* touched it before.
MayFlushType_self_blocking(s, t) ==
  \A o \in Sessions : session[o].locks => TypeIn(o) # t
MayFlushType(s, t) ==
  \A o \in Sessions \ {s} : session[o].locks => TypeIn(o) # t

CountedTotal_forgotten(t) == received[t]
CountedTotal(t) == received[t] + 1

\* The type is there: its counter and its schema are the ones read here.
FindType(s) ==
  LET t == TypeIn(s) IN
  /\ session[s].pc = "type"
  /\ t \in known
  /\ session' = [session EXCEPT ![s].pc = "insert",
                                ![s].total = CountedTotal(t),
                                ![s].fits = validate_data(t, session[s].work)]
  /\ UNCHANGED <<registry, hub, strays, queues, answers, brokerUp, budget>>

\* The type is not there: it is going to be created ...
MissType(s) ==
  /\ session[s].pc = "type"
  /\ TypeIn(s) \notin known
  /\ session' = [session EXCEPT ![s].pc = "create"]
  /\ UNCHANGED <<registry, hub, strays, queues, answers, brokerUp, budget>>

\* ... unless another transaction did it first: the unique index on the name.
CreateType(s) ==
  LET t == TypeIn(s) IN
  /\ session[s].pc = "create"
  /\ MayFlushType(s, t)
  /\ \/ /\ t \notin known
        /\ session' = [session EXCEPT ![s].pc = "insert", ![s].locks = TRUE, ![s].total = 1]
        /\ UNCHANGED message
     \/ t \in known /\ Abort(s)
  /\ UNCHANGED <<registry, hub, strays, published, returned, dropped, answers, brokerUp, budget>>

\* event_log.event_id is UNIQUE: the barrier of idempotency.
Taken_unchecked(e) == FALSE
Taken(e) == Logged(e)

\* validate_data, and the flush of the new row of event_log.
Insert(s) ==
  /\ session[s].pc = "insert"
  /\ MayFlushType(s, TypeIn(s))
  /\ \/ /\ ~Taken(EventIn(s))
        /\ session' = [session EXCEPT
             ![s].locks = TRUE,
             ![s].pc = IF session[s].fits THEN "route" ELSE Finish(s),
             ![s].status = IF session[s].fits THEN "ROUTED" ELSE "REJECTED"]
        /\ UNCHANGED message
     \/ Taken(EventIn(s)) /\ Abort(s)
  /\ UNCHANGED <<registry, hub, strays, published, returned, dropped, answers, brokerUp, budget>>

-----------------------------------------------------------------------------
(* _route: the subscriptions are read, and one copy is published to each   *)
(* subscriber whose delivery is not confirmed yet.                         *)

Confirmed_repeated(seen, m) == FALSE
Confirmed(seen, m) == seen[m] = "DELIVERED"

RouteStatus_without_receivers(subscribers) == "ROUTED"
RouteStatus(subscribers) == IF subscribers = {} THEN "NO_SUBSCRIBERS" ELSE "ROUTED"

\* What the session has of the rows hides what others committed since.
Merged_replacing(own, committed) == own
Merged(own, committed) ==
  [m \in Modules |-> IF own[m] # "NONE" THEN own[m] ELSE committed[m]]

Route(s) ==
  LET e == EventIn(s)
      subscribers == subscribed[TypeOf[e]]
      seen == Merged(session[s].seen, delivery[e])
      todo == {m \in subscribers : ~Confirmed(seen, m)}
  IN
  /\ session[s].pc = "route"
  /\ session' = [session EXCEPT
       ![s].status = RouteStatus(subscribers),
       ![s].seen = seen,
       ![s].todo = todo,
       ![s].pc = IF todo = {} THEN Finish(s) ELSE "publish"]
  /\ UNCHANGED <<registry, hub, strays, queues, answers, brokerUp, budget>>

\* _publish_to_queue.  With the broker down the delivery is left for the due
\* scan; if only the confirm is lost, the copy is in the queue all the same.
PublishTo(s, m) ==
  LET e == EventIn(s)
      todo == session[s].todo \ {m}
  IN
  /\ session[s].pc = "publish"
  /\ m \in session[s].todo
  /\ \E outcome \in Outcome \ {"NONE"} :
       /\ \/ outcome = "DELIVERED" /\ brokerUp /\ UNCHANGED budget
          \/ outcome = "RETRYING" /\ ~brokerUp /\ UNCHANGED budget
          \/ outcome = "RETRYING" /\ brokerUp /\ Fault("confirm")
       /\ published' = [published EXCEPT ![e][m] = IF brokerUp THEN @ + 1 ELSE @]
       /\ session' = [session EXCEPT ![s].rows[m] = outcome,
                                     ![s].todo = todo,
                                     ![s].pc = IF todo = {} THEN Finish(s) ELSE "publish"]
  /\ UNCHANGED <<registry, hub, strays, message, returned, dropped, answers, brokerUp>>

-----------------------------------------------------------------------------
(* The end of the transaction.                                             *)

Answer(r) ==
  LET m == session[r].work IN
  /\ session[r].pc = "answer"
  /\ answers' = [answers EXCEPT ![m] = @ \cup
       {CASE session[r].status = "NONE" -> "200"
          [] session[r].status = "REJECTED" -> "422"
          [] OTHER -> "202"}]
  /\ message' = [message EXCEPT ![m] = "done"]
  /\ session' = [session EXCEPT ![r].pc = "commit"]
  /\ UNCHANGED <<registry, hub, strays, published, returned, dropped, brokerUp, budget>>

Stray_swapped(e, module, reason) == [about |-> module, target |-> e, reason |-> reason]
Stray(e, module, reason) == [about |-> e, target |-> module, reason |-> reason]

\* The rows of the event become visible: its type, the event itself, its
\* deliveries and, if it was rejected, its dead letter.
WriteEvent(s) ==
  LET e == EventIn(s)
      status == session[s].status
  IN
  /\ log' = [log EXCEPT ![e] = [status |-> status, body |-> session[s].work]]
  /\ delivery' = [delivery EXCEPT ![e] = session[s].rows]
  /\ letter' = [letter EXCEPT ![e] = IF status = "REJECTED" THEN "OPEN" ELSE @]
  /\ known' = known \cup {TypeIn(s)}
  /\ received' = [received EXCEPT ![TypeIn(s)] = session[s].total]

Commit(s) ==
  /\ s \notin Operators
  /\ session[s].pc = "commit"
  /\ IF session[s].status = "NONE" THEN UNCHANGED <<log, delivery, letter, known, received>>
     ELSE WriteEvent(s)
  /\ strays' = IF EventIn(s) = NoEvent
               THEN strays \cup {Stray(NoEvent, NoModule, "MALFORMED_MESSAGE")} ELSE strays
  /\ session' = [session EXCEPT ![s] =
       IF s \in Workers
       THEN [Idle EXCEPT !.pc = "ack", !.work = session[s].work, !.queued = session[s].queued]
       ELSE Idle]
  /\ UNCHANGED <<strict, subscribed, queues, answers, brokerUp, budget>>

Ack(w) ==
  /\ session[w].pc = "ack"
  /\ message' = [m \in Messages |->
                   IF m = session[w].work /\ session[w].queued THEN "done" ELSE message[m]]
  /\ session' = [session EXCEPT ![w] = Idle]
  /\ UNCHANGED <<registry, hub, strays, published, returned, dropped, answers, brokerUp, budget>>

-----------------------------------------------------------------------------
(* An operator retries the dead letter of a rejected event: reprocess.     *)

\* Unique (event_log_id, target_module): another retry created the row first.
Clashes(o) ==
  \E m \in Modules : /\ session[o].rows[m] # "NONE"
                     /\ session[o].seen[m] = "NONE"
                     /\ delivery[EventIn(o)][m] # "NONE"

Settled_always(o) == "RETRIED"
\* The letter is resolved only if the event was accepted.
Settled(o) == IF session[o].fits THEN "RETRIED" ELSE letter[EventIn(o)]

\* The letter must be OPEN when it is loaded, to be retried or discarded.
OpenLetter(o, e) ==
  /\ session[o].pc = "idle"
  /\ letter[e] = "OPEN"
  /\ Spend("reprocess")
  /\ \E next \in {"check", "discard"} :
       session' = [session EXCEPT ![o] = [Idle EXCEPT !.pc = next, !.work = log[e].body]]
  /\ UNCHANGED <<registry, hub, strays, queues, answers, brokerUp>>

\* The event and its deliveries are loaded, and the stored envelope is
\* validated against the schema of now.
Revalidate(o) ==
  LET e == EventIn(o)
      fits == validate_data(TypeOf[e], session[o].work)
  IN
  /\ session[o].pc = "check"
  /\ session' = [session EXCEPT ![o].was = log[e].status,
                                ![o].seen = delivery[e],
                                ![o].fits = fits,
                                ![o].status = IF fits THEN "ROUTED" ELSE "REJECTED",
                                ![o].pc = IF fits THEN "route" ELSE "commit"]
  /\ UNCHANGED <<registry, hub, strays, queues, answers, brokerUp, budget>>

\* A status is written only if it differs from the one that was loaded.
CommitReprocess(o) ==
  LET e == EventIn(o)
      status == session[o].status
  IN
  /\ session[o].pc = "commit"
  /\ \/ /\ ~Clashes(o)
        /\ log' = [log EXCEPT ![e].status = IF status = session[o].was THEN @ ELSE status]
        /\ delivery' = [delivery EXCEPT ![e] = Merged(session[o].rows, @)]
        /\ letter' = [letter EXCEPT ![e] = Settled(o)]
     \/ Clashes(o) /\ UNCHANGED hub
  /\ session' = [session EXCEPT ![o] = Idle]
  /\ UNCHANGED <<registry, strays, queues, answers, brokerUp, budget>>

CommitDiscard(o) ==
  /\ session[o].pc = "discard"
  /\ letter' = [letter EXCEPT ![EventIn(o)] = "DISCARDED"]
  /\ session' = [session EXCEPT ![o] = Idle]
  /\ UNCHANGED <<registry, log, delivery, strays, queues, answers, brokerUp, budget>>

-----------------------------------------------------------------------------
(* q.dlq: messages of core.inbox whose handler raised, and copies that a   *)
(* module rejects before their delivery was committed.                     *)

Uncorrelated(e) == IF e # NoEvent /\ Logged(e) THEN "DELIVERY_FAILED" ELSE "MALFORMED_MESSAGE"

\* A message of a producer names no target module: no delivery is found.
HandleReturned(m) ==
  /\ brokerUp
  /\ message[m] = "dlq"
  /\ message' = [message EXCEPT ![m] = "done"]
  /\ strays' = strays \cup {Stray(EventOf[m], NoModule, Uncorrelated(EventOf[m]))}
  /\ UNCHANGED <<registry, hub, published, returned, dropped, answers, session, brokerUp, budget>>

\* The handler of q.dlq raises: q.dlq has no dead letter exchange.
DropReturned(m) ==
  /\ brokerUp
  /\ message[m] = "dlq"
  /\ Fault("database")
  /\ message' = [message EXCEPT ![m] = "done"]
  /\ dropped' = dropped \cup {m}
  /\ UNCHANGED <<registry, hub, strays, published, returned, answers, session, brokerUp>>

NackCopy(e, m) ==
  /\ brokerUp
  /\ published[e][m] > 0
  /\ <<e, m>> \notin returned
  /\ Spend("nacks")
  /\ returned' = returned \cup {<<e, m>>}
  /\ UNCHANGED <<registry, hub, strays, message, published, dropped, answers, session, brokerUp>>

\* With its delivery the copy enters the cycle of retries (DeliveryCycle).
HandleCopy(e, m) ==
  /\ brokerUp
  /\ <<e, m>> \in returned
  /\ returned' = returned \ {<<e, m>>}
  /\ strays' = IF delivery[e][m] # "NONE" THEN strays
               ELSE strays \cup {Stray(e, m, Uncorrelated(e))}
  /\ UNCHANGED <<registry, hub, message, published, dropped, answers, session, brokerUp, budget>>

-----------------------------------------------------------------------------
(* The registry, and the broker.                                           *)

\* Declaring a type, or subscribing to one nobody published yet.
Declare(t, m) ==
  /\ t \in known \/ \A s \in Sessions : session[s].locks => TypeIn(s) # t
  /\ m \notin subscribed[t]
  /\ Spend("edits")
  /\ known' = known \cup {t}
  /\ subscribed' = [subscribed EXCEPT ![t] = @ \cup {m}]
  /\ UNCHANGED <<strict, received, hub, strays, queues, answers, session, brokerUp>>

\* unsubscribe, set_subscription_active, or the module is deactivated.
Unsubscribe(t, m) ==
  /\ m \in subscribed[t]
  /\ Spend("edits")
  /\ subscribed' = [subscribed EXCEPT ![t] = @ \ {m}]
  /\ UNCHANGED <<known, strict, received, hub, strays, queues, answers, session, brokerUp>>

SetSchema(t) ==
  /\ t \in known
  /\ \A s \in Sessions : session[s].locks => TypeIn(s) # t
  /\ Spend("edits")
  /\ strict' = IF t \in strict THEN strict \ {t} ELSE strict \cup {t}
  /\ UNCHANGED <<known, received, subscribed, hub, strays, queues, answers, session, brokerUp>>

\* What the workers had not acknowledged goes back to the queue.
BrokerDown ==
  /\ brokerUp
  /\ Fault("outage")
  /\ brokerUp' = FALSE
  /\ session' = [s \in Sessions |-> [session[s] EXCEPT !.queued = FALSE]]
  /\ UNCHANGED <<registry, hub, strays, queues, answers>>

BrokerUp ==
  /\ ~brokerUp
  /\ brokerUp' = TRUE
  /\ UNCHANGED <<registry, hub, strays, queues, answers, session, budget>>

-----------------------------------------------------------------------------
Init ==
  /\ known \in SUBSET Types
  /\ strict \in SUBSET known
  /\ received = [t \in Types |-> 0]
  /\ subscribed \in [Types -> SUBSET Modules]
  /\ \A t \in Types : subscribed[t] # {} => t \in known
  /\ log = [e \in Events |-> [status |-> "NONE", body |-> NoMessage]]
  /\ delivery = [e \in Events |-> Nothing]
  /\ letter = [e \in Events |-> "NONE"]
  /\ strays = {}
  /\ message = [m \in Messages |-> "unsent"]
  /\ answers = [m \in Messages |-> {}]
  /\ published = [e \in Events |-> [m \in Modules |-> 0]]
  /\ returned = {}
  /\ dropped = {}
  /\ session = [s \in Sessions |-> Idle]
  /\ brokerUp = TRUE
  /\ budget = [faults |-> MaxFaults, edits |-> MaxEdits, nacks |-> MaxNacks,
               reprocess |-> MaxReprocess]

Pipeline(s) ==
  \/ FindType(s) \/ MissType(s) \/ CreateType(s) \/ Insert(s) \/ Route(s)
  \/ \E m \in Modules : PublishTo(s, m)
  \/ Commit(s)

Worker(w) == (\E m \in Messages : Receive(w, m)) \/ Pipeline(w) \/ Ack(w)

Request(r) == (\E m \in Messages : Submit(r, m)) \/ Pipeline(r) \/ Answer(r)

Operator(o) ==
  \/ \E e \in Events : OpenLetter(o, e)
  \/ Revalidate(o) \/ Route(o)
  \/ \E m \in Modules : PublishTo(o, m)
  \/ CommitReprocess(o) \/ CommitDiscard(o)

DlqHandler ==
  \/ \E m \in Messages : HandleReturned(m) \/ DropReturned(m)
  \/ \E e \in Events, m \in Modules : NackCopy(e, m) \/ HandleCopy(e, m)

Registry ==
  \E t \in Types : SetSchema(t) \/ \E m \in Modules : Declare(t, m) \/ Unsubscribe(t, m)

Next ==
  \/ \E m \in Messages : PublishToInbox(m)
  \/ \E w \in Workers : Worker(w)
  \/ \E r \in Requests : Request(r)
  \/ \E o \in Operators : Operator(o)
  \/ \E s \in Sessions : Raise(s) \/ Crash(s)
  \/ DlqHandler
  \/ Registry
  \/ BrokerDown \/ BrokerUp

Spec == Init /\ [][Next]_vars

(* Fairness.  The worker is offered every message of its two queues; a     *)
(* started session takes its next step unless a fault stops it, waiting    *)
(* for the transactions before it; the broker comes back.                  *)
Fairness ==
  /\ WF_vars(BrokerUp)
  /\ \A m \in Messages : /\ SF_vars(\E w \in Workers : Receive(w, m))
                         /\ WF_vars(HandleReturned(m))
  /\ \A w \in Workers : SF_vars(Pipeline(w)) /\ WF_vars(Ack(w))
  /\ \A r \in Requests : SF_vars(Pipeline(r)) /\ WF_vars(Answer(r))
  /\ \A o \in Operators : WF_vars(Operator(o) /\ session[o].pc # "idle")

FairSpec == Spec /\ Fairness

-----------------------------------------------------------------------------
(* Properties.                                                             *)

StrayLetters ==
  [about : Events \cup {NoEvent}, target : Modules \cup {NoModule}, reason : Reasons]

\* Every variable has its type; a schema belongs to a row of event_types.
TypeOK ==
  /\ known \subseteq Types
  /\ strict \subseteq known
  /\ received \in [Types -> Nat]
  /\ subscribed \in [Types -> SUBSET Modules]
  /\ log \in [Events -> [status : LogStatus, body : Messages \cup {NoMessage}]]
  /\ delivery \in [Events -> [Modules -> Outcome]]
  /\ letter \in [Events -> {"NONE", "OPEN", "RETRIED", "DISCARDED"}]
  /\ strays \subseteq StrayLetters
  /\ message \in [Messages -> {"unsent", "inbox", "http", "dlq", "done"}]
  /\ answers \in [Messages -> SUBSET {"200", "202", "422"}]
  /\ published \in [Events -> [Modules -> Nat]]
  /\ returned \subseteq Events \X Modules
  /\ dropped \subseteq Messages
  /\ session \in [Sessions -> Session]
  /\ brokerUp \in BOOLEAN
  /\ budget \in [{"faults", "edits", "nacks", "reprocess"} -> Nat]

Recorded(e) == (e # NoEvent /\ Logged(e)) \/ \E x \in strays : x.about = e

\* A message that RabbitMQ no longer holds for core.inbox left evidence: its
\* event is in the log or a dead letter tells of it, whatever crashed, was
\* redelivered, duplicated or rolled back; only a handler of q.dlq that
\* raises drops one ("Nada se pierde", base_topology).
EvidenceKept ==
  \A m \in Messages :
    message[m] = "done" /\ answers[m] = {} => m \in dropped \/ Recorded(EventOf[m])

\* A producer that sends an eventId again causes no second copy in any
\* module's queue, however many sessions handle it at once: the unique index
\* makes them wait ("no se produce ningun efecto nuevo", event_hub_service).
\* Crashes, rollbacks and lost confirms are another matter.
NoDoublePublish ==
  \A e \in Events : \A m \in Modules : published[e][m] <= 1

\* An event is REJECTED exactly while its dead letter was not retried with
\* success, so that an operator can always act on it.
RejectedIsActionable ==
  \A e \in Events : log[e].status = "REJECTED" <=> letter[e] \in {"OPEN", "DISCARDED"}

\* Although concurrent transactions overwrite each other's total_received, it
\* tells whether a type has had any traffic, which is what the integration
\* alerts read (total_received == 0, stats_service).
TrafficSeen ==
  \A t \in Types : received[t] > 0 <=> \E e \in Events : TypeOf[e] = t /\ Logged(e)

\* Whatever operators and schema changes overlap: an event is ROUTED only if
\* it has deliveries, and a delivery is DELIVERED only if a copy was put in
\* the module's queue.
RoutedIsBacked ==
  \A e \in Events :
    /\ log[e].status = "ROUTED" => \E m \in Modules : delivery[e][m] # "NONE"
    /\ \A m \in Modules : delivery[e][m] = "DELIVERED" => published[e][m] > 0

\* A message that can be read is never filed as unreadable: only what has no
\* valid envelope becomes MALFORMED_MESSAGE, which cannot be retried.  It does
\* not hold (README, divergences).
MalformedIsMalformed ==
  \A x \in strays : x.reason = "MALFORMED_MESSAGE" => x.about = NoEvent

\* A producer that corrected the data of a rejected event and sent it again
\* with the same eventId got it accepted.  It does not hold (README, divergences).
CorrectedIsAccepted ==
  \A m \in Messages : answers[m] # {} /\ m \in Fit => log[EventOf[m]].status # "REJECTED"

\* Every message in core.inbox is eventually out of RabbitMQ's hands (with
\* EvidenceKept: on record): no transaction waits for ever for another.
InboxDrains ==
  \A m \in Messages : message[m] = "inbox" ~> message[m] = "done"

-----------------------------------------------------------------------------
(* Refinement: the log and the deliveries keep the promise of EventHub.    *)

HubOutcome == [e \in Events |-> IF Logged(e) THEN log[e].status ELSE "NEW"]
HubReceivers == [e \in Events |-> {m \in Modules : delivery[e][m] # "NONE"}]

Promise == INSTANCE EventHub WITH outcome <- HubOutcome, receivers <- HubReceivers

\* With one operator at a time, the pipeline implements the hub's promise:
\* event and deliveries appear together, once, and stay.
HubKept == Promise!Spec

-----------------------------------------------------------------------------
(* What holds besides: the parts of the inductive invariant of the proofs. *)

\* What is in the log came in a message of the event; nothing belongs to an
\* event that is not there.
LogBacked ==
  \A e \in Events :
    /\ Logged(e) => log[e].body \in Messages /\ EventOf[log[e].body] = e
    /\ ~Logged(e) => letter[e] = "NONE" /\ \A m \in Modules : delivery[e][m] = "NONE"

EventAt(u) == EventOf[u.work]

Handles(u) == u.pc \in {"type", "create", "insert", "route", "publish", "check", "discard"}

\* A session at work has a message, and an event where it uses one; what it
\* routes has a receiver.
Working(u) ==
  /\ u.pc # "idle" => u.work \in Messages
  /\ Handles(u) \/ u.locks \/ u.status # "NONE" => u.work \in Messages /\ EventAt(u) \in Events
  /\ u.pc \in {"route", "publish"} => u.status # "NONE"
  /\ u.pc \notin {"publish", "answer", "commit"} => u.rows = Nothing
  /\ u.pc # "publish" => u.todo = {}
  /\ u.pc \in {"publish", "answer", "commit"} /\ u.status = "ROUTED"
       => \E m \in Modules : m \in u.todo \/ u.seen[m] = "DELIVERED" \/ u.rows[m] # "NONE"

\* A copy that a session counts as delivered was published.
Backed(u) ==
  \A m \in Modules :
    u.rows[m] = "DELIVERED" => EventAt(u) \in Events /\ published[EventAt(u)][m] > 0

\* A session that records an event holds its type and is the first; one that
\* records nothing found it recorded.
Records(u) ==
  /\ u.pc \notin {"check", "discard"} /\ u.seen = Nothing
  /\ u.pc = "insert" => u.total > 0
  /\ u.status # "NONE" => /\ u.pc \in {"route", "publish", "answer", "commit"}
                          /\ u.locks /\ u.total > 0 /\ ~Logged(EventAt(u))
  /\ u.pc \in {"answer", "commit"} /\ u.status = "NONE"
       => EventAt(u) = NoEvent \/ Logged(EventAt(u))
  /\ u.pc = "ack" => Recorded(EventAt(u))

\* An operator works on an event of the log, and its deliveries stay.
Retries(u) ==
  /\ u.pc \in {"idle", "check", "discard", "route", "publish", "commit"} /\ ~u.locks
  /\ u.pc # "idle" => EventAt(u) \in Events /\ Logged(EventAt(u))
  /\ u.pc = "commit" => u.status # "NONE"
  /\ \A m \in Modules : u.pc # "idle" /\ u.seen[m] # "NONE" => delivery[EventAt(u)][m] # "NONE"

Sound(s, u) == Working(u) /\ Backed(u) /\ IF s \in Operators THEN Retries(u) ELSE Records(u)

SessionsSound == \A s \in Sessions : Sound(s, session[s])

\* The flushed row of a type is locked by one transaction.
LocksExclude ==
  \A s, o \in Sessions : s # o /\ session[s].locks /\ session[o].locks => TypeIn(s) # TypeIn(o)

IInv ==
  /\ TypeOK /\ EvidenceKept /\ TrafficSeen /\ RoutedIsBacked
  /\ LogBacked /\ SessionsSound /\ LocksExclude

\* Only a routed event has deliveries.
RoutedAlone == \A e \in Events : log[e].status # "ROUTED" => delivery[e] = Nothing

\* What a session is going to record agrees with its deliveries; an operator
\* works on a rejected event whose letter is open.
Decided(s, u) ==
  /\ u.seen = Nothing
  /\ u.pc = "publish" => u.status = "ROUTED"
  /\ u.pc \in {"answer", "commit"} => (u.status = "ROUTED" <=> u.rows # Nothing)
  /\ s \in Operators /\ u.pc # "idle" =>
       /\ letter[EventAt(u)] = "OPEN"
       /\ u.pc \in {"route", "publish", "commit"} => u.was = "REJECTED"
       /\ u.pc \in {"route", "publish"} => u.fits
       /\ u.pc = "commit" => (u.fits <=> u.status # "REJECTED")

SessionsDecided == \A s \in Sessions : Decided(s, session[s])

\* While no two operators work on one event.
HubInv == IInv /\ RejectedIsActionable /\ RoutedAlone /\ SessionsDecided

\* A session still has to publish what it has not published; what was ever
\* published is a delivery, or the session that published it is at work.
Ahead == \A s \in Sessions : \A m \in session[s].todo : session[s].rows[m] = "NONE"

Publisher(e, m) ==
  \E s \in Sessions : /\ session[s].work \in Messages /\ EventIn(s) = e
                      /\ session[s].rows[m] = "DELIVERED"

PublishedKept ==
  \A e \in Events : \A m \in Modules :
    published[e][m] > 0 => delivery[e][m] = "DELIVERED" \/ Publisher(e, m)

\* With one operator at a time and no fault but outages.
OnceInv == HubInv /\ NoDoublePublish /\ Ahead /\ PublishedKept

=============================================================================
