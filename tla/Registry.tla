------------------------------- MODULE Registry -------------------------------
(***************************************************************************)
(* RegistryService: modules, event types with their owner, publications,   *)
(* subscriptions, and the queues the subscriptions make the Core declare.  *)
(* A request loads rows at one step, flushes what it inserts (and declares *)
(* the topology) at a second and commits at a third; other requests, the   *)
(* hub and the seed, which has three steps too, come in between, under     *)
(* READ COMMITTED.                                                         *)
(***************************************************************************)
EXTENDS Naturals, FiniteSets

CONSTANTS
  Modules,        \* names of modules
  Admin,          \* the one with is_admin
  Types,          \* names of event types
  Nobody,
  Requests,       \* concurrent requests
  Operations,     \* the operations that are asked for
  SeedPublishes,  \* what the board of the seed says: pairs module, type
  SeedConsumes,
  MaxRequests,    \* bound: requests served
  MaxEvents,      \* bound: events of a type that are received
  MaxSeeds        \* bound: runs of the seed

ASSUME RegistryAssumption ==
  /\ Admin \in Modules /\ Nobody \notin Modules
  /\ SeedPublishes \subseteq Modules \X Types
  /\ SeedConsumes \subseteq Modules \X Types
  /\ {MaxRequests, MaxEvents, MaxSeeds} \subseteq Nat

VARIABLES
  type,          \* type -> its row of event_types
  status,        \* module -> "ABSENT", "ACTIVE" or "INACTIVE"
  published,     \* rows of publications: pairs module, type
  subscription,  \* pair -> "NONE", "ACTIVE" or "PAUSED"
  queue,         \* modules whose queue RabbitMQ has, bound to muni.events
  owed,          \* observation: modules that came back, were seeded, or whose
                 \* queue the broker refused, since a declaration named them
  brokerUp,
  request,       \* request -> its unit of work
  seeding,       \* the unit of work of the seed
  asked, seeds   \* what the bounds count

tables == <<type, status, published, subscription>>
counters == <<asked, seeds>>
vars == <<tables, queue, owed, brokerUp, request, seeding, counters>>

Pairs == Modules \X Types

-----------------------------------------------------------------------------
\* schema: who wrote the json_schema in force, Nobody if the type has none.
Row == [known: BOOLEAN, owner: Modules \cup {Nobody}, discovered: BOOLEAN,
        schema: Modules \cup {Nobody}, received: 0..MaxEvents]
NoRow == [known |-> FALSE, owner |-> Nobody, discovered |-> FALSE,
          schema |-> Nobody, received |-> 0]

Status == {"ABSENT", "ACTIVE", "INACTIVE"}
Subscribed == {"NONE", "ACTIVE", "PAUSED"}

\* old, new:  the row of event_types as loaded and as it is going to be
\* publish:   the pair of publications it inserts or deletes
\* from, to:  the subscription as loaded and as it is going to be
\* was, will: the same of the module's status
\* missed:    the type was not there when it looked for it first
\* topology:  it calls apply_topology
\* gone:      another request deleted the row it holds
Unit == [step: {"idle", "declare", "flush", "commit"}, actor: Modules \cup {Nobody},
         type: Types \cup {Nobody}, module: Modules \cup {Nobody},
         old: Row, new: Row, publish: {"keep", "add", "drop"},
         from: Subscribed, to: Subscribed, was: Status, will: Status,
         missed: BOOLEAN, topology: BOOLEAN, gone: BOOLEAN]

Idle == [step |-> "idle", actor |-> Nobody, type |-> Nobody, module |-> Nobody,
         old |-> NoRow, new |-> NoRow, publish |-> "keep", from |-> "NONE", to |-> "NONE",
         was |-> "ABSENT", will |-> "ABSENT", missed |-> FALSE, topology |-> FALSE,
         gone |-> FALSE]

\* loaded: the rows of event_types as it found them; the rest is what it inserts.
SeedUnit == [step: {"idle", "types", "rest"}, loaded: [Types -> Row],
             modules: SUBSET Modules, publishes: SUBSET Pairs, subscribes: SUBSET Pairs]

SeedIdle == [step |-> "idle", loaded |-> [t \in Types |-> NoRow],
             modules |-> {}, publishes |-> {}, subscribes |-> {}]

Init ==
  /\ type = [t \in Types |-> NoRow]
  /\ status \in {[m \in Modules |-> IF m \in there THEN "ACTIVE" ELSE "ABSENT"] :
                   there \in {Modules, {Admin}}}
  /\ published = {}
  /\ subscription = [p \in Pairs |-> "NONE"]
  /\ queue = {} /\ owed = {} /\ brokerUp = TRUE
  /\ request = [r \in Requests |-> Idle] /\ seeding = SeedIdle
  /\ asked = 0 /\ seeds = 0

-----------------------------------------------------------------------------
(* Who may do what.                                                        *)

\* Modules that exist: a token outlives the deactivation of its module.
Callers == {m \in Modules : status[m] # "ABSENT"}

require_admin(actor) == actor = Admin

CanActOn(actor, m) == actor = Admin \/ actor = m

CanClaimFor(actor, owner) == actor = Admin \/ actor = owner

Owns_without_check(actor, row) == TRUE

Owns(actor, row) ==
  \/ actor = Admin
  \/ row.owner = Nobody
  \/ row.discovered       \* the hub guessed that owner
  \/ row.owner = actor

(* Units of work.                                                          *)

\* A request that passed its guards keeps what it loaded and what it will do.
Begin(r, unit) ==
  /\ request[r] = Idle /\ asked < MaxRequests
  /\ request' = [request EXCEPT ![r] = unit]
  /\ asked' = asked + 1
  /\ UNCHANGED <<tables, queue, owed, brokerUp, seeding, seeds>>

OnType(step, actor, t) ==
  [Idle EXCEPT !.step = step, !.actor = actor, !.type = t, !.old = type[t], !.new = type[t]]

\* find_pair and get_required load the module with the subscription.
OnPair(step, actor, m, t) ==
  [OnType(step, actor, t) EXCEPT
     !.module = m, !.was = status[m], !.will = status[m],
     !.from = subscription[<<m, t>>], !.to = subscription[<<m, t>>]]

\* The type was not there when it was looked for: declare_event_type is next.
OnMissing(actor, m, t) ==
  [OnType("declare", actor, t) EXCEPT
     !.module = m, !.was = status[m], !.will = status[m], !.missed = TRUE]

\* The keys of unique indexes that a unit inserts.
Inserts(u) ==
  (IF u.new.known /\ ~u.old.known THEN {<<"type", u.type>>} ELSE {})
    \cup (IF u.publish = "add" THEN {<<"publication", u.module, u.type>>} ELSE {})
    \cup (IF u.from = "NONE" /\ u.to # "NONE" THEN {<<"subscription", u.module, u.type>>} ELSE {})
    \cup (IF u.was = "ABSENT" /\ u.will # "ABSENT" THEN {<<"module", u.module>>} ELSE {})

Taken ==
  {<<"type", t>> : t \in {x \in Types : type[x].known}}
    \cup {<<"publication", p[1], p[2]>> : p \in published}
    \cup {<<"subscription", p[1], p[2]>> : p \in {x \in Pairs : subscription[x] # "NONE"}}
    \cup {<<"module", m>> : m \in {x \in Modules : status[x] # "ABSENT"}}

SeedTypes == {t \in Types : \E m \in Modules : <<m, t>> \in SeedPublishes \cup SeedConsumes}

SeedInsertsTypes == {<<"type", t>> : t \in {x \in SeedTypes : ~seeding.loaded[x].known}}

SeedInsertsRest ==
  {<<"module", m>> : m \in seeding.modules}
    \cup {<<"publication", p[1], p[2]>> : p \in seeding.publishes}
    \cup {<<"subscription", p[1], p[2]>> : p \in seeding.subscribes}

\* What transactions that flushed and did not end hold.
Pending ==
  UNION {Inserts(request[q]) : q \in {x \in Requests : request[x].step = "commit"}}
    \cup IF seeding.step = "rest" THEN SeedInsertsTypes ELSE {}

(* Topology.                                                               *)

\* Modules whose queue apply_topology declares for r: r sees its own changes,
\* and the status of its module as it loaded it.
active_queue_names(r) ==
  LET u == request[r]
      Sub(p) == IF p = <<u.module, u.type>> /\ u.topology THEN u.to ELSE subscription[p]
      Up(m) == IF m = u.module THEN u.was = "ACTIVE" ELSE status[m] = "ACTIVE"
  IN {m \in Modules : Up(m) /\ \E t \in Types : Sub(<<m, t>>) = "ACTIVE"}

Committed_queue_names ==
  {m \in Modules : status[m] = "ACTIVE" /\ \E t \in Types : subscription[<<m, t>>] = "ACTIVE"}

\* Idempotent, and it only adds.
Declare(names) ==
  /\ queue' = IF brokerUp THEN queue \cup names ELSE queue
  /\ owed' = IF brokerUp THEN owed \ names ELSE owed \cup names

-----------------------------------------------------------------------------
(* The service, one operator per operation: its guards, and what it will   *)
(* write. A refused request leaves nothing.                                *)

register_module(r, actor, m) ==
  /\ status[m] = "ABSENT"
  /\ Begin(r, [Idle EXCEPT !.step = "flush", !.actor = actor, !.module = m,
                           !.was = "ABSENT", !.will = "ACTIVE"])

\* It does not call apply_topology, whichever way the module goes.
update_module(r, actor, m, s) ==
  /\ status[m] # "ABSENT"
  /\ Begin(r, [Idle EXCEPT !.step = "commit", !.actor = actor, !.module = m,
                           !.was = status[m], !.will = s])

\* given: it carries a json_schema.
declare_event_type(r, actor, t, owner, given) ==
  /\ CanClaimFor(actor, owner)
  /\ type[t].known => Owns(actor, type[t])
  /\ LET u == OnType(IF type[t].known THEN "commit" ELSE "flush", actor, t)
     IN Begin(r, [u EXCEPT !.new.known = TRUE, !.new.owner = owner, !.new.discovered = FALSE,
                          !.new.schema = IF given THEN actor ELSE u.old.schema])

\* The mark discovered stays.
set_schema(r, actor, t, given) ==
  /\ type[t].known /\ Owns(actor, type[t])
  /\ Begin(r, [OnType("commit", actor, t) EXCEPT
                 !.new.schema = IF given THEN actor ELSE Nobody])

subscribe_without_topology(r, actor, m, t) ==
  /\ CanActOn(actor, m) /\ status[m] # "ABSENT"
  /\ Begin(r, [IF type[t].known THEN OnPair("flush", actor, m, t) ELSE OnMissing(actor, m, t)
                 EXCEPT !.to = "ACTIVE"])

subscribe(r, actor, m, t) ==
  /\ CanActOn(actor, m) /\ status[m] # "ABSENT"
  /\ Begin(r, [IF type[t].known THEN OnPair("flush", actor, m, t) ELSE OnMissing(actor, m, t)
                 EXCEPT !.to = "ACTIVE", !.topology = TRUE])

unsubscribe(r, actor, m, t) ==
  /\ subscription[<<m, t>>] # "NONE" /\ CanActOn(actor, m)
  /\ Begin(r, [OnPair("commit", actor, m, t) EXCEPT !.to = "NONE"])

set_subscription_active(r, actor, m, t, to) ==
  /\ subscription[<<m, t>>] # "NONE" /\ CanActOn(actor, m)
  /\ Begin(r, [OnPair("flush", actor, m, t) EXCEPT !.to = to, !.topology = TRUE])

declare_publication(r, actor, m, t) ==
  /\ CanActOn(actor, m) /\ status[m] # "ABSENT"
  /\ Begin(r, IF type[t].known
              THEN [OnType("flush", actor, t) EXCEPT
                      !.module = m, !.was = status[m], !.will = status[m],
                      !.publish = IF <<m, t>> \in published THEN "keep" ELSE "add"]
              ELSE [OnMissing(actor, m, t) EXCEPT !.publish = "add"])

remove_publication(r, actor, m, t) ==
  /\ <<m, t>> \in published /\ CanActOn(actor, m)
  /\ Begin(r, [OnType("commit", actor, t) EXCEPT !.module = m, !.was = status[m],
                                                 !.will = status[m], !.publish = "drop"])

-----------------------------------------------------------------------------
(* The API: who calls what, and what it fills in.                          *)

create_module(r) ==
  \E actor \in Callers, m \in Modules : require_admin(actor) /\ register_module(r, actor, m)

edit_module(r) ==
  \E actor \in Callers, m \in Modules, s \in {"ACTIVE", "INACTIVE"} :
    require_admin(actor) /\ update_module(r, actor, m, s)

post_event_type(r) ==
  \E actor \in Callers, t \in Types, ownerModule \in Modules \cup {Nobody}, given \in BOOLEAN :
    declare_event_type(r, actor, t, IF ownerModule = Nobody THEN actor ELSE ownerModule, given)

put_schema(r) ==
  \E actor \in Callers, t \in Types, given \in BOOLEAN : set_schema(r, actor, t, given)

post_subscription(r) ==
  \E actor \in Callers, m \in Modules, t \in Types : subscribe(r, actor, m, t)

toggle_subscription(r) ==
  \E actor \in Callers, m \in Modules, t \in Types, to \in {"ACTIVE", "PAUSED"} :
    set_subscription_active(r, actor, m, t, to)

delete_subscription(r) ==
  \E actor \in Callers, m \in Modules, t \in Types : unsubscribe(r, actor, m, t)

post_publication(r) ==
  \E actor \in Callers, m \in Modules, t \in Types : declare_publication(r, actor, m, t)

delete_publication(r) ==
  \E actor \in Callers, m \in Modules, t \in Types : remove_publication(r, actor, m, t)

\* POST /topology/apply: with the broker down it answers 503 and changes nothing.
apply_topology ==
  /\ brokerUp
  /\ Declare(Committed_queue_names)
  /\ UNCHANGED <<tables, brokerUp, request, seeding, counters>>

(* The middle and the end of a request.                                    *)

\* What declare_event_type makes of the row it finds, for nobody (actor_module
\* is None, so that no owner is asked): a publication passes an owner.
Declared(u, row) ==
  [row EXCEPT !.known = TRUE, !.discovered = FALSE,
              !.owner = IF u.publish = "add" THEN u.module ELSE @]

\* A subscription or publication of a type that was not there looks for it
\* again, and then for the pair.
declare_missing(r) ==
  LET u == request[r]
      p == <<u.module, u.type>>
  IN
  /\ u.step = "declare"
  /\ request' = [request EXCEPT ![r] =
       [u EXCEPT !.step = "flush", !.old = type[u.type], !.new = Declared(u, type[u.type]),
                 !.publish = IF p \in published THEN "keep" ELSE @,
                 !.from = IF u.to = "ACTIVE" THEN subscription[p] ELSE @]]
  /\ UNCHANGED <<tables, queue, owed, brokerUp, seeding, counters>>

\* An insert waits for whoever holds its key, and fails if the key is taken.
Flush(r) ==
  LET u == request[r] IN
  /\ u.step = "flush"
  /\ Inserts(u) \cap Pending = {}
  /\ \/ /\ Inserts(u) \cap Taken # {}
        /\ request' = [request EXCEPT ![r] = Idle]
        /\ UNCHANGED <<queue, owed>>
     \/ /\ Inserts(u) \cap Taken = {}
        /\ request' = [request EXCEPT ![r].step = "commit"]
        /\ IF u.topology THEN Declare(active_queue_names(r)) ELSE UNCHANGED <<queue, owed>>
  /\ UNCHANGED <<tables, brokerUp, seeding, counters>>

Written_whole(current, old, new) == new

\* An UPDATE names the columns that changed, and only those.
Written(current, old, new) ==
  [c \in DOMAIN current |-> IF old[c] # new[c] THEN new[c] ELSE current[c]]

Stale_never(u) == FALSE

\* An UPDATE of a row that is gone ends the request; a DELETE of it is nothing.
Stale(u) == u.gone /\ u.from # u.to /\ u.to # "NONE"

\* Another request holds the row that u deletes.
HoldsDeleted(u, v) ==
  /\ ~u.gone /\ v.step # "idle" /\ v.module = u.module /\ v.type = u.type
  /\ \/ u.from # "NONE" /\ u.to = "NONE" /\ v.from # "NONE"
     \/ u.publish = "drop" /\ v.publish = "drop"

Write(u) ==
  LET p == <<u.module, u.type>> IN
  /\ type' = IF u.type = Nobody THEN type
             ELSE [type EXCEPT ![u.type] = Written(@, u.old, u.new)]
  /\ status' = IF u.was = u.will THEN status ELSE [status EXCEPT ![u.module] = u.will]
  /\ published' = CASE u.publish = "add" -> published \cup {p}
                    [] u.publish = "drop" /\ ~u.gone -> published \ {p}
                    [] OTHER -> published
  /\ subscription' = IF u.from = u.to \/ (u.gone /\ u.to = "NONE") THEN subscription
                     ELSE [subscription EXCEPT ![p] = u.to]
  /\ owed' = IF u.was = "INACTIVE" /\ u.will = "ACTIVE" THEN owed \cup {u.module} ELSE owed

Commit(r) ==
  LET u == request[r] IN
  /\ u.step = "commit"
  /\ IF Stale(u) THEN UNCHANGED <<tables, owed>> ELSE Write(u)
  /\ request' = [q \in Requests |->
                   IF q = r THEN Idle
                   ELSE IF HoldsDeleted(u, request[q])
                        THEN [request[q] EXCEPT !.gone = TRUE] ELSE request[q]]
  /\ UNCHANGED <<queue, brokerUp, seeding, counters>>

-----------------------------------------------------------------------------
(* The hub, the seed and the broker, around the requests.                  *)

get_or_create_twice(m, t) ==
  /\ type[t].received < MaxEvents
  /\ type' = [type EXCEPT ![t].received = @ + 2]
  /\ UNCHANGED <<status, published, subscription, queue, owed, brokerUp, request, seeding,
                 counters>>

\* The hub takes an event of type t, published by m.
get_or_create(m, t) ==
  /\ <<"type", t>> \notin Pending
  /\ type[t].received < MaxEvents
  /\ type' = [type EXCEPT ![t] =
                IF type[t].known THEN [type[t] EXCEPT !.received = @ + 1]
                ELSE [NoRow EXCEPT !.known = TRUE, !.owner = m, !.discovered = TRUE,
                                   !.received = 1]]
  /\ UNCHANGED <<status, published, subscription, queue, owed, brokerUp, request, seeding,
                 counters>>

\* The first module of the board that publishes t.
SeedOwner(t) ==
  IF \E m \in Modules : <<m, t>> \in SeedPublishes
  THEN CHOOSE m \in Modules : <<m, t>> \in SeedPublishes ELSE Nobody

\* Nobody else writes a row that was not there: it is inserted.
Seeded(t, row) ==
  IF row.known /\ row.owner # Nobody THEN row
  ELSE [row EXCEPT !.known = TRUE, !.owner = SeedOwner(t)]

\* python -m app.seeds: it loads the event types it will need.
SeedLoads ==
  /\ seeding.step = "idle" /\ seeds < MaxSeeds
  /\ seeding' = [SeedIdle EXCEPT !.step = "types", !.loaded = type]
  /\ seeds' = seeds + 1
  /\ UNCHANGED <<tables, queue, owed, brokerUp, request, asked>>

\* It inserts the ones that are missing, as a request would, and looks for the
\* modules and the pairs.
SeedFlushes ==
  /\ seeding.step = "types"
  /\ SeedInsertsTypes \cap Pending = {}
  /\ seeding' = IF SeedInsertsTypes \cap Taken # {} THEN SeedIdle
                ELSE [seeding EXCEPT
                        !.step = "rest",
                        !.modules = {m \in Modules : status[m] = "ABSENT"},
                        !.publishes = SeedPublishes \ published,
                        !.subscribes = {p \in SeedConsumes : subscription[p] = "NONE"}]
  /\ UNCHANGED <<tables, queue, owed, brokerUp, request, counters>>

\* Everything it inserts and the owners it fills in, or nothing. It declares no
\* queue.
SeedCommits ==
  /\ seeding.step = "rest"
  /\ SeedInsertsRest \cap Pending = {} /\ SeedInsertsRest \cap Taken = {}
  /\ type' = [t \in Types |->
                IF t \in SeedTypes
                THEN Written(type[t], seeding.loaded[t], Seeded(t, seeding.loaded[t]))
                ELSE type[t]]
  /\ status' = [m \in Modules |-> IF m \in seeding.modules THEN "ACTIVE" ELSE status[m]]
  /\ published' = published \cup seeding.publishes
  /\ subscription' = [p \in Pairs |-> IF p \in seeding.subscribes THEN "ACTIVE"
                                      ELSE subscription[p]]
  /\ owed' = owed \cup {p[1] : p \in seeding.subscribes}
  /\ seeding' = SeedIdle
  /\ UNCHANGED <<queue, brokerUp, request, counters>>

\* A key that is taken, or anything else that goes wrong, rolls it back.
SeedFails ==
  /\ seeding.step # "idle"
  /\ seeding' = SeedIdle
  /\ UNCHANGED <<tables, queue, owed, brokerUp, request, counters>>

seed == SeedLoads \/ SeedFlushes \/ SeedCommits \/ SeedFails

Broker ==
  /\ brokerUp' = ~brokerUp
  /\ UNCHANGED <<tables, queue, owed, request, seeding, counters>>

Serve(r) ==
  \/ "modules" \in Operations /\ (create_module(r) \/ edit_module(r))
  \/ "types" \in Operations /\ (post_event_type(r) \/ put_schema(r))
  \/ "subscriptions" \in Operations
       /\ (post_subscription(r) \/ toggle_subscription(r) \/ delete_subscription(r))
  \/ "publications" \in Operations /\ (post_publication(r) \/ delete_publication(r))
  \/ declare_missing(r)
  \/ Flush(r)
  \/ Commit(r)

Hub == "events" \in Operations /\ \E m \in Modules, t \in Types : get_or_create(m, t)

Next ==
  \/ \E r \in Requests : Serve(r)
  \/ Hub
  \/ seed
  \/ "subscriptions" \in Operations /\ apply_topology
  \/ "outages" \in Operations /\ Broker

Spec == Init /\ [][Next]_vars

-----------------------------------------------------------------------------
(* What the statistics say of the registry.                                *)

\* counts_by_event_type does not look at the module: one that is inactive counts.
Subscribers(t) == {m \in Modules : subscription[<<m, t>>] = "ACTIVE"}

\* active_for_event_type, which routes, does.
Receivers(t) == {m \in Subscribers(t) : status[m] = "ACTIVE"}

Producers(t) == {m \in Modules : <<m, t>> \in published}

\* It asks for subscribers only.
integration_alerts_of_received(t) ==
  IF type[t].received > 0 /\ Subscribers(t) = {} THEN {"NO_SUBSCRIBERS"}
  ELSE IF type[t].received = 0 /\ Subscribers(t) # {} THEN {"NEVER_RECEIVED"}
  ELSE {}

integration_alerts(t) ==
  LET received == type[t].received > 0
      awaited == Subscribers(t) # {}
      announced == Producers(t) # {}
  IN {k \in {"NO_SUBSCRIBERS", "UNDECLARED_TYPE", "NEVER_RECEIVED",
             "NO_PRODUCER_DECLARED", "NO_CONSUMER_DECLARED"} :
        \/ k = "NO_SUBSCRIBERS" /\ received /\ ~awaited
        \/ k = "UNDECLARED_TYPE" /\ received /\ type[t].discovered
        \/ k = "NEVER_RECEIVED" /\ ~received /\ awaited /\ announced
        \/ k = "NO_PRODUCER_DECLARED" /\ ~received /\ awaited /\ ~announced
        \/ k = "NO_CONSUMER_DECLARED" /\ ~received /\ ~awaited /\ announced}

-----------------------------------------------------------------------------
(* Properties.                                                             *)

\* Type invariant of the registry, its requests and its queues.
TypeOK ==
  /\ type \in [Types -> Row]
  /\ status \in [Modules -> Status]
  /\ published \subseteq Pairs
  /\ subscription \in [Pairs -> Subscribed]
  /\ queue \subseteq Modules /\ owed \subseteq Modules /\ brokerUp \in BOOLEAN
  /\ request \in [Requests -> Unit] /\ seeding \in SeedUnit
  /\ asked \in 0..MaxRequests /\ seeds \in 0..MaxSeeds

Commits(r) == request[r].step = "commit" /\ request'[r] = Idle

Claimed(row) == row.known /\ ~row.discovered /\ row.owner # Nobody

Unclaimed(row) == ~Claimed(row)

SeedLeaves == seeding.step = "rest" /\ seeding' = SeedIdle

\* Whoever commits a change of t is the administrator or the owner that the
\* request had found, or somebody who had found the type absent or unclaimed; or
\* it is a seed that had found it absent or without owner.
Entitled(t) ==
  \/ \E r \in Requests : /\ Commits(r) /\ request[r].type = t
                         /\ \/ request[r].actor \in {Admin, request[r].old.owner}
                            \/ request[r].missed \/ Unclaimed(request[r].old)
  \/ SeedLeaves /\ (~seeding.loaded[t].known \/ seeding.loaded[t].owner = Nobody)

\* A type that somebody declared, with an owner, changes owner or schema only by
\* one who had looked at it before that claim was there, or who may
\* (_assert_owns_event_type): a request that begins, or a seed that loads, after
\* the claim never takes it away, however they overlap with the hub and others.
OwnersHold ==
  [][\A t \in Types :
       Claimed(type[t]) /\ (type'[t].owner # type[t].owner \/ type'[t].schema # type[t].schema)
         => Entitled(t)]_vars

\* The same without regard to when they looked, as the docstring of
\* declare_event_type has it: it does not hold (README, divergences).
ClaimsStand ==
  [][\A t \in Types :
       Claimed(type[t]) /\ type'[t].owner # type[t].owner
         => \E r \in Requests : /\ Commits(r) /\ request[r].type = t
                                /\ request[r].actor \in {Admin, type[t].owner}]_vars

\* integration_alerts against the routing: a type that somebody sends and
\* nobody hears, or the other way round, has exactly one warning; one that is
\* declared, sent and heard has none; and a type whose events reach nobody is
\* warned about unless an inactive module is subscribed to it.
HolesAreAlerted ==
  \A t \in Types :
    LET said == type[t].received > 0 \/ Producers(t) # {}
        heard == Subscribers(t) # {}
        warnings == integration_alerts(t)
                      \cap {"NO_SUBSCRIBERS", "NO_PRODUCER_DECLARED", "NO_CONSUMER_DECLARED"}
    IN /\ Cardinality(warnings) = IF said = heard THEN 0 ELSE 1
       /\ (type[t].received > 0 /\ heard /\ ~type[t].discovered) => integration_alerts(t) = {}
       /\ said /\ Receivers(t) = {}
            => warnings # {} \/ \E m \in Subscribers(t) : status[m] # "ACTIVE"

Routable(m) == status[m] = "ACTIVE" /\ \E t \in Types : subscription[<<m, t>>] = "ACTIVE"

\* Requests interleaved with outages, seeds and other requests never leave an
\* active subscription of an active module without the queue the hub publishes
\* to, except for the reasons that owed names.
QueuesReady == \A m \in Modules : Routable(m) => m \in queue \cup owed

\* A type that was declared is never marked discovered again, whatever rows the
\* requests in flight loaded before.
DeclaredStays ==
  [][\A t \in Types : type[t].known /\ ~type[t].discovered
       => type'[t].known /\ ~type'[t].discovered]_vars

\* A subscription that was cancelled comes back only when somebody who found
\* none subscribes again, or from a seed that found none: a toggle or a
\* subscription request that loaded the row before the cancellation does not
\* restore it.
CancelledStays ==
  [][\A p \in Pairs : subscription[p] = "NONE" /\ subscription'[p] # "NONE"
       => \/ SeedLeaves /\ p \in seeding.subscribes
          \/ \E r \in Requests : Commits(r) /\ request[r].from = "NONE"]_vars

-----------------------------------------------------------------------------
(* What holds besides: the parts of the inductive invariant of the proofs. *)

\* What a unit of work may write, given what it loaded.
Consistent(u) ==
  /\ u.step = "idle" => u = Idle
  /\ u.old.known => u.new.known
  /\ u.new.discovered => u.old.discovered
  /\ u.new.owner # u.old.owner \/ u.new.schema # u.old.schema
       => u.actor \in {Admin, u.old.owner} \/ u.missed \/ ~Claimed(u.old)
  /\ u.publish = "add" \/ u.from # "NONE" \/ u.to # "NONE"
       => u.module \in Modules /\ u.type \in Types
  /\ u.was # "ABSENT" \/ u.will # "ABSENT" => u.module \in Modules /\ u.will # "ABSENT"
  /\ u.was = "ABSENT" => u.from = u.to
  /\ u.step = "declare" => /\ u.missed /\ u.module \in Modules /\ u.type \in Types
                           /\ u.was # "ABSENT" /\ u.from = "NONE" /\ u.to \in {"NONE", "ACTIVE"}

UnitsConsistent == \A r \in Requests : Consistent(request[r])

\* A request that found a subscription still has it, or knows that it is gone.
FoundOrGone ==
  \A r \in Requests :
    LET u == request[r] IN
    u.from # "NONE" /\ ~u.gone => subscription[<<u.module, u.type>>] # "NONE"

\* Nobody subscribes for a module that is not there.
SubscribersExist ==
  /\ \A m \in Modules : status[m] = "ABSENT" => \A t \in Types : subscription[<<m, t>>] = "NONE"
  /\ \A r \in Requests : request[r].was # "ABSENT" => status[request[r].module] # "ABSENT"

Registers(u) == u.step = "commit" /\ u.was = "ABSENT" /\ u.will # "ABSENT"

\* A request that registers a module holds its name.
NamesHeld ==
  \A r \in Requests : Registers(request[r]) =>
    /\ status[request[r].module] = "ABSENT"
    /\ \A q \in Requests \ {r} : Registers(request[q]) => request[q].module # request[r].module

\* A request that activates a subscription has declared the queue of its module,
\* is going to, or found the module inactive.
QueuesComing ==
  \A r \in Requests :
    LET u == request[r] IN
    /\ u.from # u.to /\ u.to = "ACTIVE" /\ status[u.module] = "ACTIVE"
    => \/ u.module \in queue \cup owed
       \/ u.step \in {"declare", "flush"} /\ u.topology /\ u.was = "ACTIVE"

\* A seed is going to register every module that is not there.
SeedRegisters ==
  seeding.step = "rest" => \A m \in Modules : status[m] = "ABSENT" => m \in seeding.modules

IInv ==
  /\ TypeOK /\ QueuesReady /\ UnitsConsistent /\ FoundOrGone /\ SubscribersExist
  /\ NamesHeld /\ QueuesComing /\ SeedRegisters

===============================================================================
