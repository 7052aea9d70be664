---------------------------- MODULE RegistryProofs ----------------------------
(***************************************************************************)
(* Proofs about Registry, for any modules, event types and requests, any   *)
(* board of the seed and any bounds.                                       *)
(***************************************************************************)
EXTENDS Registry, FiniteSetTheorems, TLAPS

\* Only commits, the hub and the seed write event_types and subscriptions.
RegistryWrites ==
  \/ UNCHANGED <<type, subscription>>
  \/ \E r \in Requests : Commit(r)
  \/ \E m \in Modules, t \in Types : get_or_create(m, t)
  \/ SeedCommits

\* What a request that begins may be.
Fresh(u) ==
  /\ u \in Unit /\ u.step # "idle" /\ ~u.gone /\ Consistent(u) /\ ~Registers(u)
  /\ u.from # "NONE" => subscription[<<u.module, u.type>>] # "NONE"
  /\ u.was # "ABSENT" => status[u.module] # "ABSENT"
  /\ u.from # u.to /\ u.to = "ACTIVE"
       => u.step \in {"declare", "flush"} /\ u.topology /\ (status[u.module] = "ACTIVE" => u.was = "ACTIVE")

-----------------------------------------------------------------------------
(* The units the operations are built from.                                *)

LEMMA IdleTyped == NoRow \in Row /\ Idle \in Unit
<1>1. NoRow \in Row
  BY RegistryAssumption DEF NoRow, Row
<1>2. QED
  BY <1>1 DEF Idle, Unit, Status, Subscribed

LEMMA OnTypeTyped ==
  ASSUME TypeOK, NEW k \in {"declare", "flush", "commit"}, NEW a \in Modules, NEW t \in Types,
         NEW u, u = OnType(k, a, t)
  PROVE  /\ u \in Unit
         /\ u.step = k /\ u.actor = a /\ u.type = t /\ u.module = Nobody
         /\ u.old = type[t] /\ u.new = type[t] /\ u.publish = "keep"
         /\ u.from = "NONE" /\ u.to = "NONE" /\ u.was = "ABSENT" /\ u.will = "ABSENT"
         /\ ~u.topology /\ ~u.gone
<1>1. type[t] \in Row
  BY DEF TypeOK
<1>2. u \in Unit
  BY <1>1, IdleTyped DEF OnType, Unit
<1>3. /\ u.step = k /\ u.actor = a /\ u.type = t
      /\ u.old = type[t] /\ u.new = type[t]
  BY IdleTyped DEF OnType, Unit
<1>4. /\ u.module = Nobody /\ u.publish = "keep"
      /\ u.from = "NONE" /\ u.to = "NONE" /\ u.was = "ABSENT" /\ u.will = "ABSENT"
      /\ ~u.topology /\ ~u.gone
  BY DEF OnType, Idle
<1>5. QED
  BY <1>2, <1>3, <1>4

LEMMA OnMissingTyped ==
  ASSUME TypeOK, NEW a \in Modules, NEW m \in Modules, NEW t \in Types,
         NEW u, u = OnMissing(a, m, t)
  PROVE  /\ u \in Unit
         /\ u.step = "declare" /\ u.type = t /\ u.module = m
         /\ u.old = type[t] /\ u.new = type[t] /\ u.publish = "keep"
         /\ u.from = "NONE" /\ u.to = "NONE" /\ u.was = status[m] /\ u.will = status[m]
         /\ u.missed /\ ~u.topology /\ ~u.gone
<1>1. PICK v : v = OnType("declare", a, t)
  OBVIOUS
<1>2. /\ v \in Unit /\ v.step = "declare" /\ v.type = t
      /\ v.old = type[t] /\ v.new = type[t] /\ v.publish = "keep"
      /\ v.from = "NONE" /\ v.to = "NONE" /\ ~v.topology /\ ~v.gone
  BY <1>1, OnTypeTyped
<1>3. status[m] \in Status
  BY DEF TypeOK
<1>4. u = [v EXCEPT !.module = m, !.was = status[m], !.will = status[m], !.missed = TRUE]
  BY <1>1 DEF OnMissing
<1>5. u \in Unit
  BY <1>2, <1>3, <1>4 DEF Unit
<1>6. /\ u.step = "declare" /\ u.type = t /\ u.module = m
      /\ u.old = type[t] /\ u.new = type[t] /\ u.publish = "keep"
      /\ u.from = "NONE" /\ u.to = "NONE" /\ u.was = status[m] /\ u.will = status[m]
  BY <1>2, <1>4 DEF Unit
<1>7. u.missed /\ ~u.topology /\ ~u.gone
  BY <1>2, <1>4 DEF Unit
<1>8. QED
  BY <1>5, <1>6, <1>7

LEMMA OnPairTyped ==
  ASSUME TypeOK, NEW k \in {"flush", "commit"}, NEW a \in Modules,
         NEW m \in Modules, NEW t \in Types, NEW u, u = OnPair(k, a, m, t)
  PROVE  /\ u \in Unit
         /\ u.step = k /\ u.actor = a /\ u.type = t /\ u.module = m
         /\ u.old = type[t] /\ u.new = type[t] /\ u.publish = "keep"
         /\ u.from = subscription[<<m, t>>] /\ u.to = u.from
         /\ u.was = status[m] /\ u.will = status[m]
         /\ ~u.topology /\ ~u.gone
<1>1. subscription[<<m, t>>] \in Subscribed /\ status[m] \in Status
  BY DEF TypeOK, Pairs
<1>2. PICK v : v = OnType(k, a, t)
  OBVIOUS
<1>3. /\ v \in Unit
      /\ v.step = k /\ v.actor = a /\ v.type = t
      /\ v.old = type[t] /\ v.new = type[t] /\ v.publish = "keep"
      /\ ~v.topology /\ ~v.gone
  BY <1>2, OnTypeTyped
<1>4. u = [v EXCEPT !.module = m, !.was = status[m], !.will = status[m],
                    !.from = subscription[<<m, t>>], !.to = subscription[<<m, t>>]]
  BY <1>2 DEF OnPair
<1>5. u \in Unit
  BY <1>1, <1>3, <1>4 DEF Unit
<1>6. /\ u.module = m /\ u.was = status[m] /\ u.will = status[m]
      /\ u.from = subscription[<<m, t>>] /\ u.to = u.from
  BY <1>3, <1>4 DEF Unit
<1>7. /\ u.step = k /\ u.actor = a /\ u.type = t
      /\ u.old = type[t] /\ u.new = type[t] /\ u.publish = "keep"
  BY <1>3, <1>4 DEF Unit
<1>8. u.topology = v.topology /\ u.gone = v.gone
  BY <1>3, <1>4 DEF Unit
<1>9. QED
  BY <1>3, <1>5, <1>6, <1>7, <1>8

\* A commit of a row of event_types leaves a row, column by column.
LEMMA WrittenTyped ==
  ASSUME NEW current \in Row, NEW old \in Row, NEW new \in Row
  PROVE  LET w == Written(current, old, new) IN
         /\ w \in Row
         /\ w.known = IF old.known # new.known THEN new.known ELSE current.known
         /\ w.owner = IF old.owner # new.owner THEN new.owner ELSE current.owner
         /\ w.discovered = IF old.discovered # new.discovered THEN new.discovered
                           ELSE current.discovered
         /\ w.schema = IF old.schema # new.schema THEN new.schema ELSE current.schema
<1>1. DOMAIN current = {"known", "owner", "discovered", "schema", "received"}
  BY DEF Row
<1> DEFINE w == Written(current, old, new)
<1>2. w = [known |-> w.known, owner |-> w.owner, discovered |-> w.discovered,
           schema |-> w.schema, received |-> w.received]
  BY <1>1 DEF Written
<1>3. /\ w.known = IF old.known # new.known THEN new.known ELSE current.known
      /\ w.owner = IF old.owner # new.owner THEN new.owner ELSE current.owner
      /\ w.discovered = IF old.discovered # new.discovered THEN new.discovered
                        ELSE current.discovered
      /\ w.schema = IF old.schema # new.schema THEN new.schema ELSE current.schema
      /\ w.received = IF old.received # new.received THEN new.received ELSE current.received
  BY <1>1 DEF Written
<1>4. QED
  BY <1>2, <1>3 DEF Row

-----------------------------------------------------------------------------
(* Every operation begins a unit that is Fresh.                            *)

LEMMA ModulesFresh ==
  ASSUME TypeOK, NEW r \in Requests, NEW actor \in Modules, NEW m \in Modules,
         NEW s \in {"ACTIVE", "INACTIVE"},
         register_module(r, actor, m) \/ update_module(r, actor, m, s)
  PROVE  \E u : Fresh(u) /\ Begin(r, u)
<1>1. Idle \in Unit /\ status[m] \in Status
  BY IdleTyped DEF TypeOK
<1>2. ASSUME register_module(r, actor, m)
      PROVE  \E u : Fresh(u) /\ Begin(r, u)
  <2>1. PICK u : /\ u = [Idle EXCEPT !.step = "flush", !.actor = actor, !.module = m,
                                     !.was = "ABSENT", !.will = "ACTIVE"]
                 /\ Begin(r, u)
    BY <1>2, Zenon DEF register_module
  <2>2. u \in Unit
    BY <1>1, <2>1 DEF Unit, Status
  <2>3. u.step = "flush" /\ u.module = m /\ u.was = "ABSENT" /\ u.will = "ACTIVE"
    BY <1>1, <2>1 DEF Unit
  <2>4. /\ u.old = NoRow /\ u.new = NoRow /\ u.publish = "keep" /\ u.from = "NONE"
        /\ u.to = "NONE" /\ ~u.gone
    BY <2>1 DEF Idle
  <2>5. Fresh(u)
    BY <2>2, <2>3, <2>4 DEF Fresh, Consistent, Registers
  <2>6. QED
    BY <2>1, <2>5
<1>3. ASSUME update_module(r, actor, m, s)
      PROVE  \E u : Fresh(u) /\ Begin(r, u)
  <2>1. PICK u : /\ u = [Idle EXCEPT !.step = "commit", !.actor = actor, !.module = m,
                                     !.was = status[m], !.will = s]
                 /\ Begin(r, u)
    BY <1>3, Zenon DEF update_module
  <2>2. u \in Unit
    BY <1>1, <2>1 DEF Unit, Status
  <2>3. /\ u.step = "commit" /\ u.module = m /\ u.was = status[m] /\ u.will = s
        /\ status[m] # "ABSENT"
    BY <1>1, <1>3, <2>1 DEF Unit, update_module
  <2>4. /\ u.old = NoRow /\ u.new = NoRow /\ u.publish = "keep" /\ u.from = "NONE"
        /\ u.to = "NONE" /\ ~u.gone
    BY <2>1 DEF Idle
  <2>5. Fresh(u)
    BY <2>2, <2>3, <2>4 DEF Fresh, Consistent, Registers
  <2>6. QED
    BY <2>1, <2>5
<1>4. QED
  BY <1>2, <1>3

LEMMA DeclarationsFresh ==
  ASSUME TypeOK, NEW r \in Requests, NEW actor \in Modules, NEW t \in Types,
         NEW owner \in Modules \cup {Nobody}, NEW given \in BOOLEAN,
         declare_event_type(r, actor, t, owner, given)
  PROVE  \E u : Fresh(u) /\ Begin(r, u)
<1>1. PICK v : v = OnType(IF type[t].known THEN "commit" ELSE "flush", actor, t)
  OBVIOUS
<1>2. PICK new : new = [v.new EXCEPT !.known = TRUE, !.owner = owner, !.discovered = FALSE,
                                     !.schema = IF given THEN actor ELSE v.old.schema]
  OBVIOUS
<1>3. PICK u : u = [v EXCEPT !.new.known = TRUE, !.new.owner = owner, !.new.discovered = FALSE,
                             !.new.schema = IF given THEN actor ELSE v.old.schema]
  OBVIOUS
<1>4. Begin(r, u) /\ (type[t].known => Owns(actor, type[t]))
  BY <1>1, <1>3, Zenon DEF declare_event_type
<1>5. /\ v \in Unit /\ v.step \in {"flush", "commit"} /\ v.actor = actor /\ v.type = t
      /\ v.module = Nobody /\ v.old = type[t] /\ v.new = type[t] /\ v.publish = "keep"
      /\ v.from = "NONE" /\ v.to = "NONE" /\ v.was = "ABSENT" /\ v.will = "ABSENT" /\ ~v.gone
  BY <1>1, OnTypeTyped
<1>6. new \in Row /\ new.known /\ ~new.discovered
  <2>1. v.new \in Row /\ v.old \in Row
    BY <1>5 DEF TypeOK
  <2>2. QED
    BY <1>2, <2>1 DEF Row
<1>7. u = [v EXCEPT !.new = new]
  BY <1>2, <1>3, <1>5 DEF Unit, Row
<1>8. /\ u \in Unit /\ u.step \in {"flush", "commit"} /\ u.actor = actor
      /\ u.old = type[t] /\ u.new = new /\ u.publish = "keep"
      /\ u.from = "NONE" /\ u.to = "NONE" /\ u.was = "ABSENT" /\ u.will = "ABSENT" /\ ~u.gone
  BY <1>5, <1>6, <1>7 DEF Unit
<1>9. actor \in {Admin, type[t].owner} \/ ~Claimed(type[t])
  BY <1>4 DEF Owns, Claimed
<1>10. Fresh(u)
  BY <1>6, <1>8, <1>9 DEF Fresh, Consistent, Registers
<1>11. QED
  BY <1>4, <1>10

LEMMA SchemasFresh ==
  ASSUME TypeOK, NEW r \in Requests, NEW actor \in Modules, NEW t \in Types,
         NEW given \in BOOLEAN, set_schema(r, actor, t, given)
  PROVE  \E u : Fresh(u) /\ Begin(r, u)
<1>1. PICK v : v = OnType("commit", actor, t)
  OBVIOUS
<1>2. PICK new : new = [v.new EXCEPT !.schema = IF given THEN actor ELSE Nobody]
  OBVIOUS
<1>3. PICK u : u = [v EXCEPT !.new.schema = IF given THEN actor ELSE Nobody]
  OBVIOUS
<1>4. Begin(r, u) /\ Owns(actor, type[t])
  BY <1>1, <1>3, Zenon DEF set_schema
<1>5. /\ v \in Unit /\ v.step = "commit" /\ v.actor = actor
      /\ v.old = type[t] /\ v.new = type[t] /\ v.publish = "keep"
      /\ v.from = "NONE" /\ v.to = "NONE" /\ v.was = "ABSENT" /\ v.will = "ABSENT" /\ ~v.gone
  BY <1>1, OnTypeTyped
<1>6. /\ new \in Row /\ type[t] \in Row
      /\ new.known = type[t].known /\ new.discovered = type[t].discovered
  <2>1. v.new \in Row
    BY <1>5 DEF TypeOK
  <2>2. QED
    BY <1>2, <1>5, <2>1 DEF Row
<1>7. u = [v EXCEPT !.new = new]
  BY <1>2, <1>3, <1>5 DEF Unit, Row
<1>8. /\ u \in Unit /\ u.step = "commit" /\ u.actor = actor
      /\ u.old = type[t] /\ u.new = new /\ u.publish = "keep"
      /\ u.from = "NONE" /\ u.to = "NONE" /\ u.was = "ABSENT" /\ u.will = "ABSENT" /\ ~u.gone
  BY <1>5, <1>6, <1>7 DEF Unit
<1>9. actor \in {Admin, type[t].owner} \/ ~Claimed(type[t])
  BY <1>4 DEF Owns, Claimed
<1>10. Fresh(u)
  BY <1>6, <1>8, <1>9 DEF Fresh, Consistent, Registers
<1>11. QED
  BY <1>4, <1>10

\* subscribe, unsubscribe and set_subscription_active, told by what they ask for.
LEMMA SubscriptionsFresh ==
  ASSUME TypeOK, SubscribersExist, NEW r \in Requests, NEW actor \in Modules,
         NEW m \in Modules, NEW t \in Types, NEW s \in {"ACTIVE", "PAUSED"},
         \/ subscribe(r, actor, m, t)
         \/ unsubscribe(r, actor, m, t)
         \/ set_subscription_active(r, actor, m, t, s)
  PROVE  \E u : Fresh(u) /\ Begin(r, u)
<1>1. type[t] \in Row
  BY DEF TypeOK
<1>2. subscription[<<m, t>>] # "NONE" => status[m] # "ABSENT"
  BY DEF SubscribersExist
<1>3. ASSUME subscribe(r, actor, m, t)
      PROVE  \E u : Fresh(u) /\ Begin(r, u)
  <2>1. PICK v : v = IF type[t].known THEN OnPair("flush", actor, m, t) ELSE OnMissing(actor, m, t)
    OBVIOUS
  <2>2. PICK u : u = [v EXCEPT !.to = "ACTIVE", !.topology = TRUE]
    OBVIOUS
  <2>3. Begin(r, u) /\ status[m] # "ABSENT"
    BY <1>3, <2>1, <2>2, Zenon DEF subscribe
  <2>4. /\ v \in Unit /\ v.step \in {"declare", "flush"} /\ v.module = m /\ v.type = t
        /\ v.old = type[t] /\ v.new = type[t] /\ v.publish = "keep"
        /\ v.from \in {"NONE", subscription[<<m, t>>]}
        /\ v.step = "declare" => v.missed /\ v.from = "NONE"
        /\ v.was = status[m] /\ v.will = status[m] /\ ~v.gone
    <3>1. CASE type[t].known
      BY <2>1, <3>1, OnPairTyped
    <3>2. CASE ~type[t].known
      BY <2>1, <3>2, OnMissingTyped
    <3>3. QED
      BY <3>1, <3>2
  <2>5. u \in Unit
    BY <2>2, <2>4 DEF Unit, Subscribed
  <2>6. /\ u.step = v.step /\ u.module = m /\ u.type = t
        /\ u.old = type[t] /\ u.new = type[t] /\ u.publish = "keep"
        /\ u.from = v.from /\ u.to = "ACTIVE" /\ u.was = status[m] /\ u.will = status[m]
    BY <2>2, <2>4 DEF Unit
  <2>7. u.topology /\ ~u.gone /\ (v.step = "declare" => u.missed)
    BY <2>2, <2>4 DEF Unit
  <2>8. Consistent(u)
    BY <2>3, <2>4, <2>6, <2>7 DEF Consistent
  <2>9. Fresh(u)
    BY <2>3, <2>4, <2>5, <2>6, <2>7, <2>8 DEF Fresh, Registers
  <2>10. QED
    BY <2>3, <2>9
<1>4. ASSUME unsubscribe(r, actor, m, t)
      PROVE  \E u : Fresh(u) /\ Begin(r, u)
  <2>1. PICK v : v = OnPair("commit", actor, m, t)
    OBVIOUS
  <2>2. PICK u : u = [v EXCEPT !.to = "NONE"]
    OBVIOUS
  <2>3. Begin(r, u) /\ subscription[<<m, t>>] # "NONE"
    BY <1>4, <2>1, <2>2, Zenon DEF unsubscribe
  <2>4. /\ v \in Unit /\ v.step = "commit" /\ v.module = m /\ v.type = t
        /\ v.old = type[t] /\ v.new = type[t] /\ v.publish = "keep"
        /\ v.from = subscription[<<m, t>>] /\ v.was = status[m] /\ v.will = status[m] /\ ~v.gone
    BY <2>1, OnPairTyped
  <2>5. u \in Unit
    BY <2>2, <2>4 DEF Unit, Subscribed
  <2>6. /\ u.step = "commit" /\ u.module = m /\ u.type = t
        /\ u.old = type[t] /\ u.new = type[t] /\ u.publish = "keep"
        /\ u.from = subscription[<<m, t>>] /\ u.to = "NONE"
        /\ u.was = status[m] /\ u.will = status[m]
    BY <2>2, <2>4 DEF Unit
  <2>7. ~u.gone
    BY <2>2, <2>4 DEF Unit
  <2>8. Fresh(u)
    BY <1>2, <2>3, <2>5, <2>6, <2>7 DEF Fresh, Consistent, Registers
  <2>9. QED
    BY <2>3, <2>8
<1>5. ASSUME set_subscription_active(r, actor, m, t, s)
      PROVE  \E u : Fresh(u) /\ Begin(r, u)
  <2>1. PICK v : v = OnPair("flush", actor, m, t)
    OBVIOUS
  <2>2. PICK u : u = [v EXCEPT !.to = s, !.topology = TRUE]
    OBVIOUS
  <2>3. Begin(r, u) /\ subscription[<<m, t>>] # "NONE"
    BY <1>5, <2>1, <2>2, Zenon DEF set_subscription_active
  <2>4. /\ v \in Unit /\ v.step = "flush" /\ v.module = m /\ v.type = t
        /\ v.old = type[t] /\ v.new = type[t] /\ v.publish = "keep"
        /\ v.from = subscription[<<m, t>>] /\ v.was = status[m] /\ v.will = status[m] /\ ~v.gone
    BY <2>1, OnPairTyped
  <2>5. u \in Unit
    BY <2>2, <2>4 DEF Unit, Subscribed
  <2>6. /\ u.step = "flush" /\ u.module = m /\ u.type = t
        /\ u.old = type[t] /\ u.new = type[t] /\ u.publish = "keep"
        /\ u.from = subscription[<<m, t>>] /\ u.to = s
        /\ u.was = status[m] /\ u.will = status[m]
    BY <2>2, <2>4 DEF Unit
  <2>7. u.topology /\ ~u.gone
    BY <2>2, <2>4 DEF Unit
  <2>8. Fresh(u)
    BY <1>2, <2>3, <2>5, <2>6, <2>7 DEF Fresh, Consistent, Registers
  <2>9. QED
    BY <2>3, <2>8
<1>6. QED
  BY <1>3, <1>4, <1>5

LEMMA PublicationsFresh ==
  ASSUME TypeOK, NEW r \in Requests, NEW actor \in Modules, NEW m \in Modules, NEW t \in Types,
         declare_publication(r, actor, m, t) \/ remove_publication(r, actor, m, t)
  PROVE  \E u : Fresh(u) /\ Begin(r, u)
<1>1. type[t] \in Row /\ status[m] \in Status
  BY DEF TypeOK
<1>2. ASSUME declare_publication(r, actor, m, t)
      PROVE  \E u : Fresh(u) /\ Begin(r, u)
  <2>1. status[m] # "ABSENT"
    BY <1>2 DEF declare_publication
  <2>2. CASE type[t].known
    <3>1. PICK v : v = OnType("flush", actor, t)
      OBVIOUS
    <3>2. PICK u : u = [v EXCEPT !.module = m, !.was = status[m], !.will = status[m],
                                 !.publish = IF <<m, t>> \in published THEN "keep" ELSE "add"]
      OBVIOUS
    <3>3. Begin(r, u)
      BY <1>2, <2>2, <3>1, <3>2, Zenon DEF declare_publication
    <3>4. /\ v \in Unit /\ v.step = "flush" /\ v.type = t
          /\ v.old = type[t] /\ v.new = type[t] /\ v.from = "NONE" /\ v.to = "NONE" /\ ~v.gone
      BY <3>1, OnTypeTyped
    <3>5. u \in Unit
      BY <1>1, <3>2, <3>4 DEF Unit
    <3>6. /\ u.step = "flush" /\ u.module = m /\ u.type = t
          /\ u.old = type[t] /\ u.new = type[t] /\ u.from = "NONE" /\ u.to = "NONE"
          /\ u.was = status[m] /\ u.will = status[m]
      BY <3>2, <3>4 DEF Unit
    <3>7. ~u.gone
      BY <3>2, <3>4 DEF Unit
    <3>8. Fresh(u)
      BY <2>1, <3>5, <3>6, <3>7 DEF Fresh, Consistent, Registers
    <3>9. QED
      BY <3>3, <3>8
  <2>3. CASE ~type[t].known
    <3>1. PICK v : v = OnMissing(actor, m, t)
      OBVIOUS
    <3>2. PICK u : u = [v EXCEPT !.publish = "add"]
      OBVIOUS
    <3>3. Begin(r, u)
      BY <1>2, <2>3, <3>1, <3>2, Zenon DEF declare_publication
    <3>4. /\ v \in Unit /\ v.step = "declare" /\ v.type = t /\ v.module = m
          /\ v.old = type[t] /\ v.new = type[t] /\ v.from = "NONE" /\ v.to = "NONE"
          /\ v.was = status[m] /\ v.will = status[m] /\ v.missed /\ ~v.gone
      BY <3>1, OnMissingTyped
    <3>5. u \in Unit
      BY <3>2, <3>4 DEF Unit
    <3>6. /\ u.step = "declare" /\ u.module = m /\ u.type = t
          /\ u.old = type[t] /\ u.new = type[t] /\ u.from = "NONE" /\ u.to = "NONE"
          /\ u.was = status[m] /\ u.will = status[m]
      BY <3>2, <3>4 DEF Unit
    <3>7. u.missed /\ ~u.gone
      BY <3>2, <3>4 DEF Unit
    <3>8. Fresh(u)
      BY <2>1, <3>5, <3>6, <3>7 DEF Fresh, Consistent, Registers
    <3>9. QED
      BY <3>3, <3>8
  <2>4. QED
    BY <2>2, <2>3
<1>3. ASSUME remove_publication(r, actor, m, t)
      PROVE  \E u : Fresh(u) /\ Begin(r, u)
  <2>1. PICK v : v = OnType("commit", actor, t)
    OBVIOUS
  <2>2. PICK u : u = [v EXCEPT !.module = m, !.was = status[m], !.will = status[m],
                               !.publish = "drop"]
    OBVIOUS
  <2>3. Begin(r, u)
    BY <1>3, <2>1, <2>2, Zenon DEF remove_publication
  <2>4. /\ v \in Unit /\ v.step = "commit" /\ v.actor = actor /\ v.type = t
        /\ v.old = type[t] /\ v.new = type[t] /\ v.from = "NONE" /\ v.to = "NONE" /\ ~v.gone
    BY <2>1, OnTypeTyped
  <2>5. u \in Unit
    BY <1>1, <2>2, <2>4 DEF Unit
  <2>6. /\ u.step = "commit" /\ u.module = m /\ u.type = t /\ u.publish = "drop"
        /\ u.old = type[t] /\ u.new = type[t] /\ u.from = "NONE" /\ u.to = "NONE"
        /\ u.was = status[m] /\ u.will = status[m]
    BY <2>2, <2>4 DEF Unit
  <2>7. ~u.gone
    BY <2>2, <2>4 DEF Unit
  <2>8. Fresh(u)
    BY <2>3, <2>5, <2>6, <2>7 DEF Fresh, Consistent, Registers
  <2>9. QED
    BY <2>3, <2>8
<1>4. QED
  BY <1>2, <1>3

-----------------------------------------------------------------------------
(* The steps of a request.                                                 *)

LEMMA BeginKeeps ==
  ASSUME IInv, NEW r \in Requests, NEW u, Fresh(u), Begin(r, u)
  PROVE  IInv'
<1>1. /\ request[r] = Idle /\ asked < MaxRequests /\ asked' = asked + 1
      /\ request' = [request EXCEPT ![r] = u]
      /\ UNCHANGED <<type, status, published, subscription, queue, owed, brokerUp, seeding, seeds>>
  BY DEF Begin, tables
<1>2. request'[r] = u /\ \A q \in Requests : q # r => request'[q] = request[q]
  BY <1>1 DEF IInv, TypeOK
<1>3. TypeOK'
  <2>1. request' \in [Requests -> Unit]
    BY <1>1 DEF Fresh, IInv, TypeOK
  <2>2. asked' \in 0..MaxRequests
    BY <1>1, RegistryAssumption DEF IInv, TypeOK
  <2>3. QED
    BY <1>1, <2>1, <2>2 DEF IInv, TypeOK
<1>4. QueuesReady'
  BY <1>1 DEF IInv, QueuesReady, Routable
<1>5. UnitsConsistent'
  BY <1>2 DEF Fresh, IInv, UnitsConsistent
<1>6. FoundOrGone'
  BY <1>1, <1>2 DEF Fresh, IInv, FoundOrGone
<1>7. SubscribersExist'
  BY <1>1, <1>2 DEF Fresh, IInv, SubscribersExist
<1>8. NamesHeld'
  <2>1. \A q \in Requests : Registers(request'[q]) => q # r /\ Registers(request[q])
    BY <1>2 DEF Fresh
  <2>2. QED
    BY <1>1, <1>2, <2>1 DEF IInv, NamesHeld
<1>9. QueuesComing'
  BY <1>1, <1>2 DEF Fresh, IInv, QueuesComing
<1>10. SeedRegisters'
  BY <1>1 DEF IInv, SeedRegisters
<1>11. QED
  BY <1>3, <1>4, <1>5, <1>6, <1>7, <1>8, <1>9, <1>10 DEF IInv

\* The second look at a type that was missing.
LEMMA DeclareMissingKeeps ==
  ASSUME IInv, NEW r \in Requests, declare_missing(r)
  PROVE  IInv'
<1>1. PICK u, p, row, new :
        /\ u = request[r] /\ p = <<u.module, u.type>> /\ row = type[u.type]
        /\ new = Declared(u, row)
  OBVIOUS
<1>2. PICK publish, from :
        /\ publish = IF p \in published THEN "keep" ELSE u.publish
        /\ from = IF u.to = "ACTIVE" THEN subscription[p] ELSE u.from
  OBVIOUS
<1>3. PICK w : w = [u EXCEPT !.step = "flush", !.old = row, !.new = new, !.publish = publish,
                             !.from = from]
  OBVIOUS
<1>4. /\ u.step = "declare" /\ request' = [request EXCEPT ![r] = w]
      /\ UNCHANGED <<type, status, published, subscription, queue, owed, brokerUp, seeding,
                     asked, seeds>>
  BY <1>1, <1>2, <1>3 DEF declare_missing, tables, counters
<1>5. /\ u \in Unit /\ Consistent(u) /\ request \in [Requests -> Unit]
      /\ u.module \in Modules /\ u.type \in Types /\ u.was # "ABSENT" /\ u.will # "ABSENT"
      /\ u.from = "NONE" /\ u.to \in {"NONE", "ACTIVE"}
  BY <1>1, <1>4 DEF IInv, TypeOK, UnitsConsistent, Consistent
<1>6. u.missed
  BY <1>4, <1>5 DEF Consistent
<1>7. row \in Row /\ subscription[p] \in Subscribed
  BY <1>1, <1>5 DEF IInv, TypeOK, Pairs
<1>8. new \in Row /\ new.known /\ ~new.discovered
  <2>1. (IF u.publish = "add" THEN u.module ELSE row.owner) \in Modules \cup {Nobody}
    BY <1>5, <1>7 DEF Row
  <2>2. PICK o \in Modules \cup {Nobody} : o = IF u.publish = "add" THEN u.module ELSE row.owner
    BY <2>1
  <2>3. new = [row EXCEPT !.known = TRUE, !.discovered = FALSE, !.owner = o]
    BY <1>1, <2>2 DEF Declared
  <2>4. QED
    BY <1>7, <2>3 DEF Row
<1>9. publish \in {"keep", "add", "drop"} /\ from \in Subscribed
  BY <1>2, <1>5, <1>7 DEF Unit
<1>10. /\ w \in Unit
       /\ w.step = "flush" /\ w.module = u.module /\ w.type = u.type
       /\ w.old = row /\ w.new = new /\ w.from = from /\ w.to = u.to
       /\ w.was = u.was /\ w.will = u.will
  <2>1. u \in Unit
    BY <1>5
  <2>2. row \in Row
    BY <1>7
  <2>3. new \in Row
    BY <1>8
  <2>4. publish \in {"keep", "add", "drop"}
    BY <1>9
  <2>5. from \in Subscribed
    BY <1>9
  <2>6. QED
    BY <1>3, <2>1, <2>2, <2>3, <2>4, <2>5 DEF Unit
<1>11. w.missed /\ (w.topology <=> u.topology) /\ (w.gone <=> u.gone)
  BY <1>3, <1>5, <1>6 DEF Unit
<1>12. Consistent(w)
  BY <1>5, <1>8, <1>10, <1>11 DEF Consistent
<1>13. request'[r] = w /\ \A q \in Requests : q # r => request'[q] = request[q]
  BY <1>4, <1>5
<1>14. TypeOK'
  <2>1. request' \in [Requests -> Unit]
    BY <1>4, <1>5, <1>10
  <2>2. QED
    BY <1>4, <2>1 DEF IInv, TypeOK
<1>15. QueuesReady' /\ SeedRegisters'
  BY <1>4 DEF IInv, QueuesReady, Routable, SeedRegisters
<1>16. UnitsConsistent'
  BY <1>12, <1>13 DEF IInv, UnitsConsistent
<1>17. FoundOrGone'
  <2>1. w.from # "NONE" => subscription[<<w.module, w.type>>] # "NONE"
    BY <1>1, <1>2, <1>5, <1>10
  <2>2. QED
    BY <1>4, <1>13, <2>1 DEF IInv, FoundOrGone
<1>18. SubscribersExist'
  <2>1. \A q \in Requests : /\ request'[q].was = request[q].was
                            /\ request'[q].module = request[q].module
    BY <1>1, <1>10, <1>13
  <2>2. QED
    BY <1>4, <2>1 DEF IInv, SubscribersExist
<1>19. NamesHeld'
  <2>1. \A q \in Requests : Registers(request'[q]) => q # r /\ Registers(request[q])
    BY <1>10, <1>13 DEF Registers
  <2>2. QED
    BY <1>4, <1>13, <2>1 DEF IInv, NamesHeld
<1>20. QueuesComing'
  <2>1. w.from # w.to /\ w.to = "ACTIVE" => u.from # u.to /\ u.to = "ACTIVE"
    BY <1>5, <1>10
  <2>2. QED
    BY <1>1, <1>4, <1>10, <1>11, <1>13, <2>1 DEF IInv, QueuesComing
<1>21. QED
  BY <1>14, <1>15, <1>16, <1>17, <1>18, <1>19, <1>20 DEF IInv

\* A declaration takes no module out of queue and owed together.
LEMMA DeclareKeeps ==
  ASSUME TypeOK, NEW ns, ns \subseteq Modules, Declare(ns)
  PROVE  /\ queue' \subseteq Modules /\ owed' \subseteq Modules
         /\ \A m \in Modules : m \in queue \cup owed \cup ns => m \in queue' \cup owed'
BY DEF TypeOK, Declare

LEMMA FlushKeeps ==
  ASSUME IInv, NEW r \in Requests, Flush(r)
  PROVE  IInv'
<1> DEFINE u == request[r]
<1>1. /\ u.step = "flush"
      /\ UNCHANGED <<type, status, published, subscription, brokerUp, seeding, asked, seeds>>
      /\ u \in Unit /\ Consistent(u)
  BY DEF Flush, tables, counters, IInv, TypeOK, UnitsConsistent
<1>2. request \in [Requests -> Unit]
  BY DEF IInv, TypeOK
<1>3. CASE request' = [request EXCEPT ![r] = Idle] /\ UNCHANGED <<queue, owed>>
  <2>1. request'[r] = Idle /\ \A q \in Requests : q # r => request'[q] = request[q]
    BY <1>2, <1>3
  <2>2. /\ Idle.from = "NONE" /\ Idle.to = "NONE" /\ Idle.was = "ABSENT" /\ Idle.will = "ABSENT"
        /\ Idle.step = "idle" /\ Consistent(Idle)
    BY DEF Idle, Consistent, NoRow
  <2>3. TypeOK'
    <3>1. request' \in [Requests -> Unit]
      BY <1>2, <1>3, IdleTyped
    <3>2. QED
      BY <1>1, <1>3, <3>1 DEF IInv, TypeOK
  <2>4. /\ QueuesReady' /\ UnitsConsistent' /\ FoundOrGone' /\ SubscribersExist' /\ QueuesComing'
        /\ SeedRegisters'
    BY <1>1, <1>3, <2>1, <2>2 DEF IInv, QueuesReady, Routable, UnitsConsistent, FoundOrGone,
       SubscribersExist, QueuesComing, SeedRegisters
  <2>5. NamesHeld'
    BY <1>1, <2>1, <2>2 DEF IInv, NamesHeld, Registers
  <2>6. QED
    BY <2>3, <2>4, <2>5 DEF IInv
<1>4. CASE /\ Inserts(u) \cap Pending = {} /\ Inserts(u) \cap Taken = {}
           /\ request' = [request EXCEPT ![r].step = "commit"]
           /\ IF u.topology THEN Declare(active_queue_names(r)) ELSE UNCHANGED <<queue, owed>>
  <2>1. request'[r] = [u EXCEPT !.step = "commit"]
        /\ \A q \in Requests : q # r => request'[q] = request[q]
    BY <1>2, <1>4
  <2>2. /\ request'[r] \in Unit /\ request'[r].step = "commit"
        /\ request'[r].actor = u.actor /\ request'[r].type = u.type /\ request'[r].module = u.module
        /\ request'[r].old = u.old /\ request'[r].new = u.new /\ request'[r].publish = u.publish
        /\ request'[r].from = u.from /\ request'[r].to = u.to
        /\ request'[r].was = u.was /\ request'[r].will = u.will
    BY <1>1, <2>1 DEF Unit
  <2>3. (request'[r].gone <=> u.gone) /\ (request'[r].missed <=> u.missed)
    BY <1>1, <2>1 DEF Unit
  <2>4. active_queue_names(r) \subseteq Modules
    BY DEF active_queue_names
  <2>5. /\ queue' \subseteq Modules /\ owed' \subseteq Modules
        /\ \A m \in Modules : m \in queue \cup owed => m \in queue' \cup owed'
        /\ u.topology => \A m \in active_queue_names(r) : m \in queue' \cup owed'
    <3>1. CASE u.topology
      BY <1>4, <2>4, <3>1, DeclareKeeps DEF IInv
    <3>2. CASE ~u.topology
      BY <1>4, <3>2 DEF IInv, TypeOK
    <3>3. QED
      BY <3>1, <3>2
  <2>6. TypeOK'
    <3>1. request' \in [Requests -> Unit]
      BY <1>2, <1>4, <2>1, <2>2
    <3>2. QED
      BY <1>1, <2>5, <3>1 DEF IInv, TypeOK
  <2>7. QueuesReady'
    BY <1>1, <2>5 DEF IInv, QueuesReady, Routable
  <2>8. UnitsConsistent'
    <3>1. Consistent(request'[r])
      BY <1>1, <2>2, <2>3 DEF Consistent
    <3>2. QED
      BY <2>1, <3>1 DEF IInv, UnitsConsistent
  <2>9. FoundOrGone'
    <3>1. SUFFICES ASSUME NEW q \in Requests, request'[q].from # "NONE", ~request'[q].gone
                   PROVE  subscription[<<request'[q].module, request'[q].type>>] # "NONE"
      BY <1>1 DEF FoundOrGone
    <3>2. /\ request[q].from # "NONE" /\ ~request[q].gone
          /\ request'[q].module = request[q].module /\ request'[q].type = request[q].type
      BY <2>1, <2>2, <2>3, <3>1
    <3>3. QED
      BY <3>2 DEF IInv, FoundOrGone
  <2>10. SubscribersExist'
    <3>1. \A q \in Requests : /\ request'[q].was = request[q].was
                              /\ request'[q].module = request[q].module
      BY <2>1, <2>2
    <3>2. QED
      BY <1>1, <3>1 DEF IInv, SubscribersExist
  <2>11. NamesHeld'
    <3>1. ASSUME u.was = "ABSENT", u.will # "ABSENT"
          PROVE  /\ status[u.module] = "ABSENT"
                 /\ \A q \in Requests : Registers(request[q]) => request[q].module # u.module
      <4>1. <<"module", u.module>> \in Inserts(u) /\ u.module \in Modules
        BY <1>1, <3>1 DEF Inserts, Consistent
      <4>2. status[u.module] = "ABSENT"
        BY <1>4, <4>1 DEF Taken
      <4>3. ASSUME NEW q \in Requests, Registers(request[q]), request[q].module = u.module
            PROVE  FALSE
        <5>1. <<"module", u.module>> \in Inserts(request[q])
          BY <4>3 DEF Inserts, Registers
        <5>2. <<"module", u.module>> \in Pending
          BY <4>3, <5>1 DEF Pending, Registers
        <5>3. QED
          BY <1>4, <4>1, <5>2
      <4>4. QED
        BY <4>2, <4>3
    <3>2. \A q \in Requests : /\ request'[q].module = request[q].module
                              /\ q # r => request'[q] = request[q]
      BY <2>1, <2>2
    <3>3. Registers(request'[r]) => u.was = "ABSENT" /\ u.will # "ABSENT"
      BY <2>2 DEF Registers
    <3>4. QED
      BY <1>1, <3>1, <3>2, <3>3 DEF IInv, NamesHeld
  <2>12. QueuesComing'
    <3>1. ASSUME u.from # u.to, u.to = "ACTIVE", status[u.module] = "ACTIVE"
          PROVE  u.module \in queue' \cup owed'
      <4>1. u.module \in Modules /\ u.type \in Types
        BY <1>1, <3>1 DEF Consistent
      <4>2. CASE u.module \in queue \cup owed
        BY <2>5, <4>1, <4>2
      <4>3. CASE u.topology /\ u.was = "ACTIVE"
        <5>1. u.module \in active_queue_names(r)
          BY <3>1, <4>1, <4>3 DEF active_queue_names
        <5>2. QED
          BY <2>5, <4>3, <5>1
      <4>4. QED
        BY <3>1, <4>2, <4>3 DEF IInv, QueuesComing
    <3>2. SUFFICES ASSUME NEW q \in Requests, request'[q].from # request'[q].to,
                          request'[q].to = "ACTIVE", status[request'[q].module] = "ACTIVE"
                   PROVE  \/ request'[q].module \in queue' \cup owed'
                          \/ /\ request'[q].step \in {"declare", "flush"}
                             /\ request'[q].topology /\ request'[q].was = "ACTIVE"
      BY <1>1 DEF QueuesComing
    <3>3. CASE q = r
      BY <2>2, <3>1, <3>2, <3>3
    <3>4. CASE q # r
      <4>1. request[q].module \in Modules
        BY <2>1, <3>2, <3>4 DEF IInv, UnitsConsistent, Consistent
      <4>2. QED
        BY <2>1, <2>5, <3>2, <3>4, <4>1 DEF IInv, QueuesComing
    <3>5. QED
      BY <3>3, <3>4
  <2>13. SeedRegisters'
    BY <1>1 DEF IInv, SeedRegisters
  <2>14. QED
    BY <2>6, <2>7, <2>8, <2>9, <2>10, <2>11, <2>12, <2>13 DEF IInv
<1>5. QED
  BY <1>3, <1>4 DEF Flush

\* What a commit does to the requests: r is done, and some others learn that
\* the row they hold is gone.
LEMMA CommitLeaves ==
  ASSUME IInv, NEW r \in Requests, Commit(r), NEW q \in Requests
  PROVE  /\ request'[q] \in Unit /\ Consistent(request'[q])
         /\ q = r => request'[q] = Idle
         /\ q # r => /\ request'[q].step = request[q].step /\ request'[q].type = request[q].type
                     /\ request'[q].module = request[q].module
                     /\ request'[q].from = request[q].from /\ request'[q].to = request[q].to
                     /\ request'[q].was = request[q].was /\ request'[q].will = request[q].will
                     /\ request'[q].topology <=> request[q].topology
                     /\ ~request'[q].gone => ~request[q].gone /\ ~HoldsDeleted(request[r], request[q])
<1>1. /\ request'[q] = IF q = r THEN Idle
                       ELSE IF HoldsDeleted(request[r], request[q])
                            THEN [request[q] EXCEPT !.gone = TRUE] ELSE request[q]
  BY DEF Commit
<1>2. request[q] \in Unit /\ Consistent(request[q])
  BY DEF IInv, TypeOK, UnitsConsistent
<1>3. CASE q = r
  BY <1>1, <1>3, IdleTyped DEF Consistent, Idle, NoRow
<1>4. CASE q # r /\ HoldsDeleted(request[r], request[q])
  <2>1. PICK v : v = request[q]
    OBVIOUS
  <2>2. PICK w : w = [v EXCEPT !.gone = TRUE]
    OBVIOUS
  <2>3. v \in Unit /\ Consistent(v) /\ v.step # "idle"
    BY <1>2, <1>4, <2>1 DEF HoldsDeleted
  <2>4. /\ w \in Unit
        /\ w.step = v.step /\ w.actor = v.actor /\ w.type = v.type /\ w.module = v.module
        /\ w.old = v.old /\ w.new = v.new /\ w.publish = v.publish
        /\ w.from = v.from /\ w.to = v.to /\ w.was = v.was /\ w.will = v.will
    BY <2>2, <2>3 DEF Unit
  <2>5. w.gone /\ (w.topology <=> v.topology) /\ (w.missed <=> v.missed)
    BY <2>2, <2>3 DEF Unit
  <2>6. Consistent(w)
    BY <2>3, <2>4, <2>5 DEF Consistent
  <2>7. request'[q] = w
    BY <1>1, <1>4, <2>1, <2>2
  <2>8. QED
    BY <1>4, <2>1, <2>4, <2>5, <2>6, <2>7
<1>5. CASE q # r /\ ~HoldsDeleted(request[r], request[q])
  <2>1. request'[q] = request[q]
    BY <1>1, <1>5
  <2>2. QED
    BY <1>2, <1>5, <2>1
<1>6. QED
  BY <1>3, <1>4, <1>5

\* What a commit does to the rows of modules and subscriptions.
LEMMA CommitMoves ==
  ASSUME IInv, NEW r \in Requests, Commit(r)
  PROVE  /\ \A m \in Modules : status'[m] # status[m] =>
              /\ m = request[r].module /\ status'[m] = request[r].will
              /\ request[r].was # request[r].will /\ request[r].will # "ABSENT"
         /\ \A m \in Modules : status'[m] = "ACTIVE" /\ status[m] # "ACTIVE" =>
              m \in owed' \/ status[m] = "ABSENT"
         /\ \A p \in Pairs : subscription'[p] # subscription[p] =>
              /\ p = <<request[r].module, request[r].type>> /\ subscription'[p] = request[r].to
              /\ request[r].from # request[r].to /\ (request[r].to = "NONE" => ~request[r].gone)
         /\ owed \subseteq owed' /\ owed' \subseteq Modules
         /\ published' \subseteq Pairs
         /\ status' \in [Modules -> Status] /\ subscription' \in [Pairs -> Subscribed]
<1>1. PICK u : u = request[r]
  OBVIOUS
<1>2. /\ u.step = "commit" /\ u \in Unit /\ Consistent(u)
      /\ IF Stale(u) THEN UNCHANGED <<tables, owed>> ELSE Write(u)
  BY <1>1 DEF Commit, IInv, TypeOK, UnitsConsistent
<1>3. /\ status \in [Modules -> Status] /\ subscription \in [Pairs -> Subscribed]
      /\ published \subseteq Pairs /\ owed \subseteq Modules
      /\ u.will \in Status /\ u.was \in Status /\ u.to \in Subscribed
  BY <1>2 DEF IInv, TypeOK, Unit
<1>4. CASE Stale(u)
  BY <1>1, <1>2, <1>3, <1>4 DEF tables
<1>5. CASE Write(u)
  <2>1. /\ status' = IF u.was = u.will THEN status ELSE [status EXCEPT ![u.module] = u.will]
        /\ subscription' = IF u.from = u.to \/ (u.gone /\ u.to = "NONE") THEN subscription
                           ELSE [subscription EXCEPT ![<<u.module, u.type>>] = u.to]
        /\ owed' = IF u.was = "INACTIVE" /\ u.will = "ACTIVE" THEN owed \cup {u.module} ELSE owed
    BY <1>5 DEF Write
  <2>2. published' \subseteq Pairs
    <3>1. u.publish = "add" => <<u.module, u.type>> \in Pairs
      BY <1>2 DEF Consistent, Pairs
    <3>2. QED
      BY <1>3, <1>5, <3>1 DEF Write
  <2>3. u.was # u.will => u.module \in Modules /\ u.will # "ABSENT"
    BY <1>2, <1>3 DEF Consistent, Status
  <2>4. /\ status' \in [Modules -> Status]
        /\ \A m \in Modules : status'[m] # status[m] =>
             m = u.module /\ status'[m] = u.will /\ u.was # u.will /\ u.will # "ABSENT"
    BY <1>3, <2>1, <2>3
  <2>5. /\ subscription' \in [Pairs -> Subscribed]
        /\ \A p \in Pairs : subscription'[p] # subscription[p] =>
             /\ p = <<u.module, u.type>> /\ subscription'[p] = u.to
             /\ u.from # u.to /\ (u.to = "NONE" => ~u.gone)
    BY <1>3, <2>1
  <2>6. owed \subseteq owed' /\ owed' \subseteq Modules
    BY <1>3, <2>1, <2>3
  <2>7. ASSUME NEW m \in Modules, status'[m] = "ACTIVE", status[m] # "ACTIVE"
        PROVE  m \in owed' \/ status[m] = "ABSENT"
    <3>1. m = u.module /\ u.will = "ACTIVE" /\ u.was # "ACTIVE"
      BY <2>4, <2>7
    <3>2. CASE u.was = "INACTIVE"
      BY <2>1, <3>1, <3>2
    <3>3. CASE u.was = "ABSENT"
      BY <1>1, <1>2, <3>1, <3>3 DEF IInv, NamesHeld, Registers
    <3>4. QED
      BY <1>3, <3>1, <3>2, <3>3 DEF Status
  <2>8. QED
    BY <1>1, <2>2, <2>4, <2>5, <2>6, <2>7
<1>6. QED
  BY <1>2, <1>4, <1>5

\* What a commit does to the rows of event_types.
LEMMA CommitWrites ==
  ASSUME IInv, NEW r \in Requests, Commit(r)
  PROVE  /\ type' \in [Types -> Row]
         /\ \A t \in Types : type'[t] # type[t] =>
              /\ t = request[r].type
              /\ type'[t] = Written(type[t], request[r].old, request[r].new)
              /\ Consistent(request[r]) /\ request[r].old \in Row /\ request[r].new \in Row
<1>1. PICK u : u = request[r]
  OBVIOUS
<1>2. /\ u \in Unit /\ Consistent(u) /\ type \in [Types -> Row]
      /\ IF Stale(u) THEN UNCHANGED <<tables, owed>> ELSE Write(u)
  BY <1>1 DEF Commit, IInv, TypeOK, UnitsConsistent
<1>3. u.old \in Row /\ u.new \in Row
  BY <1>2 DEF Unit
<1>4. CASE UNCHANGED type
  BY <1>2, <1>4
<1>5. CASE type' = [type EXCEPT ![u.type] = Written(@, u.old, u.new)]
  <2>1. u.type \in Types => Written(type[u.type], u.old, u.new) \in Row
    BY <1>2, <1>3, WrittenTyped
  <2>2. QED
    BY <1>1, <1>2, <1>3, <1>5, <2>1
<1>6. QED
  BY <1>2, <1>4, <1>5 DEF Write, tables

LEMMA CommitKeeps ==
  ASSUME IInv, NEW r \in Requests, Commit(r)
  PROVE  IInv'
<1>1. /\ request[r].step = "commit" /\ UNCHANGED <<queue, brokerUp, seeding, asked, seeds>>
      /\ request' \in [Requests -> Unit]
  <2>1. request' = [q \in Requests |-> request'[q]]
    BY DEF Commit
  <2>2. QED
    BY <2>1, CommitLeaves DEF Commit, counters
<1>2. TypeOK'
  BY <1>1, CommitMoves, CommitWrites DEF IInv, TypeOK
<1>3. Idle.from = "NONE" /\ Idle.to = "NONE" /\ Idle.was = "ABSENT" /\ Idle.step = "idle"
  BY DEF Idle
<1>4. QueuesReady'
  <2>1. SUFFICES ASSUME NEW m \in Modules, NEW t \in Types,
                        status'[m] = "ACTIVE", subscription'[<<m, t>>] = "ACTIVE"
                 PROVE  m \in queue \cup owed'
    BY <1>1 DEF QueuesReady, Routable
  <2>2. <<m, t>> \in Pairs
    BY DEF Pairs
  <2>3. CASE status[m] # "ACTIVE" /\ subscription[<<m, t>>] = "ACTIVE"
    BY <2>1, <2>3, CommitMoves DEF IInv, SubscribersExist
  <2>4. CASE status[m] = "ACTIVE" /\ subscription[<<m, t>>] = "ACTIVE"
    BY <2>4, CommitMoves DEF IInv, QueuesReady, Routable
  <2>5. CASE subscription[<<m, t>>] # "ACTIVE"
    <3>1. m = request[r].module /\ request[r].from # request[r].to /\ request[r].to = "ACTIVE"
      BY <2>1, <2>2, <2>5, CommitMoves
    <3>2. status[m] # "ABSENT"
      BY <3>1 DEF IInv, UnitsConsistent, Consistent, SubscribersExist
    <3>3. CASE status[m] = "ACTIVE"
      BY <1>1, <3>1, <3>3, CommitMoves DEF IInv, QueuesComing
    <3>4. CASE status[m] # "ACTIVE"
      BY <2>1, <3>2, <3>4, CommitMoves
    <3>5. QED
      BY <3>3, <3>4
  <2>6. QED
    BY <2>3, <2>4, <2>5
<1>5. UnitsConsistent'
  BY CommitLeaves DEF UnitsConsistent
<1>6. FoundOrGone'
  <2>1. SUFFICES ASSUME NEW q \in Requests, request'[q].from # "NONE", ~request'[q].gone,
                        subscription'[<<request'[q].module, request'[q].type>>] = "NONE"
                 PROVE  FALSE
    BY DEF FoundOrGone
  <2>2. PICK v : v = request[q]
    OBVIOUS
  <2>3. /\ q # r /\ v.from # "NONE" /\ request'[q].module = v.module /\ request'[q].type = v.type
        /\ ~v.gone /\ ~HoldsDeleted(request[r], v)
    BY <1>3, <2>1, <2>2, CommitLeaves
  <2>4. v.module \in Modules /\ v.type \in Types /\ v.step # "idle"
    BY <1>3, <2>2, <2>3 DEF IInv, UnitsConsistent, Consistent
  <2>5. <<v.module, v.type>> \in Pairs /\ subscription[<<v.module, v.type>>] # "NONE"
    BY <2>2, <2>3, <2>4 DEF IInv, FoundOrGone, Pairs
  <2>6. /\ v.module = request[r].module /\ v.type = request[r].type
        /\ request[r].to = "NONE" /\ request[r].from # "NONE" /\ ~request[r].gone
    BY <2>1, <2>3, <2>5, CommitMoves
  <2>7. QED
    BY <2>3, <2>4, <2>6 DEF HoldsDeleted
<1>7. \A m \in Modules : status[m] # "ABSENT" => status'[m] # "ABSENT"
  BY CommitMoves
<1>8. SubscribersExist'
  <2>1. ASSUME NEW m \in Modules, status'[m] = "ABSENT", NEW t \in Types
        PROVE  subscription'[<<m, t>>] = "NONE"
    <3>1. <<m, t>> \in Pairs /\ status[m] = "ABSENT" /\ subscription[<<m, t>>] = "NONE"
      BY <1>7, <2>1 DEF IInv, SubscribersExist, Pairs
    <3>2. request[r].was # "ABSENT" => m # request[r].module
      BY <3>1 DEF IInv, SubscribersExist
    <3>3. request[r].was = "ABSENT" => request[r].from = request[r].to
      BY DEF IInv, UnitsConsistent, Consistent
    <3>4. QED
      BY <3>1, <3>2, <3>3, CommitMoves
  <2>2. ASSUME NEW q \in Requests, request'[q].was # "ABSENT"
        PROVE  status'[request'[q].module] # "ABSENT"
    <3>1. q # r /\ request[q].was # "ABSENT" /\ request'[q].module = request[q].module
      BY <1>3, <2>2, CommitLeaves
    <3>2. request[q].module \in Modules /\ status[request[q].module] # "ABSENT"
      BY <3>1 DEF IInv, UnitsConsistent, Consistent, SubscribersExist
    <3>3. QED
      BY <1>7, <3>1, <3>2
  <2>3. QED
    BY <2>1, <2>2 DEF SubscribersExist
<1>9. NamesHeld'
  <2>1. \A q \in Requests : Registers(request'[q]) =>
          q # r /\ Registers(request[q]) /\ request'[q].module = request[q].module
    BY <1>3, CommitLeaves DEF Registers
  <2>2. ASSUME NEW q \in Requests, q # r, Registers(request[q])
        PROVE  status'[request[q].module] = "ABSENT"
    <3>1. request[q].module \in Modules /\ status[request[q].module] = "ABSENT"
      BY <2>2 DEF IInv, UnitsConsistent, Consistent, NamesHeld, Registers
    <3>2. request[r].was = "ABSENT" /\ request[r].will # "ABSENT" => request[q].module # request[r].module
      BY <1>1, <2>2 DEF IInv, NamesHeld, Registers
    <3>3. request[r].was # "ABSENT" => request[q].module # request[r].module
      BY <3>1 DEF IInv, SubscribersExist
    <3>4. QED
      BY <3>1, <3>2, <3>3, CommitMoves
  <2>3. QED
    BY <2>1, <2>2 DEF IInv, NamesHeld
<1>10. QueuesComing'
  <2>1. SUFFICES ASSUME NEW q \in Requests, request'[q].from # request'[q].to,
                        request'[q].to = "ACTIVE", status'[request'[q].module] = "ACTIVE"
                 PROVE  \/ request'[q].module \in queue \cup owed'
                        \/ /\ request'[q].step \in {"declare", "flush"}
                           /\ request'[q].topology /\ request'[q].was = "ACTIVE"
    BY <1>1 DEF QueuesComing
  <2>2. /\ q # r /\ request[q].from # request[q].to /\ request[q].to = "ACTIVE"
        /\ request'[q].module = request[q].module /\ request'[q].step = request[q].step
        /\ request'[q].was = request[q].was
    BY <1>3, <2>1, CommitLeaves
  <2>3. request'[q].topology <=> request[q].topology
    BY <2>2, CommitLeaves
  <2>4. request[q].module \in Modules /\ status[request[q].module] # "ABSENT"
    BY <2>2 DEF IInv, UnitsConsistent, Consistent, SubscribersExist
  <2>5. CASE status[request[q].module] = "ACTIVE"
    BY <2>2, <2>3, <2>5, CommitMoves DEF IInv, QueuesComing
  <2>6. CASE status[request[q].module] # "ACTIVE"
    BY <2>1, <2>2, <2>4, <2>6, CommitMoves
  <2>7. QED
    BY <2>5, <2>6
<1>11. SeedRegisters'
  BY <1>1, <1>7 DEF IInv, SeedRegisters
<1>12. QED
  BY <1>2, <1>4, <1>5, <1>6, <1>8, <1>9, <1>10, <1>11 DEF IInv

-----------------------------------------------------------------------------
(* The steps of the hub, the seed and the broker.                          *)

\* What the hub makes of a row of event_types.
LEMMA GuessedTyped ==
  ASSUME TypeOK, NEW t \in Types, NEW m \in Modules \cup {Nobody}
  PROVE  type[t].received < MaxEvents =>
           /\ [type[t] EXCEPT !.received = @ + 1] \in Row
           /\ [NoRow EXCEPT !.known = TRUE, !.owner = m, !.discovered = TRUE, !.received = 1]
                \in Row
<1>1. type[t] \in Row /\ NoRow \in Row
  BY IdleTyped DEF TypeOK
<1>2. type[t].received < MaxEvents => type[t].received + 1 \in 0..MaxEvents /\ 1 \in 0..MaxEvents
  BY <1>1, RegistryAssumption DEF Row
<1>3. QED
  BY <1>1, <1>2 DEF Row

\* An event of a type that is known only counts.
LEMMA HubCounts ==
  ASSUME TypeOK, NEW m \in Modules, NEW x \in Types, get_or_create(m, x), NEW t \in Types,
         type[t] \in Row /\ type[t].known
  PROVE  \/ x # t /\ type'[t] = type[t]
         \/ x = t /\ type'[t] = [type[t] EXCEPT !.received = @ + 1]
BY DEF get_or_create, TypeOK

LEMMA HubKeeps ==
  ASSUME IInv, NEW m \in Modules, NEW t \in Types, get_or_create(m, t)
  PROVE  IInv'
<1>1. /\ UNCHANGED <<status, published, subscription, queue, owed, brokerUp, request, seeding,
                     asked, seeds>>
      /\ type' = [type EXCEPT ![t] =
                    IF type[t].known THEN [type[t] EXCEPT !.received = @ + 1]
                    ELSE [NoRow EXCEPT !.known = TRUE, !.owner = m, !.discovered = TRUE,
                                       !.received = 1]]
      /\ type[t].received < MaxEvents
  BY DEF get_or_create, counters
<1>2. type' \in [Types -> Row]
  <2>1. TypeOK /\ m \in Modules \cup {Nobody} /\ type \in [Types -> Row]
    BY DEF IInv, TypeOK
  <2>2. CASE type[t].known
    <3>1. type[t] \in Row /\ [type[t] EXCEPT !.received = @ + 1] \in Row
      BY <1>1, <2>1, GuessedTyped DEF TypeOK
    <3>2. type'[t] = [type[t] EXCEPT !.received = @ + 1]
      BY <2>1, <2>2, <3>1, HubCounts
    <3>3. QED
      BY <1>1, <2>1, <3>1, <3>2
  <2>3. CASE ~type[t].known
    <3>1. type' = [type EXCEPT ![t] = [NoRow EXCEPT !.known = TRUE, !.owner = m,
                                                    !.discovered = TRUE, !.received = 1]]
      BY <1>1, <2>1, <2>3
    <3>2. QED
      BY <1>1, <2>1, <3>1, GuessedTyped
  <2>4. QED
    BY <2>2, <2>3
<1>3. QED
  BY <1>1, <1>2 DEF IInv, TypeOK, QueuesReady, Routable, UnitsConsistent, FoundOrGone,
     SubscribersExist, NamesHeld, QueuesComing, SeedRegisters

\* The seed fills the owner of a type that has none, and changes nothing else
\* of a type that is known.
LEMMA SeededTyped ==
  ASSUME NEW t \in Types, NEW old \in Row, NEW row, row = Seeded(t, old)
  PROVE  /\ row \in Row /\ row.known
         /\ (row.discovered <=> old.discovered) /\ row.schema = old.schema
         /\ old.known /\ old.owner # Nobody => row.owner = old.owner
<1>1. SeedOwner(t) \in Modules \cup {Nobody}
  BY DEF SeedOwner
<1>2. PICK o \in Modules \cup {Nobody} : o = SeedOwner(t)
  BY <1>1
<1>3. CASE old.known /\ old.owner # Nobody
  BY <1>3 DEF Seeded
<1>4. CASE ~(old.known /\ old.owner # Nobody)
  <2>1. row = [old EXCEPT !.known = TRUE, !.owner = o]
    BY <1>2, <1>4 DEF Seeded
  <2>2. row \in Row /\ row.known /\ row.schema = old.schema
    BY <2>1 DEF Row
  <2>3. row.discovered <=> old.discovered
    BY <2>1 DEF Row
  <2>4. QED
    BY <1>4, <2>2, <2>3
<1>5. QED
  BY <1>3, <1>4

LEMMA SeedUnitTyped ==
  /\ SeedIdle \in SeedUnit /\ SeedIdle.step = "idle"
  /\ \A u \in SeedUnit : /\ u.step \in {"idle", "types", "rest"} /\ u.loaded \in [Types -> Row]
                         /\ u.modules \subseteq Modules
                         /\ u.publishes \subseteq Pairs /\ u.subscribes \subseteq Pairs
BY IdleTyped DEF SeedIdle, SeedUnit

\* What the commit of a seed does to a row of event_types.
LEMMA SeedWrites ==
  ASSUME TypeOK, SeedCommits, NEW t \in Types, type'[t] # type[t]
  PROVE  /\ seeding.loaded[t] \in Row /\ type[t] \in Row
         /\ Seeded(t, seeding.loaded[t]) \in Row
         /\ type'[t] = Written(type[t], seeding.loaded[t], Seeded(t, seeding.loaded[t]))
<1>1. seeding.loaded[t] \in Row /\ type[t] \in Row
  BY SeedUnitTyped DEF TypeOK
<1>2. type'[t] = IF t \in SeedTypes
                 THEN Written(type[t], seeding.loaded[t], Seeded(t, seeding.loaded[t])) ELSE type[t]
  BY DEF SeedCommits
<1>3. QED
  BY <1>1, <1>2, SeededTyped

\* A seed that loads, flushes or fails writes nothing.
LEMMA SeedingKeeps ==
  ASSUME IInv, SeedLoads \/ SeedFlushes \/ SeedFails
  PROVE  IInv' /\ UNCHANGED <<type, subscription>>
<1>1. UNCHANGED <<type, status, published, subscription, queue, owed, brokerUp, request, asked>>
  BY DEF SeedLoads, SeedFlushes, SeedFails, tables, counters
<1>2. seeds' \in 0..MaxSeeds
  BY RegistryAssumption DEF SeedLoads, SeedFlushes, SeedFails, counters, IInv, TypeOK
<1>3. /\ seeding' \in SeedUnit
      /\ seeding'.step = "rest" => seeding'.modules = {m \in Modules : status[m] = "ABSENT"}
  <2>1. CASE SeedLoads
    <3>1. seeding' = [SeedIdle EXCEPT !.step = "types", !.loaded = type] /\ type \in [Types -> Row]
      BY <2>1 DEF SeedLoads, IInv, TypeOK
    <3>2. seeding' \in SeedUnit /\ seeding'.step = "types"
      BY <3>1, SeedUnitTyped DEF SeedUnit
    <3>3. QED
      BY <3>2
  <2>2. CASE seeding' = SeedIdle
    BY <2>2, SeedUnitTyped
  <2>3. CASE seeding' = [seeding EXCEPT
                           !.step = "rest",
                           !.modules = {m \in Modules : status[m] = "ABSENT"},
                           !.publishes = SeedPublishes \ published,
                           !.subscribes = {p \in SeedConsumes : subscription[p] = "NONE"}]
    <3>1. /\ seeding \in SeedUnit
          /\ SeedPublishes \ published \in SUBSET Pairs
          /\ {p \in SeedConsumes : subscription[p] = "NONE"} \in SUBSET Pairs
      BY RegistryAssumption DEF IInv, TypeOK, Pairs
    <3>2. QED
      BY <2>3, <3>1 DEF SeedUnit
  <2>4. QED
    BY <2>1, <2>2, <2>3 DEF SeedFlushes, SeedFails
<1>4. TypeOK'
  BY <1>1, <1>2, <1>3 DEF IInv, TypeOK
<1>5. SeedRegisters'
  BY <1>1, <1>3 DEF SeedRegisters
<1>6. QueuesReady' /\ UnitsConsistent' /\ FoundOrGone' /\ SubscribersExist'
  BY <1>1 DEF IInv, QueuesReady, Routable, UnitsConsistent, FoundOrGone, SubscribersExist
<1>7. NamesHeld' /\ QueuesComing'
  BY <1>1 DEF IInv, NamesHeld, QueuesComing
<1>8. QED
  BY <1>1, <1>4, <1>5, <1>6, <1>7 DEF IInv

LEMMA SeedCommitKeeps ==
  ASSUME IInv, SeedCommits
  PROVE  IInv'
<1>1. /\ UNCHANGED <<queue, brokerUp, request, asked, seeds>> /\ seeding' = SeedIdle
      /\ SeedInsertsRest \cap Pending = {} /\ seeding.step = "rest"
  BY DEF SeedCommits, counters
<1>2. PICK modules, publishes, fresh :
        modules = seeding.modules /\ publishes = seeding.publishes /\ fresh = seeding.subscribes
  OBVIOUS
<1>3. /\ status' = [m \in Modules |-> IF m \in modules THEN "ACTIVE" ELSE status[m]]
      /\ published' = published \cup publishes
      /\ subscription' = [p \in Pairs |-> IF p \in fresh THEN "ACTIVE" ELSE subscription[p]]
      /\ owed' = owed \cup {p[1] : p \in fresh}
  BY <1>2 DEF SeedCommits
<1>4. publishes \subseteq Pairs /\ fresh \subseteq Pairs /\ modules \subseteq Modules
  BY <1>2, SeedUnitTyped DEF IInv, TypeOK
<1>5. \A m \in Modules : status[m] # "ABSENT" => m \notin modules
  <2>1. ASSUME NEW m \in modules, status[m] # "ABSENT", m \in Modules
        PROVE  FALSE
    <3>1. <<"module", m>> \in SeedInsertsRest /\ <<"module", m>> \in Taken
      BY <1>2, <2>1 DEF SeedInsertsRest, Taken
    <3>2. QED
      BY <3>1 DEF SeedCommits
  <2>2. QED
    BY <2>1
<1>6. \A m \in Modules : /\ status'[m] # "ABSENT"
                         /\ status[m] # "ABSENT" => status'[m] = status[m]
  BY <1>1, <1>2, <1>3, <1>5 DEF IInv, SeedRegisters
<1>7. TypeOK'
  <2>1. type' \in [Types -> Row]
    <3>1. type' = [t \in Types |-> type'[t]]
      BY DEF SeedCommits
    <3>2. ASSUME NEW t \in Types PROVE type'[t] \in Row
      <4>1. type[t] \in Row
        BY DEF IInv, TypeOK
      <4>2. CASE type'[t] # type[t]
        BY <4>2, SeedWrites, WrittenTyped DEF IInv
      <4>3. QED
        BY <4>1, <4>2
    <3>3. QED
      BY <3>1, <3>2
  <2>2. status' \in [Modules -> Status] /\ subscription' \in [Pairs -> Subscribed]
    BY <1>3 DEF IInv, TypeOK, Status, Subscribed
  <2>3. published' \subseteq Pairs /\ owed' \subseteq Modules
    BY <1>3, <1>4 DEF IInv, TypeOK, Pairs
  <2>4. seeding' \in SeedUnit
    BY <1>1, SeedUnitTyped
  <2>5. QED
    BY <1>1, <2>1, <2>2, <2>3, <2>4 DEF IInv, TypeOK
<1>8. \A m \in Modules, t \in Types :
        /\ subscription'[<<m, t>>] # subscription[<<m, t>>] => m \in owed'
        /\ subscription[<<m, t>>] # "NONE" => subscription'[<<m, t>>] # "NONE"
  <2>1. ASSUME NEW m \in Modules, NEW t \in Types
        PROVE  /\ subscription'[<<m, t>>] # subscription[<<m, t>>] => m \in owed'
               /\ subscription[<<m, t>>] # "NONE" => subscription'[<<m, t>>] # "NONE"
    <3>1. <<m, t>> \in Pairs /\ (<<m, t>> \in fresh => m \in owed')
      <4>1. <<m, t>>[1] = m
        OBVIOUS
      <4>2. QED
        BY <1>3, <4>1 DEF Pairs
    <3>2. QED
      BY <1>3, <3>1
  <2>2. QED
    BY <2>1
<1>9. QueuesReady'
  BY <1>1, <1>3, <1>6, <1>8 DEF IInv, QueuesReady, Routable, SubscribersExist
<1>10. UnitsConsistent' /\ SeedRegisters'
  BY <1>1, SeedUnitTyped DEF IInv, UnitsConsistent, SeedRegisters
<1>11. FoundOrGone'
  BY <1>1, <1>8 DEF IInv, FoundOrGone, UnitsConsistent, Consistent
<1>12. SubscribersExist'
  BY <1>1, <1>6 DEF IInv, SubscribersExist, UnitsConsistent, Consistent
<1>13. NamesHeld'
  <2>1. ASSUME NEW r \in Requests, Registers(request[r])
        PROVE  FALSE
    <3>1. <<"module", request[r].module>> \in Inserts(request[r])
      BY <2>1 DEF Inserts, Registers
    <3>2. <<"module", request[r].module>> \in Pending
      BY <2>1, <3>1 DEF Pending, Registers
    <3>3. request[r].module \in modules
      BY <1>1, <1>2, <2>1 DEF IInv, NamesHeld, SeedRegisters, UnitsConsistent, Consistent, Registers
    <3>4. <<"module", request[r].module>> \in SeedInsertsRest
      BY <1>2, <3>3 DEF SeedInsertsRest
    <3>5. QED
      BY <1>1, <3>2, <3>4
  <2>2. QED
    BY <1>1, <2>1 DEF NamesHeld
<1>14. QueuesComing'
  <2>1. SUFFICES ASSUME NEW q \in Requests, request[q].from # request[q].to,
                        request[q].to = "ACTIVE", status'[request[q].module] = "ACTIVE"
                 PROVE  \/ request[q].module \in queue \cup owed'
                        \/ /\ request[q].step \in {"declare", "flush"} /\ request[q].topology
                           /\ request[q].was = "ACTIVE"
    BY <1>1 DEF QueuesComing
  <2>2. request[q].module \in Modules /\ status[request[q].module] # "ABSENT"
    BY <2>1 DEF IInv, UnitsConsistent, Consistent, SubscribersExist
  <2>3. QED
    BY <1>3, <1>6, <2>1, <2>2 DEF IInv, QueuesComing
<1>15. QED
  BY <1>7, <1>9, <1>10, <1>11, <1>12, <1>13, <1>14 DEF IInv

LEMMA SeedKeeps ==
  ASSUME IInv, seed
  PROVE  IInv' /\ RegistryWrites
BY SeedingKeeps, SeedCommitKeeps DEF seed, RegistryWrites

\* Whoever declares, and whenever the names were read: the declaration only adds.
LEMMA DeclarationKeeps ==
  ASSUME IInv, NEW ns, ns \subseteq Modules, Declare(ns),
         UNCHANGED <<tables, brokerUp, request, seeding, counters>>
  PROVE  IInv'
<1>1. UNCHANGED <<type, status, published, subscription, request, brokerUp, seeding, asked, seeds>>
  BY DEF tables, counters
<1>2. /\ queue' \subseteq Modules /\ owed' \subseteq Modules
      /\ \A m \in Modules : m \in queue \cup owed => m \in queue' \cup owed'
  BY DeclareKeeps DEF IInv
<1>3. QueuesReady'
  BY <1>1, <1>2 DEF IInv, QueuesReady, Routable
<1>4. QueuesComing'
  BY <1>1, <1>2 DEF IInv, QueuesComing, UnitsConsistent, Consistent
<1>5. QED
  BY <1>1, <1>2, <1>3, <1>4 DEF IInv, TypeOK, UnitsConsistent, FoundOrGone, SubscribersExist,
     NamesHeld, SeedRegisters

LEMMA CommittedNames == Committed_queue_names \subseteq Modules
BY DEF Committed_queue_names

\* The registry stays as it is: what is left is RabbitMQ going and coming back.
LEMMA StillKeeps ==
  ASSUME IInv, UNCHANGED <<tables, queue, owed, request, seeding, counters>>, brokerUp' \in BOOLEAN
  PROVE  IInv'
<1>1. UNCHANGED <<type, status, published, subscription, queue, owed, request, seeding, asked, seeds>>
  BY DEF tables, counters
<1>2. TypeOK'
  BY <1>1 DEF IInv, TypeOK
<1>3. QueuesReady' /\ UnitsConsistent' /\ FoundOrGone'
  BY <1>1 DEF IInv, QueuesReady, Routable, UnitsConsistent, FoundOrGone
<1>4. SubscribersExist' /\ NamesHeld'
  BY <1>1 DEF IInv, SubscribersExist, NamesHeld
<1>5. QueuesComing' /\ SeedRegisters'
  BY <1>1 DEF IInv, QueuesComing, SeedRegisters
<1>6. QED
  BY <1>2, <1>3, <1>4, <1>5 DEF IInv

LEMMA TopologyKeeps ==
  ASSUME IInv, apply_topology \/ Broker
  PROVE  IInv'
<1>1. CASE apply_topology
  BY <1>1, CommittedNames, DeclarationKeeps DEF apply_topology
<1>2. CASE Broker
  <2>1. brokerUp' \in BOOLEAN
    BY <1>2 DEF Broker
  <2>2. QED
    BY <1>2, <2>1, StillKeeps DEF Broker
<1>3. QED
  BY <1>1, <1>2

\* What everybody who holds no unit of work is like.
LEMMA IdleConsistent ==
  /\ Idle.from = "NONE" /\ Idle.to = "NONE" /\ Idle.was = "ABSENT" /\ Idle.will = "ABSENT"
  /\ Idle.step = "idle" /\ Consistent(Idle)
BY DEF Idle, Consistent, NoRow

\* The requests and the seed of a process that dies are rolled back.
LEMMA RollbackKeeps ==
  ASSUME IInv, request' = [r \in Requests |-> Idle], seeding' = SeedIdle,
         UNCHANGED <<tables, queue, owed, brokerUp, counters>>
  PROVE  IInv'
<1>1. UNCHANGED <<type, status, published, subscription, queue, owed, brokerUp, asked, seeds>>
  BY DEF tables, counters
<1>2. \A r \in Requests : request'[r] = Idle
  OBVIOUS
<1>3. TypeOK'
  BY <1>1, IdleTyped, SeedUnitTyped DEF IInv, TypeOK
<1>4. QueuesReady' /\ SeedRegisters'
  BY <1>1, SeedUnitTyped DEF IInv, QueuesReady, Routable, SeedRegisters
<1>5. UnitsConsistent' /\ FoundOrGone' /\ NamesHeld' /\ QueuesComing'
  BY <1>2, IdleConsistent DEF UnitsConsistent, FoundOrGone, NamesHeld, QueuesComing, Registers
<1>6. SubscribersExist'
  BY <1>1, <1>2, IdleConsistent DEF IInv, SubscribersExist
<1>7. QED
  BY <1>3, <1>4, <1>5, <1>6 DEF IInv

-----------------------------------------------------------------------------
(* The invariant.                                                          *)

LEMMA InitHolds == Init => IInv
<1> SUFFICES ASSUME Init PROVE IInv
  OBVIOUS
<1>1. /\ \A r \in Requests : request[r] = Idle
      /\ \A p \in Pairs : subscription[p] = "NONE"
      /\ \A m \in Modules, t \in Types : subscription[<<m, t>>] = "NONE"
  BY DEF Init, Pairs
<1>2. TypeOK
  <2>1. status \in [Modules -> Status]
    BY DEF Init, Status
  <2>2. QED
    BY <2>1, IdleTyped, SeedUnitTyped, RegistryAssumption DEF Init, TypeOK, Subscribed
<1>3. QED
  BY <1>1, <1>2, IdleConsistent, SeedUnitTyped DEF Init, IInv, QueuesReady, Routable,
     UnitsConsistent, FoundOrGone, SubscribersExist, NamesHeld, QueuesComing, Registers, SeedRegisters

\* A request begins, looks again for its type, flushes or commits.
LEMMA ServeBegins ==
  ASSUME IInv, NEW r \in Requests, Serve(r)
  PROVE  (\E u : Fresh(u) /\ Begin(r, u)) \/ declare_missing(r) \/ Flush(r) \/ Commit(r)
<1>1. TypeOK /\ SubscribersExist
  BY DEF IInv
<1>2. Callers \subseteq Modules
  BY DEF Callers
<1>3. CASE create_module(r) \/ edit_module(r)
  BY <1>1, <1>2, <1>3, ModulesFresh DEF create_module, edit_module
<1>4. CASE post_event_type(r) \/ put_schema(r)
  <2>1. CASE post_event_type(r)
    <3>1. PICK actor \in Callers, t \in Types, o \in Modules \cup {Nobody}, given \in BOOLEAN :
            declare_event_type(r, actor, t, IF o = Nobody THEN actor ELSE o, given)
      BY <2>1 DEF post_event_type
    <3>2. (IF o = Nobody THEN actor ELSE o) \in Modules \cup {Nobody}
      BY <1>2
    <3>3. QED
      BY <1>1, <1>2, <3>1, <3>2, DeclarationsFresh
  <2>2. CASE put_schema(r)
    BY <1>1, <1>2, <2>2, SchemasFresh DEF put_schema
  <2>3. QED
    BY <1>4, <2>1, <2>2
<1>5. CASE post_subscription(r) \/ toggle_subscription(r) \/ delete_subscription(r)
  BY <1>1, <1>2, <1>5, SubscriptionsFresh
     DEF post_subscription, toggle_subscription, delete_subscription
<1>6. CASE post_publication(r) \/ delete_publication(r)
  BY <1>1, <1>2, <1>6, PublicationsFresh DEF post_publication, delete_publication
<1>7. QED
  BY <1>3, <1>4, <1>5, <1>6 DEF Serve

LEMMA NextKeeps == IInv /\ [Next]_vars => IInv'
<1> SUFFICES ASSUME IInv, [Next]_vars PROVE IInv'
  OBVIOUS
<1>1. ASSUME NEW r \in Requests, Serve(r) PROVE IInv'
  BY <1>1, ServeBegins, BeginKeeps, DeclareMissingKeeps, FlushKeeps, CommitKeeps
<1>2. CASE Hub
  BY <1>2, HubKeeps DEF Hub
<1>3. CASE seed
  BY <1>3, SeedKeeps
<1>4. CASE apply_topology \/ Broker
  BY <1>4, TopologyKeeps
<1>5. CASE UNCHANGED vars
  BY <1>5, StillKeeps DEF vars, IInv, TypeOK
<1>6. QED
  BY <1>1, <1>2, <1>3, <1>4, <1>5 DEF Next

LEMMA ServeWrites ==
  ASSUME IInv, NEW r \in Requests, Serve(r)
  PROVE  RegistryWrites
<1>1. ASSUME NEW u, Begin(r, u) PROVE UNCHANGED <<type, subscription>>
  BY <1>1 DEF Begin, tables
<1>2. declare_missing(r) \/ Flush(r) => UNCHANGED <<type, subscription>>
  BY DEF declare_missing, Flush, tables
<1>3. QED
  BY <1>1, <1>2, ServeBegins DEF RegistryWrites

LEMMA NextWrites ==
  ASSUME IInv, [Next]_vars
  PROVE  RegistryWrites
<1>1. apply_topology \/ Broker => UNCHANGED <<type, subscription>>
  BY DEF apply_topology, Broker, tables
<1>2. UNCHANGED vars => UNCHANGED <<type, subscription>>
  BY DEF vars, tables
<1>3. QED
  BY <1>1, <1>2, ServeWrites, SeedKeeps DEF Next, Hub, RegistryWrites

\* The inductive invariant holds throughout.
LEMMA Invariant == Spec => []IInv
BY InitHolds, NextKeeps, PTL DEF Spec

-----------------------------------------------------------------------------
(* What a step that writes event_types or subscriptions may do. *)

LEMMA DeclarationsStep ==
  ASSUME IInv, RegistryWrites, NEW t \in Types
  PROVE  type[t].known /\ ~type[t].discovered => type'[t].known /\ ~type'[t].discovered
<1>1. CASE UNCHANGED type
  BY <1>1
<1>2. ASSUME NEW r \in Requests, Commit(r), type'[t] # type[t]
      PROVE  type[t].known /\ ~type[t].discovered => type'[t].known /\ ~type'[t].discovered
  <2>1. PICK old, new : old = request[r].old /\ new = request[r].new
    OBVIOUS
  <2>2. /\ old \in Row /\ new \in Row /\ type[t] \in Row
        /\ type'[t] = Written(type[t], old, new)
        /\ (old.known => new.known) /\ (new.discovered => old.discovered)
    BY <1>2, <2>1, CommitWrites DEF IInv, TypeOK, Consistent
  <2>3. PICK w : w = Written(type[t], old, new)
    OBVIOUS
  <2>4. /\ w.known = IF old.known # new.known THEN new.known ELSE type[t].known
        /\ w.discovered = IF old.discovered # new.discovered THEN new.discovered
                          ELSE type[t].discovered
    BY <2>2, <2>3, WrittenTyped
  <2>5. \A row \in Row : row.known \in BOOLEAN /\ row.discovered \in BOOLEAN
    BY DEF Row
  <2>6. type[t].known /\ ~type[t].discovered => w.known /\ ~w.discovered
    BY <2>2, <2>4, <2>5
  <2>7. QED
    BY <2>2, <2>3, <2>6
<1>3. ASSUME NEW m \in Modules, NEW x \in Types, get_or_create(m, x), type[t].known
      PROVE  (type'[t].known <=> type[t].known) /\ (type'[t].discovered <=> type[t].discovered)
  <2>1. type[t] \in Row
    BY DEF IInv, TypeOK
  <2>2. type'[t] = type[t] \/ type'[t] = [type[t] EXCEPT !.received = @ + 1]
    BY <1>3, <2>1, HubCounts DEF IInv
  <2>3. QED
    BY <2>1, <2>2 DEF Row
<1>4. CASE SeedCommits /\ type'[t] # type[t]
  <2>1. PICK old, new, w :
          old = seeding.loaded[t] /\ new = Seeded(t, old) /\ w = Written(type[t], old, new)
    OBVIOUS
  <2>2. old \in Row /\ new \in Row /\ type[t] \in Row /\ type'[t] = w
    BY <1>4, <2>1, SeedWrites DEF IInv
  <2>3. new.known /\ (new.discovered <=> old.discovered)
    BY <2>1, <2>2, SeededTyped
  <2>4. /\ w.known = IF old.known # new.known THEN new.known ELSE type[t].known
        /\ w.discovered = IF old.discovered # new.discovered THEN new.discovered
                          ELSE type[t].discovered
    BY <2>1, <2>2, WrittenTyped
  <2>5. \A row \in Row : row.known \in BOOLEAN /\ row.discovered \in BOOLEAN
    BY DEF Row
  <2>6. type[t].known /\ ~type[t].discovered => w.known /\ ~w.discovered
    BY <2>2, <2>3, <2>4, <2>5
  <2>7. QED
    BY <2>2, <2>6
<1>5. QED
  BY <1>1, <1>2, <1>3, <1>4 DEF RegistryWrites

LEMMA CancellationsStep ==
  ASSUME IInv, RegistryWrites, NEW p \in Pairs, subscription[p] = "NONE", subscription'[p] # "NONE"
  PROVE  \/ SeedLeaves /\ p \in seeding.subscribes
         \/ \E r \in Requests : Commits(r) /\ request[r].from = "NONE"
<1>1. CASE UNCHANGED subscription
  BY <1>1
<1>2. ASSUME NEW r \in Requests, Commit(r)
      PROVE  Commits(r) /\ request[r].from = "NONE"
  <2>1. PICK u : u = request[r]
    OBVIOUS
  <2>2. /\ p = <<u.module, u.type>> /\ u.to # "NONE" /\ u.from # u.to
    BY <1>2, <2>1, CommitMoves
  <2>3. u.from # "NONE" => u.gone
    BY <2>1, <2>2 DEF IInv, FoundOrGone
  <2>4. ~Stale(u)
    BY <1>2, <2>1 DEF Commit, tables
  <2>5. u.from = "NONE"
    BY <2>2, <2>3, <2>4 DEF Stale
  <2>6. Commits(r)
    BY <1>2 DEF Commit, Commits
  <2>7. QED
    BY <2>1, <2>5, <2>6
<1>3. ASSUME NEW m \in Modules, NEW x \in Types, get_or_create(m, x)
      PROVE  FALSE
  BY <1>3 DEF get_or_create
<1>4. CASE SeedCommits
  BY <1>4 DEF SeedCommits, SeedLeaves
<1>5. QED
  BY <1>1, <1>2, <1>3, <1>4 DEF RegistryWrites

LEMMA OwnersStep ==
  ASSUME IInv, RegistryWrites, NEW t \in Types, Claimed(type[t]),
         type'[t].owner # type[t].owner \/ type'[t].schema # type[t].schema
  PROVE  Entitled(t)
<1>1. CASE UNCHANGED type
  BY <1>1
<1>2. ASSUME NEW r \in Requests, Commit(r)
      PROVE  /\ Commits(r) /\ request[r].type = t
             /\ \/ request[r].actor \in {Admin, request[r].old.owner}
                \/ request[r].missed \/ Unclaimed(request[r].old)
  <2>1. PICK u, w : u = request[r] /\ w = Written(type[t], u.old, u.new)
    OBVIOUS
  <2>2. /\ u.type = t /\ u.old \in Row /\ u.new \in Row /\ type[t] \in Row
        /\ type'[t] = w /\ Consistent(u)
    BY <1>2, <2>1, CommitWrites DEF IInv, TypeOK
  <2>3. /\ w.owner = IF u.old.owner # u.new.owner THEN u.new.owner ELSE type[t].owner
        /\ w.schema = IF u.old.schema # u.new.schema THEN u.new.schema ELSE type[t].schema
    BY <2>1, <2>2, WrittenTyped
  <2>4. u.new.owner # u.old.owner \/ u.new.schema # u.old.schema
    BY <2>2, <2>3
  <2>5. Commits(r)
    BY <1>2 DEF Commit, Commits
  <2>6. QED
    BY <2>1, <2>2, <2>4, <2>5 DEF Consistent, Unclaimed
<1>3. ASSUME NEW m \in Modules, NEW x \in Types, get_or_create(m, x)
      PROVE  FALSE
  <2>1. type[t] \in Row /\ type[t].known
    BY DEF IInv, TypeOK, Claimed
  <2>2. type'[t] = type[t] \/ type'[t] = [type[t] EXCEPT !.received = @ + 1]
    BY <1>3, <2>1, HubCounts DEF IInv
  <2>3. type'[t].owner = type[t].owner /\ type'[t].schema = type[t].schema
    BY <2>1, <2>2 DEF Row
  <2>4. QED
    BY <2>3
<1>4. ASSUME SeedCommits
      PROVE  SeedLeaves /\ (~seeding.loaded[t].known \/ seeding.loaded[t].owner = Nobody)
  <2>1. PICK old, new, w :
          old = seeding.loaded[t] /\ new = Seeded(t, old) /\ w = Written(type[t], old, new)
    OBVIOUS
  <2>2. old \in Row /\ new \in Row /\ type[t] \in Row /\ type'[t] = w
    BY <1>4, <2>1, SeedWrites DEF IInv
  <2>3. /\ new.schema = old.schema
        /\ old.known /\ old.owner # Nobody => new.owner = old.owner
    BY <2>1, <2>2, SeededTyped
  <2>4. /\ w.owner = IF old.owner # new.owner THEN new.owner ELSE type[t].owner
        /\ w.schema = IF old.schema # new.schema THEN new.schema ELSE type[t].schema
    BY <2>1, <2>2, WrittenTyped
  <2>5. ~old.known \/ old.owner = Nobody
    BY <2>2, <2>3, <2>4
  <2>6. QED
    BY <1>4, <2>1, <2>5 DEF SeedCommits, SeedLeaves
<1>5. QED
  BY <1>1, <1>2, <1>3, <1>4 DEF RegistryWrites, Entitled

-----------------------------------------------------------------------------
(* The properties.                                                         *)

\* The type invariant of the registry, its requests and its queues holds in
\* every state: a partial UPDATE of a row of event_types leaves a row, whatever
\* the columns of the loaded and the current row are.
THEOREM TypeCorrect == Spec => []TypeOK
BY Invariant, PTL DEF IInv

\* Every active subscription of an active module has the queue the hub publishes
\* to, or a reason that owed names: concurrent requests, outages of the broker
\* and seeds never leave one without (subscribe, set_subscription_active and
\* apply_topology against update_module and the seed).
THEOREM QueuesAreReady == Spec => []QueuesReady
BY Invariant, PTL DEF IInv

\* A type that was declared is not marked discovered again: not by the hub's
\* get_or_create, nor by the commit of a request that loaded an older row.
THEOREM DeclarationsStay == Spec => DeclaredStays
<1>1. IInv /\ [Next]_vars
        => [\A t \in Types : type[t].known /\ ~type[t].discovered
              => type'[t].known /\ ~type'[t].discovered]_vars
  BY NextWrites, DeclarationsStep
<1>2. QED
  BY <1>1, Invariant, PTL DEF Spec, DeclaredStays

\* A subscription that was cancelled comes back only by a request or a seed that
\* found none: HoldsDeleted tells every request that holds the row, and its
\* UPDATE then finds nothing and fails.
THEOREM CancellationsStay == Spec => CancelledStays
<1>1. IInv /\ [Next]_vars
        => [\A p \in Pairs : subscription[p] = "NONE" /\ subscription'[p] # "NONE"
              => \/ SeedLeaves /\ p \in seeding.subscribes
                 \/ \E r \in Requests : Commits(r) /\ request[r].from = "NONE"]_vars
  BY NextWrites, CancellationsStep
<1>2. QED
  BY <1>1, Invariant, PTL DEF Spec, CancelledStays

\* The owner and the schema of a type somebody declared change only by a commit
\* of the administrator, of the owner the request had found, or of a request or a
\* seed that had looked at the type before it was claimed: whoever looks after
\* the claim cannot take it away (_assert_owns_event_type, across the races of
\* requests, of the second look of declare_event_type, of the hub and of the seed).
THEOREM OwnersKeepTypes == Spec => OwnersHold
<1>1. IInv /\ [Next]_vars
        => [\A t \in Types :
              Claimed(type[t]) /\ (type'[t].owner # type[t].owner \/ type'[t].schema # type[t].schema)
                => Entitled(t)]_vars
  BY NextWrites, OwnersStep
<1>2. QED
  BY <1>1, Invariant, PTL DEF Spec, OwnersHold

\* The warnings of integration_alerts are exact, for any rows of the registry: a
\* type sent and not heard, or heard and not sent, has one of the three that say
\* so, any other has none, and a hole in the routing is warned about unless an
\* inactive module is subscribed.
THEOREM HolesAlerted == Spec => []HolesAreAlerted
<1>1. ASSUME NEW t \in Types, NEW warnings,
             warnings = integration_alerts(t)
                          \cap {"NO_SUBSCRIBERS", "NO_PRODUCER_DECLARED", "NO_CONSUMER_DECLARED"}
      PROVE  LET said == type[t].received > 0 \/ Producers(t) # {}
                 heard == Subscribers(t) # {}
             IN /\ (said <=> heard) => warnings = {}
                /\ ~(said <=> heard) => \E k : warnings = {k}
  <2>1. CASE type[t].received > 0
    BY <1>1, <2>1 DEF integration_alerts
  <2>2. CASE ~(type[t].received > 0) /\ Producers(t) # {}
    BY <1>1, <2>2 DEF integration_alerts
  <2>3. CASE ~(type[t].received > 0) /\ Producers(t) = {}
    BY <1>1, <2>3 DEF integration_alerts
  <2>4. QED
    BY <2>1, <2>2, <2>3
<1>2. HolesAreAlerted
  <2>1. SUFFICES ASSUME NEW t \in Types
        PROVE  LET said == type[t].received > 0 \/ Producers(t) # {}
                   heard == Subscribers(t) # {}
                   warnings == integration_alerts(t)
                     \cap {"NO_SUBSCRIBERS", "NO_PRODUCER_DECLARED", "NO_CONSUMER_DECLARED"}
               IN /\ Cardinality(warnings) = IF said = heard THEN 0 ELSE 1
                  /\ (type[t].received > 0 /\ heard /\ ~type[t].discovered)
                       => integration_alerts(t) = {}
                  /\ said /\ Receivers(t) = {}
                       => warnings # {} \/ \E m \in Subscribers(t) : status[m] # "ACTIVE"
    BY DEF HolesAreAlerted
  <2> DEFINE said == type[t].received > 0 \/ Producers(t) # {}
             heard == Subscribers(t) # {}
             warnings == integration_alerts(t)
                           \cap {"NO_SUBSCRIBERS", "NO_PRODUCER_DECLARED", "NO_CONSUMER_DECLARED"}
  <2>2. ((said <=> heard) => warnings = {}) /\ (~(said <=> heard) => \E k : warnings = {k})
    BY <1>1
  <2>3. Cardinality(warnings) = IF said <=> heard THEN 0 ELSE 1
    BY <2>2, FS_EmptySet, FS_Singleton
  <2>4. type[t].received > 0 /\ heard /\ ~type[t].discovered => integration_alerts(t) = {}
    BY DEF integration_alerts
  <2>5. heard /\ Receivers(t) = {} => \E m \in Subscribers(t) : status[m] # "ACTIVE"
    BY DEF Receivers
  <2>6. QED
    BY <2>2, <2>3, <2>4, <2>5
<1>3. QED
  BY <1>2, PTL

===============================================================================
