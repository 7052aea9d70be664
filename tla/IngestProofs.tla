----------------------------- MODULE IngestProofs -----------------------------
(***************************************************************************)
(* Proofs about Ingest, for any events, types, modules, messages and       *)
(* sessions, any faults and any bounds.                                    *)
(***************************************************************************)
EXTENDS Ingest, TLAPS

\* The part of TypeOK that is not about the tables or the sessions.
QueuesTyped ==
  /\ message \in [Messages -> {"unsent", "inbox", "http", "dlq", "done"}]
  /\ answers \in [Messages -> SUBSET {"200", "202", "422"}]
  /\ published \in [Events -> [Modules -> Nat]]
  /\ returned \subseteq Events \X Modules
  /\ dropped \subseteq Messages
  /\ brokerUp \in BOOLEAN
  /\ budget \in [{"faults", "edits", "nacks", "reprocess"} -> Nat]

\* What is on record stays on record.
Grows ==
  /\ \A e \in Events : Logged(e) => Logged(e)'
  /\ strays \subseteq strays'
  /\ \A e \in Events, m \in Modules :
       /\ delivery[e][m] # "NONE" => delivery'[e][m] # "NONE"
       /\ published[e][m] > 0 => published'[e][m] > 0

LEMMA IdleTyped ==
  /\ Idle \in Session /\ Nothing \in [Modules -> Outcome]
  /\ Idle.pc = "idle" /\ Idle.work = NoMessage /\ Idle.status = "NONE" /\ Idle.was = "NONE"
  /\ Idle.todo = {} /\ Idle.seen = Nothing /\ Idle.rows = Nothing /\ Idle.total = 0
  /\ ~Idle.queued /\ ~Idle.locks
  /\ \A m \in Modules : Nothing[m] = "NONE"
<1>1. Nothing \in [Modules -> Outcome] /\ \A m \in Modules : Nothing[m] = "NONE"
  BY DEF Nothing, Outcome
<1>2. Idle \in Session
  BY <1>1 DEF Idle, Session, LogStatus
<1>3. /\ Idle.pc = "idle" /\ Idle.work = NoMessage /\ Idle.status = "NONE" /\ Idle.was = "NONE"
      /\ Idle.todo = {} /\ Idle.seen = Nothing /\ Idle.rows = Nothing /\ Idle.total = 0
      /\ ~Idle.queued /\ ~Idle.locks
  BY DEF Idle
<1>4. QED
  BY <1>1, <1>2, <1>3

\* A unit that is idle but for what the acknowledgement needs is sound.
LEMMA IdleSound ==
  ASSUME NEW s \in Sessions
  PROVE  Sound(s, Idle)
BY IdleTyped DEF Sound, Working, Backed, Records, Retries, Handles

\* A unit of work stays sound while the records only grow and nobody else
\* records its event.
LEMMA SoundStays ==
  ASSUME NEW s \in Sessions, NEW u \in Session, Sound(s, u), Grows,
         s \notin Operators /\ u.status # "NONE" => ~Logged(EventAt(u))'
  PROVE  Sound(s, u)'
<1>1. Working(u)' /\ Backed(u)'
  BY DEF Sound, Working, Backed, Handles, EventAt, Grows
<1>2. CASE s \in Operators
  BY <1>1, <1>2 DEF Sound, Retries, EventAt, Grows
<1>3. CASE s \notin Operators
  <2>1. u.pc \in {"answer", "commit", "ack"} => EventAt(u) \in Events \cup {NoEvent}
    BY <1>3, IngestAssumption DEF Sound, Working, EventAt
  <2>2. \A e \in Events \cup {NoEvent} : Recorded(e) => Recorded(e)'
    BY DEF Recorded, Grows
  <2>3. QED
    BY <1>1, <1>3, <2>1, <2>2 DEF Sound, Records, Grows
<1>4. QED
  BY <1>2, <1>3

\* The unit of work that a session has after the step.
LEMMA SoundNext ==
  ASSUME NEW s \in Sessions, NEW u, u = session'[s], Sound(s, u)'
  PROVE  Sound(s, session[s])'
BY DEF Sound, Working, Backed, Records, Retries, Handles, EventAt

\* A step of one session that writes no table.
LEMMA SessionStep ==
  ASSUME IInv, NEW s \in Sessions, NEW u \in Session, session' = [session EXCEPT ![s] = u],
         UNCHANGED <<registry, hub, strays>>, QueuesTyped', EvidenceKept', Grows,
         Sound(s, u)',
         u.locks => \A o \in Sessions \ {s} : session[o].locks => TypeIn(o) # TypeOf[EventAt(u)]
  PROVE  IInv'
<1>1. session'[s] = u /\ \A o \in Sessions : o # s => session'[o] = session[o]
  BY DEF IInv, TypeOK
<1>2. UNCHANGED <<known, strict, received, subscribed, log, delivery, letter, strays>>
  BY DEF registry, hub
<1>3. TypeOK'
  <2>1. session' \in [Sessions -> Session]
    BY DEF IInv, TypeOK
  <2>2. QED
    BY <1>2, <2>1 DEF IInv, TypeOK, QueuesTyped
<1>4. TrafficSeen' /\ LogBacked'
  BY <1>2 DEF IInv, TrafficSeen, LogBacked, Logged
<1>5. RoutedIsBacked'
  BY <1>2 DEF IInv, RoutedIsBacked, Grows
<1>6. SessionsSound'
  <2>1. ASSUME NEW o \in Sessions, o # s
        PROVE  Sound(o, session[o])'
    <3>1. PICK v \in Session : v = session[o]
      BY DEF IInv, TypeOK
    <3>2. Sound(o, v)
      BY <3>1 DEF IInv, SessionsSound
    <3>3. o \notin Operators /\ v.status # "NONE" => ~Logged(EventAt(v))'
      BY <1>2, <3>2 DEF Sound, Records, Logged, EventAt
    <3>4. Sound(o, v)'
      BY <3>1, <3>2, <3>3, SoundStays
    <3>5. QED
      BY <1>1, <2>1, <3>1, <3>4, SoundNext
  <2>2. Sound(s, session[s])'
    BY <1>1, SoundNext
  <2>3. QED
    BY <2>1, <2>2 DEF SessionsSound
<1>7. LocksExclude'
  BY <1>1 DEF IInv, LocksExclude, TypeIn, EventIn, EventAt
<1>8. QED
  BY <1>3, <1>4, <1>5, <1>6, <1>7 DEF IInv

\* A step of one session that changes at most where messages are, what was
\* answered and the budget.
LEMMA QuietStep ==
  ASSUME IInv, NEW s \in Sessions, NEW u \in Session, session' = [session EXCEPT ![s] = u],
         UNCHANGED <<registry, hub, strays, published, returned, dropped, brokerUp>>,
         message' \in [Messages -> {"unsent", "inbox", "http", "dlq", "done"}],
         answers' \in [Messages -> SUBSET {"200", "202", "422"}],
         budget' \in [{"faults", "edits", "nacks", "reprocess"} -> Nat],
         \A m \in Messages : message'[m] = "done" /\ answers'[m] = {}
           => (message[m] = "done" /\ answers[m] = {}) \/ Recorded(EventOf[m]),
         Sound(s, u),
         u.locks => \A o \in Sessions \ {s} : session[o].locks => TypeIn(o) # TypeOf[EventAt(u)]
  PROVE  IInv'
<1>1. UNCHANGED <<log, delivery, letter, strays, published, dropped>>
  BY DEF hub
<1>2. Grows
  BY <1>1 DEF Grows, Logged
<1>3. QueuesTyped'
  BY DEF QueuesTyped, IInv, TypeOK
<1>4. EvidenceKept'
  <2>1. \A m \in Messages : Recorded(EventOf[m]) => Recorded(EventOf[m])'
    BY <1>1 DEF Recorded, Logged
  <2>2. QED
    BY <1>1, <2>1 DEF IInv, EvidenceKept
<1>5. Sound(s, u)'
  <2>1. s \notin Operators /\ u.status # "NONE" => ~Logged(EventAt(u))'
    BY <1>1 DEF Sound, Records, Logged, EventAt
  <2>2. QED
    BY <1>2, <2>1, SoundStays
<1>6. QED
  BY <1>2, <1>3, <1>4, <1>5, SessionStep

LEMMA SpendTyped ==
  ASSUME TypeOK, NEW what \in {"faults", "edits", "nacks", "reprocess"}, Spend(what)
  PROVE  budget' \in [{"faults", "edits", "nacks", "reprocess"} -> Nat]
BY DEF TypeOK, Spend

-----------------------------------------------------------------------------
(* The steps of a session before its commit.                               *)

LEMMA SessionsDisjoint ==
  /\ \A s \in Workers \cup Requests : s \in Sessions /\ s \notin Operators
  /\ Operators \subseteq Sessions /\ \A w \in Workers : w \notin Requests
BY IngestAssumption DEF Sessions

LEMMA BeginSound ==
  ASSUME TypeOK, NEW s \in Workers \cup Requests, NEW m \in Messages, NEW queued \in BOOLEAN,
         Begin(s, m, queued)
  PROVE  \E u \in Session : /\ session' = [session EXCEPT ![s] = u]
                            /\ Sound(s, u) /\ ~u.locks
<1>1. PICK u : u = [Idle EXCEPT !.pc = IF ~Readable(m) \/ Logged(EventOf[m]) THEN Finish(s) ELSE "type",
                                !.work = m, !.queued = queued]
  OBVIOUS
<1>2. session' = [session EXCEPT ![s] = u]
  BY <1>1, Zenon DEF Begin
<1>3. PICK pc : pc = IF ~Readable(m) \/ Logged(EventOf[m]) THEN Finish(s) ELSE "type"
  OBVIOUS
<1>4. /\ pc \in {"answer", "commit", "type"}
      /\ pc = "type" => EventOf[m] \in Events
      /\ pc # "type" => EventOf[m] = NoEvent \/ Logged(EventOf[m])
  BY <1>3, IngestAssumption DEF Finish, Readable
<1>5. u = [Idle EXCEPT !.pc = pc, !.work = m, !.queued = queued]
  BY <1>1, <1>3
<1>6. /\ u \in Session
      /\ u.pc = pc /\ u.work = m /\ u.status = "NONE" /\ u.todo = {} /\ u.seen = Nothing
      /\ u.rows = Nothing
  BY <1>4, <1>5, IdleTyped DEF Session
<1>7. ~u.locks
  BY <1>5, IdleTyped DEF Session
<1>8. Working(u) /\ Backed(u) /\ Records(u)
  BY <1>4, <1>6, <1>7, IdleTyped DEF Working, Backed, Records, Handles, EventAt
<1>9. QED
  BY <1>2, <1>6, <1>7, <1>8, SessionsDisjoint DEF Sound

LEMMA BeginsKeep ==
  ASSUME IInv, NEW m \in Messages,
         (\E w \in Workers : Receive(w, m)) \/ (\E r \in Requests : Submit(r, m))
  PROVE  IInv'
<1>1. TypeOK
  BY DEF IInv
<1>2. ASSUME NEW w \in Workers, Receive(w, m)
      PROVE  IInv'
  <2>1. PICK u \in Session : /\ session' = [session EXCEPT ![w] = u]
                             /\ Sound(w, u) /\ ~u.locks
    BY <1>1, <1>2, BeginSound DEF Receive
  <2>2. QED
    BY <1>1, <1>2, <2>1, QuietStep, SessionsDisjoint DEF Receive, queues, TypeOK
<1>3. ASSUME NEW r \in Requests, Submit(r, m)
      PROVE  IInv'
  <2>1. PICK u \in Session : /\ session' = [session EXCEPT ![r] = u]
                             /\ Sound(r, u) /\ ~u.locks
    BY <1>1, <1>3, BeginSound DEF Submit
  <2>2. /\ message' \in [Messages -> {"unsent", "inbox", "http", "dlq", "done"}]
        /\ \A x \in Messages : message'[x] = "done" => message[x] = "done"
    BY <1>1, <1>3 DEF Submit, TypeOK
  <2>3. QED
    BY <1>1, <1>3, <2>1, <2>2, QuietStep, SessionsDisjoint DEF Submit, TypeOK
<1>4. QED
  BY <1>2, <1>3

\* Whatever stops a session, no message is done that was not.
LEMMA StopsKeep ==
  ASSUME IInv, NEW s \in Sessions,
         UNCHANGED <<registry, hub, strays, published, returned, dropped, answers, brokerUp>>,
         budget' \in [{"faults", "edits", "nacks", "reprocess"} -> Nat],
         session' = [session EXCEPT ![s] = Idle],
         message' \in [Messages -> {"unsent", "inbox", "http", "dlq", "done"}],
         \A m \in Messages : message'[m] = "done" => message[m] = "done"
  PROVE  IInv'
<1>1. Idle \in Session /\ ~Idle.locks /\ Sound(s, Idle)
  BY IdleTyped, IdleSound
<1>2. answers' \in [Messages -> SUBSET {"200", "202", "422"}]
  BY DEF IInv, TypeOK
<1>3. QED
  BY <1>1, <1>2, QuietStep

LEMMA AbortKeeps ==
  ASSUME IInv, NEW s \in Sessions, Abort(s),
         UNCHANGED <<registry, hub, strays, published, returned, dropped, answers, brokerUp>>,
         budget' \in [{"faults", "edits", "nacks", "reprocess"} -> Nat]
  PROVE  IInv'
<1>1. \A where \in {"unsent", "inbox", "http", "dlq", "done"} :
        /\ AfterError(s, where) \in {"unsent", "inbox", "http", "dlq", "done"}
        /\ AfterError(s, where) = "done" => where = "done"
  BY DEF AfterError
<1>2. /\ message' \in [Messages -> {"unsent", "inbox", "http", "dlq", "done"}]
      /\ \A m \in Messages : message'[m] = "done" => message[m] = "done"
  BY <1>1 DEF Abort, IInv, TypeOK
<1>3. QED
  BY <1>2, StopsKeep DEF Abort

LEMMA FaultsKeep ==
  ASSUME IInv, NEW s \in Sessions, Raise(s) \/ Crash(s)
  PROVE  IInv'
<1>1. budget' \in [{"faults", "edits", "nacks", "reprocess"} -> Nat]
  BY SpendTyped DEF Raise, Crash, Fault, IInv
<1>2. CASE Raise(s)
  BY <1>1, <1>2, AbortKeeps DEF Raise
<1>3. CASE Crash(s)
  <2>1. /\ message' \in [Messages -> {"unsent", "inbox", "http", "dlq", "done"}]
        /\ \A m \in Messages : message'[m] = "done" => message[m] = "done"
    BY <1>3 DEF Crash, IInv, TypeOK
  <2>2. QED
    BY <1>1, <1>3, <2>1, StopsKeep DEF Crash
<1>4. QED
  BY <1>2, <1>3

LEMMA AckKeeps ==
  ASSUME IInv, NEW w \in Workers, Ack(w)
  PROVE  IInv'
<1>1. w \in Sessions /\ w \notin Operators
  BY SessionsDisjoint
<1>2. PICK v \in Session : v = session[w]
  BY <1>1 DEF IInv, TypeOK
<1>3. v.pc = "ack" /\ Recorded(EventOf[v.work])
  BY <1>1, <1>2 DEF Ack, IInv, SessionsSound, Sound, Records, EventAt
<1>4. /\ UNCHANGED <<registry, hub, strays, published, returned, dropped, answers, brokerUp, budget>>
      /\ session' = [session EXCEPT ![w] = Idle]
      /\ message' \in [Messages -> {"unsent", "inbox", "http", "dlq", "done"}]
      /\ \A m \in Messages : message'[m] = "done" => message[m] = "done" \/ m = v.work
  BY <1>2 DEF Ack, IInv, TypeOK
<1>5. \A m \in Messages : message'[m] = "done" /\ answers'[m] = {}
        => (message[m] = "done" /\ answers[m] = {}) \/ Recorded(EventOf[m])
  BY <1>3, <1>4
<1>6. /\ Idle \in Session /\ ~Idle.locks /\ Sound(w, Idle)
      /\ answers' \in [Messages -> SUBSET {"200", "202", "422"}]
      /\ budget' \in [{"faults", "edits", "nacks", "reprocess"} -> Nat]
  BY <1>1, <1>4, IdleTyped, IdleSound DEF IInv, TypeOK
<1>7. QED
  BY <1>1, <1>4, <1>5, <1>6, QuietStep

\* The next unit of work of a session that only reads and flushes.
LEMMA ReadStep ==
  ASSUME IInv, NEW s \in Sessions, NEW u \in Session, session' = [session EXCEPT ![s] = u],
         UNCHANGED <<registry, hub, strays, queues, answers, brokerUp>>,
         budget' \in [{"faults", "edits", "nacks", "reprocess"} -> Nat],
         Sound(s, u),
         u.locks => \A o \in Sessions \ {s} : session[o].locks => TypeIn(o) # TypeOf[EventAt(u)]
  PROVE  IInv'
<1>1. /\ UNCHANGED <<registry, hub, strays, published, returned, dropped, brokerUp>>
      /\ message' \in [Messages -> {"unsent", "inbox", "http", "dlq", "done"}]
      /\ answers' \in [Messages -> SUBSET {"200", "202", "422"}]
      /\ \A m \in Messages : message'[m] = "done" /\ answers'[m] = {}
           => (message[m] = "done" /\ answers[m] = {}) \/ Recorded(EventOf[m])
  BY DEF queues, IInv, TypeOK
<1>2. QED
  BY <1>1, QuietStep

\* What is known of the unit a session has in hand.
LEMMA InHandSound ==
  ASSUME IInv, NEW s \in Sessions
  PROVE  \E v \in Session :
           /\ v = session[s] /\ Working(v) /\ Backed(v)
           /\ s \in Operators => Retries(v)
           /\ s \notin Operators => Records(v)
           /\ v.locks => \A o \in Sessions \ {s} : session[o].locks => TypeIn(o) # TypeOf[EventAt(v)]
           /\ EventIn(s) = EventAt(v) /\ TypeIn(s) = TypeOf[EventAt(v)]
           /\ budget \in [{"faults", "edits", "nacks", "reprocess"} -> Nat]
<1>1. PICK v \in Session : v = session[s]
  BY DEF IInv, TypeOK
<1>2. Sound(s, v) /\ EventIn(s) = EventAt(v) /\ TypeIn(s) = TypeOf[EventAt(v)]
  BY <1>1 DEF IInv, SessionsSound, EventIn, TypeIn, EventAt
<1>3. v.locks => \A o \in Sessions \ {s} : session[o].locks => TypeIn(o) # TypeOf[EventAt(v)]
  BY <1>1, <1>2 DEF IInv, LocksExclude
<1>4. budget \in [{"faults", "edits", "nacks", "reprocess"} -> Nat]
  BY DEF IInv, TypeOK
<1>5. QED
  BY <1>1, <1>2, <1>3, <1>4 DEF Sound

LEMMA TypesKeep ==
  ASSUME IInv, NEW s \in Workers \cup Requests, FindType(s) \/ MissType(s) \/ CreateType(s)
  PROVE  IInv'
<1>1. s \in Sessions /\ s \notin Operators
  BY SessionsDisjoint
<1>2. PICK v \in Session :
        /\ v = session[s] /\ Working(v) /\ Backed(v) /\ Records(v)
        /\ v.locks => \A o \in Sessions \ {s} : session[o].locks => TypeIn(o) # TypeOf[EventAt(v)]
        /\ TypeIn(s) = TypeOf[EventAt(v)]
        /\ budget \in [{"faults", "edits", "nacks", "reprocess"} -> Nat]
  BY <1>1, InHandSound
<1>3. CASE FindType(s)
  <2>1. PICK total, fits : total = CountedTotal(TypeIn(s)) /\ fits = validate_data(TypeIn(s), v.work)
    OBVIOUS
  <2>2. PICK u : u = [v EXCEPT !.pc = "insert", !.total = total, !.fits = fits]
    OBVIOUS
  <2>3. v.pc = "type" /\ session' = [session EXCEPT ![s] = u]
    BY <1>2, <1>3, <2>1, <2>2 DEF FindType
  <2>4. total \in Nat /\ total > 0
    <3>1. EventAt(v) \in Events /\ TypeIn(s) \in Types
      BY <1>2, <2>3, IngestAssumption DEF Working, Handles
    <3>2. QED
      BY <2>1, <3>1 DEF CountedTotal, IInv, TypeOK
  <2>5. fits \in BOOLEAN
    BY <2>1 DEF validate_data
  <2>6. /\ u \in Session /\ u.pc = "insert" /\ u.total = total
        /\ u.work = v.work /\ u.status = v.status /\ u.seen = v.seen /\ u.todo = v.todo
        /\ u.rows = v.rows
    BY <2>2, <2>4, <2>5 DEF Session
  <2>7. u.locks <=> v.locks
    BY <2>2 DEF Session
  <2>8. Sound(s, u)
    BY <1>1, <1>2, <2>3, <2>4, <2>6, <2>7 DEF Sound, Working, Backed, Records, Handles, EventAt
  <2>9. QED
    BY <1>1, <1>2, <1>3, <2>3, <2>6, <2>7, <2>8, ReadStep DEF FindType, EventAt
<1>4. CASE MissType(s)
  <2>1. PICK u : u = [v EXCEPT !.pc = "create"]
    OBVIOUS
  <2>2. v.pc = "type" /\ session' = [session EXCEPT ![s] = u]
    BY <1>2, <1>4, <2>1 DEF MissType
  <2>3. /\ u \in Session /\ u.pc = "create" /\ u.total = v.total
        /\ u.work = v.work /\ u.status = v.status /\ u.seen = v.seen /\ u.todo = v.todo
        /\ u.rows = v.rows
    BY <2>1 DEF Session
  <2>4. u.locks <=> v.locks
    BY <2>1 DEF Session
  <2>5. Sound(s, u)
    BY <1>1, <1>2, <2>2, <2>3, <2>4 DEF Sound, Working, Backed, Records, Handles, EventAt
  <2>6. QED
    BY <1>1, <1>2, <1>4, <2>2, <2>3, <2>4, <2>5, ReadStep DEF MissType, EventAt
<1>5. CASE CreateType(s)
  <2>1. CASE Abort(s)
    BY <1>1, <1>2, <1>5, <2>1, AbortKeeps DEF CreateType
  <2>2. CASE /\ session' = [session EXCEPT ![s].pc = "insert", ![s].locks = TRUE, ![s].total = 1]
             /\ UNCHANGED message
    <3>1. PICK u : u = [v EXCEPT !.pc = "insert", !.locks = TRUE, !.total = 1]
      OBVIOUS
    <3>2. v.pc = "create" /\ session' = [session EXCEPT ![s] = u]
      BY <1>2, <1>5, <2>2, <3>1 DEF CreateType
    <3>3. /\ u \in Session /\ u.pc = "insert" /\ u.total = 1
          /\ u.work = v.work /\ u.status = v.status /\ u.seen = v.seen /\ u.todo = v.todo
          /\ u.rows = v.rows
      BY <3>1 DEF Session
    <3>4. u.locks
      BY <3>1 DEF Session
    <3>5. Sound(s, u)
      BY <1>1, <1>2, <3>2, <3>3, <3>4 DEF Sound, Working, Backed, Records, Handles, EventAt
    <3>6. \A o \in Sessions \ {s} : session[o].locks => TypeIn(o) # TypeOf[EventAt(u)]
      BY <1>2, <1>5, <3>3 DEF CreateType, MayFlushType, EventAt
    <3>7. UNCHANGED <<registry, hub, strays, queues, answers, brokerUp, budget>>
      BY <1>5, <2>2 DEF CreateType, queues
    <3>8. QED
      BY <1>1, <1>2, <3>2, <3>3, <3>5, <3>6, <3>7, ReadStep
  <2>3. QED
    BY <1>5, <2>1, <2>2 DEF CreateType
<1>6. QED
  BY <1>3, <1>4, <1>5

LEMMA InsertKeeps ==
  ASSUME IInv, NEW s \in Workers \cup Requests, Insert(s)
  PROVE  IInv'
<1>1. s \in Sessions /\ s \notin Operators
  BY SessionsDisjoint
<1>2. PICK v \in Session :
        /\ v = session[s] /\ Working(v) /\ Backed(v) /\ Records(v)
        /\ EventIn(s) = EventAt(v) /\ TypeIn(s) = TypeOf[EventAt(v)]
        /\ budget \in [{"faults", "edits", "nacks", "reprocess"} -> Nat]
  BY <1>1, InHandSound
<1>3. CASE Abort(s)
  BY <1>1, <1>2, <1>3, AbortKeeps DEF Insert
<1>4. CASE /\ ~Logged(EventIn(s)) /\ UNCHANGED message
           /\ session' = [session EXCEPT
                ![s].locks = TRUE,
                ![s].pc = IF session[s].fits THEN "route" ELSE Finish(s),
                ![s].status = IF session[s].fits THEN "ROUTED" ELSE "REJECTED"]
  <2>1. PICK pc, status : /\ pc = IF session[s].fits THEN "route" ELSE Finish(s)
                          /\ status = IF session[s].fits THEN "ROUTED" ELSE "REJECTED"
    OBVIOUS
  <2>2. /\ pc \in {"route", "answer", "commit"} /\ status \in {"ROUTED", "REJECTED"}
        /\ pc # "route" => status = "REJECTED"
    BY <2>1 DEF Finish
  <2>3. PICK u : u = [v EXCEPT !.locks = TRUE, !.pc = pc, !.status = status]
    OBVIOUS
  <2>4. session' = [session EXCEPT ![s] = u]
    BY <1>2, <1>4, <2>1, <2>3
  <2>5. v.pc = "insert" /\ \A o \in Sessions \ {s} : session[o].locks => TypeIn(o) # TypeOf[EventAt(v)]
    BY <1>2 DEF Insert, MayFlushType
  <2>6. /\ u \in Session /\ u.pc = pc /\ u.status = status /\ u.total = v.total
        /\ u.work = v.work /\ u.seen = v.seen /\ u.todo = v.todo /\ u.rows = v.rows
    BY <2>2, <2>3 DEF Session, LogStatus
  <2>7. u.locks
    BY <2>3 DEF Session
  <2>8. Sound(s, u)
    BY <1>1, <1>2, <1>4, <2>2, <2>5, <2>6, <2>7, IdleTyped
       DEF Sound, Working, Backed, Records, Handles, EventAt
  <2>9. UNCHANGED <<registry, hub, strays, queues, answers, brokerUp, budget>>
    BY <1>4 DEF Insert, queues
  <2>10. QED
    BY <1>1, <1>2, <2>4, <2>5, <2>6, <2>8, <2>9, ReadStep DEF EventAt
<1>5. QED
  BY <1>3, <1>4 DEF Insert, Taken

LEMMA FinishAt ==
  ASSUME NEW s \in Sessions
  PROVE  Finish(s) \in {"answer", "commit"} /\ (s \in Operators => Finish(s) = "commit")
BY IngestAssumption DEF Finish

LEMMA RouteKeeps ==
  ASSUME IInv, NEW s \in Sessions, Route(s)
  PROVE  IInv'
<1>1. PICK v \in Session :
        /\ v = session[s] /\ Working(v) /\ Backed(v)
        /\ s \in Operators => Retries(v)
        /\ s \notin Operators => Records(v)
        /\ v.locks => \A o \in Sessions \ {s} : session[o].locks => TypeIn(o) # TypeOf[EventAt(v)]
        /\ EventIn(s) = EventAt(v) /\ TypeIn(s) = TypeOf[EventAt(v)]
        /\ budget \in [{"faults", "edits", "nacks", "reprocess"} -> Nat]
  BY InHandSound
<1>2. PICK e : e = EventAt(v)
  OBVIOUS
<1>3. v.pc = "route" /\ v.work \in Messages /\ e \in Events /\ v.todo = {} /\ v.rows = Nothing
  BY <1>1, <1>2 DEF Route, Working, Handles
<1>4. PICK subscribers, seen :
        subscribers = subscribed[TypeOf[e]] /\ seen = Merged(v.seen, delivery[e])
  OBVIOUS
<1>5. PICK todo : todo = {m \in subscribers : ~Confirmed(seen, m)}
  OBVIOUS
<1>6. PICK status, pc : /\ status = RouteStatus(subscribers)
                        /\ pc = IF todo = {} THEN Finish(s) ELSE "publish"
  OBVIOUS
<1>7. PICK u : u = [v EXCEPT !.status = status, !.seen = seen, !.todo = todo, !.pc = pc]
  OBVIOUS
<1>8. session' = [session EXCEPT ![s] = u]
  BY <1>1, <1>2, <1>4, <1>5, <1>6, <1>7 DEF Route
<1>9. delivery[e] \in [Modules -> Outcome] /\ v.seen \in [Modules -> Outcome]
  BY <1>3 DEF IInv, TypeOK, Session
<1>10. /\ subscribers \subseteq Modules /\ todo \subseteq Modules
       /\ status \in {"ROUTED", "NO_SUBSCRIBERS"} /\ (status = "ROUTED" => subscribers # {})
       /\ pc \in {"publish", "answer", "commit"} /\ (pc # "publish" => todo = {})
       /\ s \in Operators => pc \in {"publish", "commit"}
  <2>1. TypeOf[e] \in Types
    BY <1>3, IngestAssumption
  <2>2. QED
    BY <1>4, <1>5, <1>6, <2>1, FinishAt DEF IInv, TypeOK, RouteStatus
<1>11. /\ seen \in [Modules -> Outcome]
       /\ \A m \in Modules : seen[m] # "NONE" => v.seen[m] # "NONE" \/ delivery[e][m] # "NONE"
  BY <1>4, <1>9 DEF Merged
<1>12. /\ u \in Session /\ u.pc = pc /\ u.status = status /\ u.seen = seen /\ u.todo = todo
       /\ u.work = v.work /\ u.rows = v.rows /\ u.total = v.total
  BY <1>7, <1>10, <1>11 DEF Session, LogStatus
<1>13. u.locks <=> v.locks
  BY <1>7 DEF Session
<1>14. Working(u) /\ Backed(u)
  <2>1. subscribers # {} => \E m \in Modules : m \in todo \/ seen[m] = "DELIVERED"
    BY <1>5, <1>10 DEF Confirmed
  <2>2. QED
    BY <1>1, <1>2, <1>3, <1>10, <1>12, <2>1, IdleTyped DEF Working, Backed, Handles, EventAt
<1>15. /\ u.locks => \A o \in Sessions \ {s} : session[o].locks => TypeIn(o) # TypeOf[EventAt(u)]
       /\ budget' \in [{"faults", "edits", "nacks", "reprocess"} -> Nat]
       /\ UNCHANGED <<registry, hub, strays, queues, answers, brokerUp>>
  BY <1>1, <1>12, <1>13 DEF Route, EventAt
<1>16. CASE s \in Operators
  <2>1. Retries(u)
    BY <1>1, <1>2, <1>3, <1>10, <1>11, <1>12, <1>13, <1>16 DEF Retries, EventAt
  <2>2. Sound(s, u)
    BY <1>14, <1>16, <2>1 DEF Sound
  <2>3. QED
    BY <1>8, <1>12, <1>15, <2>2, ReadStep
<1>17. CASE s \notin Operators
  <2>1. v.seen = Nothing /\ ~Logged(e) /\ v.locks /\ v.total > 0
    BY <1>1, <1>2, <1>3, <1>17 DEF Records, Working
  <2>2. seen = Nothing
    <3>1. \A m \in Modules : seen[m] = "NONE"
      BY <1>3, <1>11, <2>1, IdleTyped DEF IInv, LogBacked
    <3>2. QED
      BY <1>11, <3>1 DEF Nothing
  <2>3. Records(u)
    BY <1>1, <1>2, <1>10, <1>12, <1>13, <2>1, <2>2 DEF Records, EventAt
  <2>4. Sound(s, u)
    BY <1>14, <1>17, <2>3 DEF Sound
  <2>5. QED
    BY <1>8, <1>12, <1>15, <2>4, ReadStep
<1>18. QED
  BY <1>16, <1>17

LEMMA PublishKeeps ==
  ASSUME IInv, NEW s \in Sessions, NEW m \in Modules, PublishTo(s, m)
  PROVE  IInv'
<1>1. PICK v \in Session :
        /\ v = session[s] /\ Working(v) /\ Backed(v)
        /\ s \in Operators => Retries(v)
        /\ s \notin Operators => Records(v)
        /\ v.locks => \A o \in Sessions \ {s} : session[o].locks => TypeIn(o) # TypeOf[EventAt(v)]
        /\ EventIn(s) = EventAt(v) /\ TypeIn(s) = TypeOf[EventAt(v)]
        /\ budget \in [{"faults", "edits", "nacks", "reprocess"} -> Nat]
  BY InHandSound
<1>2. PICK e : e = EventAt(v)
  OBVIOUS
<1>3. v.pc = "publish" /\ v.work \in Messages /\ e \in Events /\ v.status # "NONE" /\ m \in v.todo
  BY <1>1, <1>2 DEF PublishTo, Working, Handles
<1>4. PICK todo, outcome :
        /\ todo = v.todo \ {m} /\ outcome \in Outcome \ {"NONE"}
        /\ \/ outcome = "DELIVERED" /\ brokerUp /\ UNCHANGED budget
           \/ outcome = "RETRYING" /\ ~brokerUp /\ UNCHANGED budget
           \/ outcome = "RETRYING" /\ brokerUp /\ Fault("confirm")
        /\ published' = [published EXCEPT ![e][m] = IF brokerUp THEN @ + 1 ELSE @]
        /\ session' = [session EXCEPT ![s].rows[m] = outcome,
                                      ![s].todo = todo,
                                      ![s].pc = IF todo = {} THEN Finish(s) ELSE "publish"]
  BY <1>1, <1>2 DEF PublishTo
<1>5. PICK pc, rows : /\ pc = IF todo = {} THEN Finish(s) ELSE "publish"
                      /\ rows = [v.rows EXCEPT ![m] = outcome]
  OBVIOUS
<1>6. PICK u : u = [v EXCEPT !.rows = rows, !.todo = todo, !.pc = pc]
  OBVIOUS
<1>7. session' = [session EXCEPT ![s] = u]
  BY <1>1, <1>4, <1>5, <1>6 DEF IInv, TypeOK, Session
<1>8. /\ pc \in {"publish", "answer", "commit"} /\ (pc # "publish" => todo = {})
      /\ s \in Operators => pc \in {"publish", "commit"}
      /\ todo \subseteq Modules
  BY <1>4, <1>5, FinishAt DEF Session
<1>9. /\ rows \in [Modules -> Outcome] /\ rows[m] = outcome /\ outcome # "NONE"
      /\ \A x \in Modules : x # m => rows[x] = v.rows[x]
  BY <1>4, <1>5 DEF Session
<1>10. /\ u \in Session /\ u.pc = pc /\ u.todo = todo /\ u.rows = rows
       /\ u.work = v.work /\ u.status = v.status /\ u.seen = v.seen /\ u.total = v.total
  BY <1>6, <1>8, <1>9 DEF Session
<1>11. u.locks <=> v.locks
  BY <1>6 DEF Session
<1>12. /\ published' \in [Events -> [Modules -> Nat]]
       /\ \A x \in Events, y \in Modules : published[x][y] > 0 => published'[x][y] > 0
       /\ outcome = "DELIVERED" => published'[e][m] > 0
  BY <1>3, <1>4 DEF IInv, TypeOK
<1>13. UNCHANGED <<registry, hub, strays, message, returned, dropped, answers, brokerUp>>
  BY DEF PublishTo
<1>14. QueuesTyped' /\ EvidenceKept' /\ Grows
  <2>1. budget' \in [{"faults", "edits", "nacks", "reprocess"} -> Nat]
    BY <1>1, <1>4, SpendTyped DEF Fault, IInv
  <2>2. UNCHANGED <<log, delivery>>
    BY <1>13 DEF hub
  <2>3. EvidenceKept'
    BY <1>13, <2>2 DEF IInv, EvidenceKept, Recorded, Logged
  <2>4. QED
    BY <1>12, <1>13, <2>1, <2>2, <2>3 DEF QueuesTyped, IInv, TypeOK, Grows, Logged
<1>15. Sound(s, u)'
  <2>1. Working(u)'
    BY <1>1, <1>2, <1>3, <1>4, <1>8, <1>9, <1>10, <1>11 DEF Working, Handles, EventAt
  <2>2. Backed(u)'
    BY <1>1, <1>2, <1>3, <1>9, <1>10, <1>12 DEF Backed, EventAt
  <2>3. CASE s \in Operators
    <3>1. Retries(u)'
      BY <1>1, <1>2, <1>3, <1>8, <1>10, <1>11, <1>13, <2>3 DEF Retries, EventAt, hub, Logged
    <3>2. QED
      BY <2>1, <2>2, <2>3, <3>1 DEF Sound
  <2>4. CASE s \notin Operators
    <3>1. Records(u)'
      BY <1>1, <1>2, <1>3, <1>8, <1>10, <1>11, <1>13, <2>4 DEF Records, EventAt, hub, Logged
    <3>2. QED
      BY <2>1, <2>2, <2>4, <3>1 DEF Sound
  <2>5. QED
    BY <2>3, <2>4
<1>16. QED
  BY <1>1, <1>7, <1>10, <1>11, <1>13, <1>14, <1>15, SessionStep DEF EventAt

LEMMA AnswerKeeps ==
  ASSUME IInv, NEW r \in Requests, Answer(r)
  PROVE  IInv'
<1>1. r \in Sessions /\ r \notin Operators
  BY SessionsDisjoint
<1>2. PICK v \in Session :
        /\ v = session[r] /\ Working(v) /\ Backed(v) /\ Records(v)
        /\ v.locks => \A o \in Sessions \ {r} : session[o].locks => TypeIn(o) # TypeOf[EventAt(v)]
        /\ budget \in [{"faults", "edits", "nacks", "reprocess"} -> Nat]
  BY <1>1, InHandSound
<1>3. PICK u, code : /\ u = [v EXCEPT !.pc = "commit"]
                     /\ code = CASE session[r].status = "NONE" -> "200"
                                 [] session[r].status = "REJECTED" -> "422"
                                 [] OTHER -> "202"
  OBVIOUS
<1>4. /\ v.pc = "answer" /\ session' = [session EXCEPT ![r] = u]
      /\ answers' = [answers EXCEPT ![v.work] = @ \cup {code}]
      /\ message' = [message EXCEPT ![v.work] = "done"]
      /\ UNCHANGED <<registry, hub, strays, published, returned, dropped, brokerUp, budget>>
  BY <1>2, <1>3 DEF Answer
<1>5. /\ u \in Session /\ u.pc = "commit" /\ u.todo = v.todo /\ u.rows = v.rows
      /\ u.work = v.work /\ u.status = v.status /\ u.seen = v.seen /\ u.total = v.total
  BY <1>3 DEF Session
<1>6. u.locks <=> v.locks
  BY <1>3 DEF Session
<1>7. Sound(r, u)
  BY <1>1, <1>2, <1>4, <1>5, <1>6 DEF Sound, Working, Backed, Records, Handles, EventAt
<1>8. code \in {"200", "202", "422"}
  BY <1>3
<1>9. /\ message' \in [Messages -> {"unsent", "inbox", "http", "dlq", "done"}]
      /\ answers' \in [Messages -> SUBSET {"200", "202", "422"}]
      /\ \A m \in Messages : message'[m] = "done" /\ answers'[m] = {}
           => message[m] = "done" /\ answers[m] = {}
  BY <1>4, <1>8 DEF IInv, TypeOK
<1>10. /\ u.locks => \A o \in Sessions \ {r} : session[o].locks => TypeIn(o) # TypeOf[EventAt(u)]
       /\ budget' \in [{"faults", "edits", "nacks", "reprocess"} -> Nat]
       /\ UNCHANGED <<registry, hub, strays, published, returned, dropped, brokerUp>>
  BY <1>2, <1>4, <1>5, <1>6 DEF EventAt
<1>11. QED
  BY <1>1, <1>4, <1>5, <1>7, <1>9, <1>10, QuietStep

-----------------------------------------------------------------------------
(* The steps of operators before their commit.                             *)

LEMMA OpenKeeps ==
  ASSUME IInv, NEW o \in Operators, NEW e \in Events, OpenLetter(o, e)
  PROVE  IInv'
<1>1. o \in Sessions
  BY SessionsDisjoint
<1>2. letter[e] = "OPEN" /\ log[e].body \in Messages /\ EventOf[log[e].body] = e /\ Logged(e)
  BY DEF OpenLetter, IInv, LogBacked
<1>3. PICK pc \in {"check", "discard"} :
        session' = [session EXCEPT ![o] = [Idle EXCEPT !.pc = pc, !.work = log[e].body]]
  BY DEF OpenLetter
<1>4. PICK body : body = log[e].body
  OBVIOUS
<1>5. PICK u : u = [Idle EXCEPT !.pc = pc, !.work = body]
  OBVIOUS
<1>6. /\ u \in Session /\ u.pc = pc /\ u.work = body /\ u.status = "NONE" /\ u.todo = {}
      /\ u.seen = Nothing /\ u.rows = Nothing
  BY <1>2, <1>3, <1>5, <1>4, IdleTyped DEF Session
<1>7. ~u.locks
  BY <1>5, IdleTyped DEF Session
<1>8. Sound(o, u)
  BY <1>1, <1>2, <1>3, <1>6, <1>7, <1>4, IdleTyped DEF Sound, Working, Backed, Retries, Handles, EventAt
<1>9. /\ budget' \in [{"faults", "edits", "nacks", "reprocess"} -> Nat]
      /\ UNCHANGED <<registry, hub, strays, queues, answers, brokerUp>>
  BY SpendTyped DEF OpenLetter, IInv
<1>10. QED
  BY <1>1, <1>3, <1>5, <1>6, <1>7, <1>8, <1>9, <1>4, ReadStep

LEMMA RevalidateKeeps ==
  ASSUME IInv, NEW o \in Operators, Revalidate(o)
  PROVE  IInv'
<1>1. o \in Sessions
  BY SessionsDisjoint
<1>2. PICK v \in Session :
        /\ v = session[o] /\ Working(v) /\ Backed(v) /\ Retries(v)
        /\ EventIn(o) = EventAt(v)
        /\ budget \in [{"faults", "edits", "nacks", "reprocess"} -> Nat]
  BY <1>1, InHandSound
<1>3. PICK e, fits : e = EventAt(v) /\ fits = validate_data(TypeOf[e], v.work)
  OBVIOUS
<1>4. PICK u : u = [v EXCEPT !.was = log[e].status, !.seen = delivery[e], !.fits = fits,
                             !.status = IF fits THEN "ROUTED" ELSE "REJECTED",
                             !.pc = IF fits THEN "route" ELSE "commit"]
  OBVIOUS
<1>5. v.pc = "check" /\ session' = [session EXCEPT ![o] = u]
  BY <1>2, <1>3, <1>4 DEF Revalidate
<1>6. e \in Events /\ v.work \in Messages /\ Logged(e) /\ v.todo = {} /\ v.rows = Nothing /\ ~v.locks
  BY <1>2, <1>3, <1>5 DEF Working, Retries, Handles
<1>7. /\ fits \in BOOLEAN /\ log[e].status \in LogStatus /\ delivery[e] \in [Modules -> Outcome]
  BY <1>3, <1>6 DEF validate_data, IInv, TypeOK
<1>8. PICK status, pc : /\ status = IF fits THEN "ROUTED" ELSE "REJECTED"
                        /\ pc = IF fits THEN "route" ELSE "commit"
  OBVIOUS
<1>9. /\ pc \in {"route", "commit"} /\ status \in {"ROUTED", "REJECTED"}
      /\ pc = "commit" => status = "REJECTED"
  BY <1>8
<1>10. u = [v EXCEPT !.was = log[e].status, !.seen = delivery[e], !.fits = fits,
                     !.status = status, !.pc = pc]
  BY <1>4, <1>8
<1>11. /\ u \in Session /\ u.pc = pc /\ u.status = status /\ u.seen = delivery[e]
       /\ u.work = v.work /\ u.todo = {} /\ u.rows = Nothing
  BY <1>6, <1>7, <1>9, <1>10 DEF Session, LogStatus
<1>12. ~u.locks
  BY <1>6, <1>10 DEF Session
<1>13. Sound(o, u)
  BY <1>1, <1>3, <1>6, <1>9, <1>11, <1>12, IdleTyped
     DEF Sound, Working, Backed, Retries, Handles, EventAt
<1>14. QED
  BY <1>1, <1>2, <1>5, <1>11, <1>12, <1>13, ReadStep DEF Revalidate

-----------------------------------------------------------------------------
(* The commits.                                                            *)

\* The end of a transaction.
LEMMA CommitStep ==
  ASSUME IInv, NEW s \in Sessions, NEW u \in Session, session' = [session EXCEPT ![s] = u],
         ~u.locks, TypeOK', EvidenceKept', TrafficSeen', RoutedIsBacked', LogBacked', Grows,
         Sound(s, u)',
         \A o \in Sessions \ Operators :
           o # s /\ session[o].status # "NONE" => log'[EventAt(session[o])].status = "NONE"
  PROVE  IInv'
<1>1. session'[s] = u /\ \A o \in Sessions : o # s => session'[o] = session[o]
  BY DEF IInv, TypeOK
<1>2. ASSUME NEW o \in Sessions, o # s
      PROVE  Sound(o, session[o])'
  <2>1. PICK v \in Session : v = session[o]
    BY DEF IInv, TypeOK
  <2>2. Sound(o, v)
    BY <2>1 DEF IInv, SessionsSound
  <2>3. o \notin Operators /\ v.status # "NONE" => ~Logged(EventAt(v))'
    BY <1>2, <2>1 DEF Logged, EventAt
  <2>4. Sound(o, v)'
    BY <2>1, <2>2, <2>3, SoundStays
  <2>5. QED
    BY <1>1, <1>2, <2>1, <2>4, SoundNext
<1>3. Sound(s, session[s])'
  BY <1>1, SoundNext
<1>4. SessionsSound'
  BY <1>2, <1>3 DEF SessionsSound
<1>5. LocksExclude'
  BY <1>1 DEF IInv, LocksExclude, TypeIn, EventIn
<1>6. QED
  BY <1>4, <1>5 DEF IInv

LEMMA DiscardKeeps ==
  ASSUME IInv, NEW o \in Operators, CommitDiscard(o)
  PROVE  IInv'
<1>1. o \in Sessions
  BY SessionsDisjoint
<1>2. PICK v \in Session : v = session[o] /\ Retries(v) /\ EventIn(o) = EventAt(v)
  BY <1>1, InHandSound
<1>3. PICK e : e = EventAt(v)
  OBVIOUS
<1>4. /\ e \in Events /\ Logged(e) /\ letter' = [letter EXCEPT ![e] = "DISCARDED"]
      /\ session' = [session EXCEPT ![o] = Idle]
      /\ UNCHANGED <<known, strict, received, subscribed, log, delivery, strays, message, published,
                     returned, dropped, answers, brokerUp, budget>>
  BY <1>2, <1>3 DEF CommitDiscard, Retries, registry, queues
<1>5. TypeOK'
  BY <1>1, <1>4, IdleTyped DEF IInv, TypeOK
<1>6. EvidenceKept' /\ TrafficSeen' /\ RoutedIsBacked' /\ Grows
  BY <1>4 DEF IInv, EvidenceKept, TrafficSeen, RoutedIsBacked, Recorded, Logged, Grows
<1>7. LogBacked'
  BY <1>4 DEF IInv, TypeOK, LogBacked, Logged
<1>8. Sound(o, Idle)' /\ Idle \in Session /\ ~Idle.locks
  BY <1>1, IdleTyped, IdleSound, <1>6, SoundStays
<1>9. \A x \in Sessions \ Operators :
        x # o /\ session[x].status # "NONE" => log'[EventAt(session[x])].status = "NONE"
  BY <1>4 DEF IInv, SessionsSound, Sound, Records, Logged
<1>10. QED
  BY <1>1, <1>4, <1>5, <1>6, <1>7, <1>8, <1>9, CommitStep

\* What is left of a unit of work whose transaction ended: a worker still
\* acknowledges its message.
LEMMA EndSound ==
  ASSUME NEW s \in Workers \cup Requests, NEW u \in Session,
         u.pc \in {"idle", "ack"}, u.status = "NONE", u.todo = {}, u.seen = Nothing,
         u.rows = Nothing, ~u.locks,
         u.pc = "ack" => u.work \in Messages /\ Recorded(EventAt(u))'
  PROVE  Sound(s, u)'
<1>1. Working(u)' /\ Backed(u)'
  BY IdleTyped DEF Working, Backed, Handles, EventAt
<1>2. Records(u)'
  BY DEF Records, EventAt
<1>3. QED
  BY <1>1, <1>2, SessionsDisjoint DEF Sound

\* The unit of work after the commit of a worker or of a request.
LEMMA AfterCommit ==
  ASSUME NEW s \in Workers \cup Requests, NEW v \in Session, v.work \in Messages
  PROVE  \E u \in Session :
           /\ u = IF s \in Workers THEN [Idle EXCEPT !.pc = "ack", !.work = v.work, !.queued = v.queued]
                  ELSE Idle
           /\ u.pc \in {"idle", "ack"} /\ u.status = "NONE" /\ u.todo = {} /\ u.seen = Nothing
           /\ u.rows = Nothing /\ ~u.locks /\ (u.pc = "ack" => u.work = v.work)
<1>1. CASE s \in Workers
  <2>1. PICK u : u = [Idle EXCEPT !.pc = "ack", !.work = v.work, !.queued = v.queued]
    OBVIOUS
  <2>2. /\ u \in Session /\ u.pc = "ack" /\ u.status = "NONE" /\ u.todo = {} /\ u.seen = Nothing
        /\ u.rows = Nothing /\ u.work = v.work
    BY <2>1, IdleTyped DEF Session
  <2>3. ~u.locks
    BY <2>1, IdleTyped DEF Session
  <2>4. QED
    BY <1>1, <2>1, <2>2, <2>3
<1>2. CASE s \notin Workers
  BY <1>2, IdleTyped
<1>3. QED
  BY <1>1, <1>2

LEMMA CommitKeeps ==
  ASSUME IInv, NEW s \in Workers \cup Requests, Commit(s)
  PROVE  IInv'
<1>1. s \in Sessions /\ s \notin Operators
  BY SessionsDisjoint
<1>2. PICK v \in Session :
        /\ v = session[s] /\ Working(v) /\ Backed(v) /\ Records(v)
        /\ v.locks => \A o \in Sessions \ {s} : session[o].locks => TypeIn(o) # TypeOf[EventAt(v)]
        /\ EventIn(s) = EventAt(v) /\ TypeIn(s) = TypeOf[EventAt(v)]
  BY <1>1, InHandSound
<1>3. PICK e : e = EventAt(v)
  OBVIOUS
<1>4. v.pc = "commit" /\ v.work \in Messages /\ e \in Events \cup {NoEvent}
  BY <1>2, <1>3, IngestAssumption DEF Commit, Working, EventAt
<1>5. PICK u \in Session :
        /\ u = IF s \in Workers THEN [Idle EXCEPT !.pc = "ack", !.work = v.work, !.queued = v.queued]
               ELSE Idle
        /\ u.pc \in {"idle", "ack"} /\ u.status = "NONE" /\ u.todo = {} /\ u.seen = Nothing
        /\ u.rows = Nothing /\ ~u.locks /\ (u.pc = "ack" => u.work = v.work)
  BY <1>4, AfterCommit
<1>6. session' = [session EXCEPT ![s] = u]
  BY <1>2, <1>5, Zenon DEF Commit
<1>7. /\ UNCHANGED <<strict, subscribed, message, published, returned, dropped, answers, brokerUp, budget>>
      /\ strays' = IF e = NoEvent
                   THEN strays \cup {Stray(NoEvent, NoModule, "MALFORMED_MESSAGE")} ELSE strays
  BY <1>2, <1>3 DEF Commit, queues
<1>8. /\ strays \subseteq strays' /\ strays' \subseteq StrayLetters
      /\ e = NoEvent => \E x \in strays' : x.about = e
  <2>1. PICK x : x = Stray(NoEvent, NoModule, "MALFORMED_MESSAGE")
    OBVIOUS
  <2>2. x \in StrayLetters /\ x.about = NoEvent
    BY <2>1 DEF StrayLetters, Stray, Reasons
  <2>3. strays' = IF e = NoEvent THEN strays \cup {x} ELSE strays
    BY <1>7, <2>1
  <2>4. QED
    BY <2>2, <2>3 DEF IInv, TypeOK
<1>9. session' \in [Sessions -> Session]
  BY <1>1, <1>6 DEF IInv, TypeOK
<1>10. CASE v.status = "NONE"
  <2>1. UNCHANGED <<log, delivery, letter, known, received>>
    BY <1>2, <1>10 DEF Commit
  <2>2. TypeOK'
    BY <1>7, <1>8, <1>9, <2>1 DEF IInv, TypeOK, StrayLetters
  <2>3. Grows
    BY <1>7, <1>8, <2>1 DEF Grows, Logged
  <2>4. TrafficSeen' /\ RoutedIsBacked' /\ LogBacked'
    BY <1>7, <2>1 DEF IInv, TrafficSeen, RoutedIsBacked, LogBacked, Logged
  <2>5. EvidenceKept'
    BY <1>7, <1>8, <2>1 DEF IInv, EvidenceKept, Recorded, Logged
  <2>6. Recorded(e)'
    BY <1>2, <1>3, <1>4, <1>8, <1>10, <2>1, IngestAssumption DEF Records, Recorded, Logged
  <2>7. Sound(s, u)'
    BY <1>3, <1>4, <1>5, <2>6, EndSound DEF EventAt
  <2>8. \A o \in Sessions \ Operators :
          o # s /\ session[o].status # "NONE" => log'[EventAt(session[o])].status = "NONE"
    BY <2>1 DEF IInv, SessionsSound, Sound, Records, Logged
  <2>9. QED
    BY <1>1, <1>5, <1>6, <2>2, <2>3, <2>4, <2>5, <2>7, <2>8, CommitStep
<1>11. CASE v.status # "NONE"
  <2>1. /\ e \in Events /\ v.total > 0 /\ ~Logged(e)
        /\ v.todo = {} /\ v.seen = Nothing /\ v.status \in LogStatus
    BY <1>2, <1>3, <1>4, <1>11 DEF Working, Records, Session
  <2>2. v.locks
    BY <1>2, <1>11 DEF Records
  <2>3. /\ log' = [log EXCEPT ![e] = [status |-> v.status, body |-> v.work]]
        /\ delivery' = [delivery EXCEPT ![e] = v.rows]
        /\ letter' = [letter EXCEPT ![e] = IF v.status = "REJECTED" THEN "OPEN" ELSE @]
        /\ known' = known \cup {TypeOf[e]}
        /\ received' = [received EXCEPT ![TypeOf[e]] = v.total]
    BY <1>2, <1>3, <1>11 DEF Commit, WriteEvent
  <2>4. TypeOf[e] \in Types /\ v.rows \in [Modules -> Outcome] /\ v.total \in Nat
    BY <2>1, IngestAssumption DEF Session
  <2>5. TypeOK'
    BY <1>4, <1>7, <1>8, <1>9, <2>1, <2>3, <2>4 DEF IInv, TypeOK, StrayLetters
  <2>6. /\ log'[e].status = v.status /\ log'[e].body = v.work /\ delivery'[e] = v.rows
        /\ \A x \in Events : x # e => /\ log'[x] = log[x] /\ delivery'[x] = delivery[x]
                                      /\ letter'[x] = letter[x]
    BY <2>1, <2>3 DEF IInv, TypeOK
  <2>7. Logged(e)' /\ \A x \in Events : x # e => (Logged(x)' <=> Logged(x))
    BY <1>11, <2>6 DEF Logged
  <2>8. \A m \in Modules : delivery[e][m] = "NONE"
    BY <2>1 DEF IInv, LogBacked
  <2>9. Grows
    BY <1>7, <1>8, <2>6, <2>7, <2>8 DEF Grows
  <2>10. \A x \in Events \cup {NoEvent} : Recorded(x) => Recorded(x)'
    BY <2>9, <1>8 DEF Recorded, Grows
  <2>11. EvidenceKept'
    <3>1. \A m \in Messages : EventOf[m] \in Events \cup {NoEvent}
      BY IngestAssumption
    <3>2. QED
      BY <1>7, <2>10, <3>1 DEF IInv, EvidenceKept
  <2>12. TrafficSeen'
    <3>1. received'[TypeOf[e]] > 0 /\ \A t \in Types : t # TypeOf[e] => received'[t] = received[t]
      BY <2>1, <2>3, <2>4 DEF IInv, TypeOK
    <3>2. QED
      BY <2>1, <2>4, <2>7, <3>1 DEF IInv, TrafficSeen
  <2>13. RoutedIsBacked'
    <3>1. v.status = "ROUTED" => \E m \in Modules : v.rows[m] # "NONE"
      BY <1>2, <1>4, <2>1, IdleTyped DEF Working
    <3>2. \A m \in Modules : v.rows[m] = "DELIVERED" => published[e][m] > 0
      BY <1>2, <1>3 DEF Backed
    <3>3. QED
      BY <1>7, <2>6, <3>1, <3>2 DEF IInv, RoutedIsBacked
  <2>14. LogBacked'
    BY <1>3, <1>4, <2>6, <2>7 DEF IInv, LogBacked, EventAt
  <2>15. Sound(s, u)'
    <3>1. Recorded(e)'
      BY <2>1, <2>7, IngestAssumption DEF Recorded
    <3>2. QED
      BY <1>3, <1>4, <1>5, <3>1, EndSound DEF EventAt
  <2>16. ASSUME NEW o \in Sessions \ Operators, o # s, session[o].status # "NONE"
         PROVE  log'[EventAt(session[o])].status = "NONE"
    <3>1. PICK w \in Session : w = session[o]
      BY DEF IInv, TypeOK
    <3>2. /\ Working(w) /\ Records(w) /\ TypeIn(o) = TypeOf[EventAt(w)]
      BY <3>1 DEF IInv, SessionsSound, Sound, TypeIn, EventIn, EventAt
    <3>3. w.locks /\ ~Logged(EventAt(w)) /\ EventAt(w) \in Events
      BY <2>16, <3>1, <3>2 DEF Working, Records
    <3>4. EventAt(w) # e
      BY <1>2, <1>3, <2>2, <2>16, <3>1, <3>2, <3>3
    <3>5. QED
      BY <2>6, <3>1, <3>3, <3>4 DEF Logged
  <2>17. QED
    BY <1>1, <1>5, <1>6, <2>5, <2>9, <2>11, <2>12, <2>13, <2>14, <2>15, <2>16, CommitStep
<1>12. QED
  BY <1>10, <1>11

LEMMA ReprocessKeeps ==
  ASSUME IInv, NEW o \in Operators, CommitReprocess(o)
  PROVE  IInv'
<1>1. o \in Sessions
  BY SessionsDisjoint
<1>2. PICK v \in Session :
        /\ v = session[o] /\ Working(v) /\ Backed(v) /\ Retries(v) /\ EventIn(o) = EventAt(v)
        /\ budget \in [{"faults", "edits", "nacks", "reprocess"} -> Nat]
  BY <1>1, InHandSound
<1>3. PICK e : e = EventAt(v)
  OBVIOUS
<1>4. /\ v.pc = "commit" /\ v.status # "NONE" /\ v.todo = {} /\ e \in Events /\ Logged(e)
      /\ \A m \in Modules : v.seen[m] # "NONE" => delivery[e][m] # "NONE"
  BY <1>2, <1>3 DEF CommitReprocess, Working, Retries
<1>5. /\ session' = [session EXCEPT ![o] = Idle]
      /\ UNCHANGED <<registry, strays, queues, answers, brokerUp, budget>>
  BY DEF CommitReprocess
<1>6. Idle \in Session /\ ~Idle.locks /\ Sound(o, Idle)
  BY <1>1, IdleTyped, IdleSound
<1>7. CASE UNCHANGED hub
  BY <1>1, <1>2, <1>5, <1>6, <1>7, ReadStep
<1>8. CASE ~(UNCHANGED hub)
  <2>1. PICK st, settled : /\ st = IF v.status = v.was THEN log[e].status ELSE v.status
                           /\ settled = Settled(o)
    OBVIOUS
  <2>2. /\ log' = [log EXCEPT ![e].status = IF v.status = v.was THEN @ ELSE v.status]
        /\ delivery' = [delivery EXCEPT ![e] = Merged(v.rows, @)]
        /\ letter' = [letter EXCEPT ![e] = settled]
    BY <1>2, <1>3, <1>8, <2>1 DEF CommitReprocess
  <2>3. /\ st \in LogStatus \ {"NONE"}
        /\ settled \in {"NONE", "OPEN", "RETRIED", "DISCARDED"}
    BY <1>2, <1>3, <1>4, <2>1 DEF Session, Logged, Settled, IInv, TypeOK
  <2>4. /\ log'[e].status = st /\ log'[e].body = log[e].body
        /\ \A x \in Events : x # e => /\ log'[x] = log[x] /\ delivery'[x] = delivery[x]
                                      /\ letter'[x] = letter[x]
    BY <1>4, <2>1, <2>2 DEF IInv, TypeOK
  <2>5. /\ delivery'[e] \in [Modules -> Outcome]
        /\ \A m \in Modules :
             delivery'[e][m] = IF v.rows[m] # "NONE" THEN v.rows[m] ELSE delivery[e][m]
    <3>1. v.rows \in [Modules -> Outcome] /\ delivery[e] \in [Modules -> Outcome]
      BY <1>4 DEF Session, IInv, TypeOK
    <3>2. delivery'[e] = Merged(v.rows, delivery[e])
      BY <1>4, <2>2 DEF IInv, TypeOK
    <3>3. QED
      BY <3>1, <3>2 DEF Merged
  <2>6. /\ UNCHANGED <<known, strict, received, subscribed, strays, message, published, returned,
                       dropped, answers, brokerUp, budget>>
    BY <1>5 DEF registry, queues
  <2>7. TypeOK'
    <3>1. log' \in [Events -> [status : LogStatus, body : Messages \cup {NoMessage}]]
      <4>1. PICK row : row = [log[e] EXCEPT !.status = IF v.status = v.was THEN @ ELSE v.status]
        OBVIOUS
      <4>2. log' = [log EXCEPT ![e] = row]
        BY <2>2, <4>1
      <4>3. row \in [status : LogStatus, body : Messages \cup {NoMessage}]
        <5>1. PICK r : r = log[e]
          OBVIOUS
        <5>2. r \in [status : LogStatus, body : Messages \cup {NoMessage}]
          BY <1>4, <5>1 DEF IInv, TypeOK
        <5>3. row = [r EXCEPT !.status = st]
          BY <2>1, <4>1, <5>1
        <5>4. QED
          BY <2>3, <5>2, <5>3
      <4>4. QED
        BY <4>2, <4>3 DEF IInv, TypeOK
    <3>2. /\ delivery' \in [Events -> [Modules -> Outcome]]
          /\ letter' \in [Events -> {"NONE", "OPEN", "RETRIED", "DISCARDED"}]
      BY <1>4, <2>2, <2>3, <2>4, <2>5 DEF IInv, TypeOK
    <3>3. session' \in [Sessions -> Session]
      BY <1>1, <1>5, <1>6 DEF IInv, TypeOK
    <3>4. QED
      BY <2>6, <3>1, <3>2, <3>3 DEF IInv, TypeOK
  <2>8. \A x \in Events : Logged(x)' <=> Logged(x)
    BY <1>4, <2>3, <2>4 DEF Logged
  <2>9. Grows
    BY <2>4, <2>5, <2>6, <2>8 DEF Grows
  <2>10. EvidenceKept' /\ TrafficSeen'
    <3>1. \A m \in Messages : EventOf[m] \in Events \cup {NoEvent}
      BY IngestAssumption
    <3>2. \A x \in Events \cup {NoEvent} : Recorded(x) => Recorded(x)'
      BY <2>6, <2>8 DEF Recorded
    <3>3. QED
      BY <2>6, <2>8, <3>1, <3>2 DEF IInv, EvidenceKept, TrafficSeen
  <2>11. RoutedIsBacked'
    <3>1. st = "ROUTED" => \E m \in Modules : delivery'[e][m] # "NONE"
      <4>1. CASE v.status = v.was
        BY <1>4, <2>1, <2>5, <4>1 DEF IInv, RoutedIsBacked
      <4>2. CASE v.status # v.was
        BY <1>2, <1>4, <2>1, <2>5, <4>2 DEF Working
      <4>3. QED
        BY <4>1, <4>2
    <3>2. \A m \in Modules : delivery'[e][m] = "DELIVERED" => published[e][m] > 0
      BY <1>2, <1>3, <1>4, <2>5 DEF Backed, IInv, RoutedIsBacked
    <3>3. QED
      BY <2>4, <2>6, <3>1, <3>2 DEF IInv, RoutedIsBacked
  <2>12. LogBacked'
    BY <1>4, <2>4, <2>8 DEF IInv, LogBacked
  <2>13. Sound(o, Idle)'
    BY <1>1, <1>6, <2>9, SoundStays
  <2>14. ASSUME NEW x \in Sessions \ Operators, x # o, session[x].status # "NONE"
         PROVE  log'[EventAt(session[x])].status = "NONE"
    <3>1. PICK w \in Session : w = session[x]
      BY DEF IInv, TypeOK
    <3>2. Working(w) /\ Records(w)
      BY <3>1 DEF IInv, SessionsSound, Sound
    <3>3. ~Logged(EventAt(w)) /\ EventAt(w) \in Events
      BY <2>14, <3>1, <3>2 DEF Working, Records
    <3>4. QED
      BY <1>4, <2>4, <3>1, <3>3 DEF Logged
  <2>15. QED
    BY <1>1, <1>5, <1>6, <2>7, <2>9, <2>10, <2>11, <2>12, <2>13, <2>14, CommitStep
<1>9. QED
  BY <1>7, <1>8

-----------------------------------------------------------------------------
(* The steps that are not of a session.                                    *)

LEMMA TableStep ==
  ASSUME IInv, TypeOK', UNCHANGED <<received, log, delivery, letter, published, session>>,
         strays \subseteq strays',
         \A m \in Messages : message'[m] = "done" /\ answers'[m] = {}
           => \/ message[m] = "done" /\ answers[m] = {}
              \/ m \in dropped' \/ Recorded(EventOf[m])',
         dropped \subseteq dropped'
  PROVE  IInv'
<1>1. Grows
  BY DEF Grows, Logged
<1>2. EvidenceKept'
  BY DEF IInv, EvidenceKept, Recorded, Logged
<1>3. TrafficSeen' /\ RoutedIsBacked' /\ LogBacked'
  BY DEF IInv, TrafficSeen, RoutedIsBacked, LogBacked, Logged
<1>4. ASSUME NEW s \in Sessions
      PROVE  Sound(s, session[s])'
  <2>1. PICK v \in Session : v = session[s]
    BY DEF IInv, TypeOK
  <2>2. Sound(s, v)
    BY <2>1 DEF IInv, SessionsSound
  <2>3. s \notin Operators /\ v.status # "NONE" => ~Logged(EventAt(v))'
    BY <2>2 DEF Sound, Records, Logged, EventAt
  <2>4. Sound(s, v)'
    BY <1>1, <2>2, <2>3, SoundStays
  <2>5. QED
    BY <2>1, <2>4, SoundNext
<1>5. SessionsSound'
  BY <1>4 DEF SessionsSound
<1>6. LocksExclude'
  BY DEF IInv, LocksExclude, TypeIn, EventIn
<1>7. QED
  BY <1>2, <1>3, <1>5, <1>6 DEF IInv

LEMMA InboxKeeps ==
  ASSUME IInv, NEW m \in Messages, PublishToInbox(m) \/ HandleReturned(m) \/ DropReturned(m)
  PROVE  IInv'
<1>1. CASE PublishToInbox(m)
  <2>1. UNCHANGED <<known, strict, received, subscribed, log, delivery, letter, strays, published,
                    returned, dropped, answers, session, brokerUp, budget>>
    BY <1>1 DEF PublishToInbox, registry, hub
  <2>2. /\ message' \in [Messages -> {"unsent", "inbox", "http", "dlq", "done"}]
        /\ \A x \in Messages : message'[x] = "done" => message[x] = "done"
    BY <1>1 DEF PublishToInbox, IInv, TypeOK
  <2>3. TypeOK'
    BY <2>1, <2>2 DEF IInv, TypeOK
  <2>4. QED
    BY <2>1, <2>2, <2>3, TableStep
<1>2. CASE HandleReturned(m)
  <2>1. UNCHANGED <<known, strict, received, subscribed, log, delivery, letter, published,
                    returned, dropped, answers, session, brokerUp, budget>>
    BY <1>2 DEF HandleReturned, registry, hub
  <2>2. PICK x : x = Stray(EventOf[m], NoModule, Uncorrelated(EventOf[m]))
    OBVIOUS
  <2>3. x \in StrayLetters /\ x.about = EventOf[m]
    BY <2>2, IngestAssumption DEF StrayLetters, Stray, Reasons, Uncorrelated
  <2>4. strays' = strays \cup {x}
    BY <1>2, <2>2 DEF HandleReturned
  <2>5. /\ message' \in [Messages -> {"unsent", "inbox", "http", "dlq", "done"}]
        /\ \A y \in Messages : message'[y] = "done" => message[y] = "done" \/ y = m
    BY <1>2 DEF HandleReturned, IInv, TypeOK
  <2>6. TypeOK'
    <3>1. strays' \subseteq StrayLetters
      BY <2>3, <2>4 DEF IInv, TypeOK
    <3>2. QED
      BY <2>1, <2>5, <3>1 DEF IInv, TypeOK, StrayLetters
  <2>7. Recorded(EventOf[m])'
    BY <2>3, <2>4 DEF Recorded
  <2>8. QED
    BY <2>1, <2>4, <2>5, <2>6, <2>7, TableStep
<1>3. CASE DropReturned(m)
  <2>1. UNCHANGED <<known, strict, received, subscribed, log, delivery, letter, strays, published,
                    returned, answers, session, brokerUp>>
    BY <1>3 DEF DropReturned, registry, hub
  <2>2. budget' \in [{"faults", "edits", "nacks", "reprocess"} -> Nat]
    BY <1>3, SpendTyped DEF DropReturned, Fault, IInv
  <2>3. /\ message' \in [Messages -> {"unsent", "inbox", "http", "dlq", "done"}]
        /\ dropped' = dropped \cup {m}
        /\ \A y \in Messages : message'[y] = "done" => message[y] = "done" \/ y \in dropped'
    BY <1>3 DEF DropReturned, IInv, TypeOK
  <2>4. TypeOK'
    BY <2>1, <2>2, <2>3 DEF IInv, TypeOK
  <2>5. QED
    BY <2>1, <2>3, <2>4, TableStep
<1>4. QED
  BY <1>1, <1>2, <1>3

LEMMA CopiesKeep ==
  ASSUME IInv, NEW e \in Events, NEW m \in Modules, NackCopy(e, m) \/ HandleCopy(e, m)
  PROVE  IInv'
<1>1. CASE NackCopy(e, m)
  <2>1. UNCHANGED <<known, strict, received, subscribed, log, delivery, letter, strays, message,
                    published, dropped, answers, session, brokerUp>>
    BY <1>1 DEF NackCopy, registry, hub
  <2>2. /\ budget' \in [{"faults", "edits", "nacks", "reprocess"} -> Nat]
        /\ returned' = returned \cup {<<e, m>>}
    BY <1>1, SpendTyped DEF NackCopy, IInv
  <2>3. TypeOK'
    BY <2>1, <2>2 DEF IInv, TypeOK
  <2>4. QED
    BY <2>1, <2>3, TableStep
<1>2. CASE HandleCopy(e, m)
  <2>1. UNCHANGED <<known, strict, received, subscribed, log, delivery, letter, message, published,
                    dropped, answers, session, brokerUp, budget>>
    BY <1>2 DEF HandleCopy, registry, hub
  <2>2. PICK x : x = Stray(e, m, Uncorrelated(e))
    OBVIOUS
  <2>3. x \in StrayLetters
    BY <2>2 DEF StrayLetters, Stray, Reasons, Uncorrelated
  <2>4. strays \subseteq strays' /\ strays' \subseteq strays \cup {x} /\ returned' \subseteq returned
    BY <1>2, <2>2 DEF HandleCopy
  <2>5. TypeOK'
    <3>1. strays' \subseteq StrayLetters
      BY <2>3, <2>4 DEF IInv, TypeOK
    <3>2. returned' \subseteq Events \X Modules
      BY <2>4 DEF IInv, TypeOK
    <3>3. QED
      BY <2>1, <3>1, <3>2 DEF IInv, TypeOK, StrayLetters
  <2>6. QED
    BY <2>1, <2>4, <2>5, TableStep
<1>3. QED
  BY <1>1, <1>2

LEMMA RegistryKeeps ==
  ASSUME IInv, NEW t \in Types,
         SetSchema(t) \/ \E m \in Modules : Declare(t, m) \/ Unsubscribe(t, m)
  PROVE  IInv'
<1>1. UNCHANGED <<received, log, delivery, letter, strays, message, published, returned, dropped,
                  answers, session, brokerUp>>
  BY DEF SetSchema, Declare, Unsubscribe, hub, queues
<1>2. budget' \in [{"faults", "edits", "nacks", "reprocess"} -> Nat]
  BY SpendTyped DEF SetSchema, Declare, Unsubscribe, IInv
<1>3. /\ known' \subseteq Types /\ strict' \subseteq known'
      /\ subscribed' \in [Types -> SUBSET Modules]
  BY DEF SetSchema, Declare, Unsubscribe, IInv, TypeOK
<1>4. TypeOK'
  BY <1>1, <1>2, <1>3 DEF IInv, TypeOK
<1>5. QED
  BY <1>1, <1>4, TableStep

LEMMA BrokerKeeps ==
  ASSUME IInv, BrokerDown \/ BrokerUp
  PROVE  IInv'
<1>1. CASE BrokerUp
  <2>1. UNCHANGED <<known, strict, received, subscribed, log, delivery, letter, strays, message,
                    published, returned, dropped, answers, session, budget>>
    BY <1>1 DEF BrokerUp, registry, hub, queues
  <2>2. TypeOK'
    BY <1>1, <2>1 DEF IInv, TypeOK, BrokerUp
  <2>3. QED
    BY <2>1, <2>2, TableStep
<1>2. CASE BrokerDown
  <2>1. /\ UNCHANGED <<known, strict, received, subscribed, log, delivery, letter, strays, message,
                       published, returned, dropped, answers>>
        /\ brokerUp' \in BOOLEAN
        /\ session' = [s \in Sessions |-> [session[s] EXCEPT !.queued = FALSE]]
    BY <1>2 DEF BrokerDown, registry, hub, queues
  <2>2. budget' \in [{"faults", "edits", "nacks", "reprocess"} -> Nat]
    BY <1>2, SpendTyped DEF BrokerDown, Fault, IInv
  <2>3. ASSUME NEW s \in Sessions
        PROVE  /\ session'[s] \in Session /\ Sound(s, session[s])'
               /\ session'[s].work = session[s].work
               /\ session'[s].locks <=> session[s].locks
    <3>1. PICK v \in Session : v = session[s]
      BY DEF IInv, TypeOK
    <3>2. PICK u : u = [v EXCEPT !.queued = FALSE]
      OBVIOUS
    <3>3. session'[s] = u
      BY <2>1, <3>1, <3>2
    <3>4. /\ u \in Session /\ u.pc = v.pc /\ u.work = v.work /\ u.status = v.status
          /\ u.todo = v.todo /\ u.rows = v.rows /\ u.seen = v.seen /\ u.total = v.total
      BY <3>2 DEF Session
    <3>5. u.locks <=> v.locks
      BY <3>2 DEF Session
    <3>6. Sound(s, v)
      BY <3>1 DEF IInv, SessionsSound
    <3>7. Sound(s, u)
      BY <3>4, <3>5, <3>6 DEF Sound, Working, Backed, Records, Retries, Handles, EventAt
    <3>8. Grows /\ (s \notin Operators /\ u.status # "NONE" => ~Logged(EventAt(u))')
      BY <2>1, <3>7 DEF Grows, Logged, Sound, Records, EventAt
    <3>9. Sound(s, u)'
      BY <3>4, <3>7, <3>8, SoundStays
    <3>10. QED
      BY <3>1, <3>3, <3>4, <3>5, <3>9, SoundNext
  <2>4. TypeOK'
    <3>1. session' \in [Sessions -> Session]
      BY <2>1, <2>3
    <3>2. QED
      BY <2>1, <2>2, <3>1 DEF IInv, TypeOK
  <2>5. EvidenceKept' /\ TrafficSeen' /\ RoutedIsBacked' /\ LogBacked'
    BY <2>1 DEF IInv, EvidenceKept, TrafficSeen, RoutedIsBacked, LogBacked, Recorded, Logged
  <2>6. SessionsSound'
    BY <2>3 DEF SessionsSound
  <2>7. LocksExclude'
    BY <2>3 DEF IInv, LocksExclude, TypeIn, EventIn
  <2>8. QED
    BY <2>4, <2>5, <2>6, <2>7 DEF IInv
<1>3. QED
  BY <1>1, <1>2

-----------------------------------------------------------------------------
(* The inductive invariant, and what follows.                              *)

LEMMA InitHolds ==
  ASSUME Init
  PROVE  IInv
<1>1. /\ session = [s \in Sessions |-> Idle] /\ \A s \in Sessions : session[s] = Idle
      /\ session \in [Sessions -> Session]
  BY IdleTyped DEF Init
<1>2. budget \in [{"faults", "edits", "nacks", "reprocess"} -> Nat]
  BY IngestAssumption DEF Init
<1>3. TypeOK
  <2>1. log \in [Events -> [status : LogStatus, body : Messages \cup {NoMessage}]]
    BY DEF Init, LogStatus
  <2>2. delivery \in [Events -> [Modules -> Outcome]]
    BY IdleTyped DEF Init
  <2>3. QED
    BY <1>1, <1>2, <2>1, <2>2 DEF Init, TypeOK
<1>4. EvidenceKept
  BY DEF Init, EvidenceKept
<1>5. \A e \in Events : ~Logged(e)
  BY DEF Init, Logged
<1>6. TrafficSeen
  BY <1>5 DEF Init, TrafficSeen
<1>7. RoutedIsBacked /\ LogBacked
  BY <1>5, IdleTyped DEF Init, RoutedIsBacked, LogBacked
<1>8. SessionsSound
  BY <1>1, IdleSound DEF SessionsSound
<1>9. LocksExclude
  BY <1>1, IdleTyped DEF LocksExclude
<1>10. QED
  BY <1>3, <1>4, <1>6, <1>7, <1>8, <1>9 DEF IInv

LEMMA NextKeeps ==
  ASSUME IInv, Next
  PROVE  IInv'
<1>1. ASSUME NEW m \in Messages, PublishToInbox(m)
      PROVE  IInv'
  BY <1>1, InboxKeeps
<1>2. ASSUME NEW w \in Workers, Worker(w)
      PROVE  IInv'
  <2>1. w \in Sessions /\ w \in Workers \cup Requests
    BY SessionsDisjoint
  <2>2. CASE Pipeline(w)
    BY <2>1, <2>2, TypesKeep, InsertKeeps, RouteKeeps, PublishKeeps, CommitKeeps DEF Pipeline
  <2>3. QED
    BY <1>2, <2>2, BeginsKeep, AckKeeps DEF Worker
<1>3. ASSUME NEW r \in Requests, Request(r)
      PROVE  IInv'
  <2>1. r \in Sessions /\ r \in Workers \cup Requests
    BY SessionsDisjoint
  <2>2. CASE Pipeline(r)
    BY <2>1, <2>2, TypesKeep, InsertKeeps, RouteKeeps, PublishKeeps, CommitKeeps DEF Pipeline
  <2>3. QED
    BY <1>3, <2>2, BeginsKeep, AnswerKeeps DEF Request
<1>4. ASSUME NEW o \in Operators, Operator(o)
      PROVE  IInv'
  <2>1. o \in Sessions
    BY SessionsDisjoint
  <2>2. QED
    BY <1>4, <2>1, OpenKeeps, RevalidateKeeps, RouteKeeps, PublishKeeps, ReprocessKeeps, DiscardKeeps
       DEF Operator
<1>5. ASSUME NEW s \in Sessions, Raise(s) \/ Crash(s)
      PROVE  IInv'
  BY <1>5, FaultsKeep
<1>6. CASE DlqHandler
  BY <1>6, InboxKeeps, CopiesKeep DEF DlqHandler
<1>7. CASE Registry
  BY <1>7, RegistryKeeps DEF Registry
<1>8. CASE BrokerDown \/ BrokerUp
  BY <1>8, BrokerKeeps
<1>9. QED
  BY <1>1, <1>2, <1>3, <1>4, <1>5, <1>6, <1>7, <1>8 DEF Next

LEMMA StutterKeeps ==
  ASSUME IInv, UNCHANGED vars
  PROVE  IInv'
<1>1. UNCHANGED <<known, strict, received, subscribed, log, delivery, letter, strays, message,
                  published, returned, dropped, answers, session, brokerUp, budget>>
  BY DEF vars, registry, hub, queues
<1>2. TypeOK'
  BY <1>1 DEF IInv, TypeOK
<1>3. QED
  BY <1>1, <1>2, TableStep

LEMMA Invariant == Spec => []IInv
<1>1. Init => IInv
  BY InitHolds
<1>2. IInv /\ [Next]_vars => IInv'
  BY NextKeeps, StutterKeeps
<1>3. QED
  BY <1>1, <1>2, PTL DEF Spec

\* Every variable keeps its type, whatever the sessions, faults and edits.
THEOREM TypeCorrect == Spec => []TypeOK
<1>1. IInv => TypeOK
  BY DEF IInv
<1>2. QED
  BY <1>1, Invariant, PTL

\* For any number of producers, handlers and faults: a message that RabbitMQ
\* no longer holds and nobody answered for is in the log or has a dead letter,
\* unless a failing handler of q.dlq dropped it.
THEOREM EvidenceStays == Spec => []EvidenceKept
<1>1. IInv => EvidenceKept
  BY DEF IInv
<1>2. QED
  BY <1>1, Invariant, PTL

\* For any number of transactions that overwrite each other's total_received:
\* it is zero exactly for the types without an event in the log.
THEOREM TrafficStays == Spec => []TrafficSeen
<1>1. IInv => TrafficSeen
  BY DEF IInv
<1>2. QED
  BY <1>1, Invariant, PTL

\* For any overlap of handlers, retries and lost confirms: a ROUTED event has
\* deliveries, and a DELIVERED one has a copy in the module's queue.
THEOREM RoutedStays == Spec => []RoutedIsBacked
<1>1. IInv => RoutedIsBacked
  BY DEF IInv
<1>2. QED
  BY <1>1, Invariant, PTL

===============================================================================
