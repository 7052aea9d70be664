------------------------------ MODULE HubProofs ------------------------------
(***************************************************************************)
(* The proof that the pipeline of Ingest keeps the promise of EventHub     *)
(* while operators take turns on each event, whatever else overlaps and    *)
(* fails, and that it publishes no copy twice while nothing fails but the  *)
(* broker.                                                                 *)
(***************************************************************************)
EXTENDS IngestProofs

\* No two operators work on the dead letter of one event.  A single operator
\* takes turns with nobody.
TakeTurns ==
  \A o, p \in Operators :
    o # p /\ session[o].pc # "idle" /\ session[p].pc # "idle" => EventIn(o) # EventIn(p)

-----------------------------------------------------------------------------
(* Steps that leave the log, the deliveries and the dead letters alone.    *)

\* What is known of the unit a session has in hand.
LEMMA InHandDecided ==
  ASSUME HubInv, NEW s \in Sessions
  PROVE  \E v \in Session : /\ v = session[s] /\ Decided(s, v) /\ Working(v)
                            /\ s \in Operators => Retries(v)
                            /\ s \notin Operators => Records(v)
                            /\ EventIn(s) = EventAt(v)
<1>1. PICK v \in Session : v = session[s]
  BY DEF HubInv, IInv, TypeOK
<1>2. Sound(s, v) /\ Decided(s, v)
  BY <1>1 DEF HubInv, IInv, SessionsSound, SessionsDecided
<1>3. QED
  BY <1>1, <1>2 DEF Sound, EventIn, EventAt

LEMMA HubStep ==
  ASSUME HubInv, IInv', NEW s \in Sessions, NEW u \in Session,
         session' = [session EXCEPT ![s] = u], UNCHANGED hub, Decided(s, u)
  PROVE  HubInv'
<1>1. session'[s] = u /\ \A o \in Sessions : o # s => session'[o] = session[o]
  BY DEF HubInv, IInv, TypeOK
<1>2. RejectedIsActionable' /\ RoutedAlone'
  BY DEF HubInv, RejectedIsActionable, RoutedAlone, hub
<1>3. ASSUME NEW o \in Sessions
      PROVE  Decided(o, session[o])'
  <2>1. CASE o = s
    BY <1>1, <2>1 DEF Decided, EventAt, hub
  <2>2. CASE o # s
    BY <1>1, <2>2 DEF HubInv, SessionsDecided, Decided, EventAt, hub
  <2>3. QED
    BY <2>1, <2>2
<1>4. QED
  BY <1>2, <1>3 DEF HubInv, SessionsDecided

LEMMA IdleDecided ==
  ASSUME NEW s \in Sessions
  PROVE  Decided(s, Idle)
BY IdleTyped DEF Decided

\* A session that drops its unit of work.
LEMMA ReleaseHub ==
  ASSUME HubInv, IInv', NEW s \in Sessions, session' = [session EXCEPT ![s] = Idle], UNCHANGED hub
  PROVE  HubInv'
BY HubStep, IdleDecided, IdleTyped

LEMMA BeginHub ==
  ASSUME HubInv, IInv', NEW s \in Workers \cup Requests, NEW m \in Messages,
         NEW queued \in BOOLEAN, Begin(s, m, queued), UNCHANGED hub
  PROVE  HubInv'
<1>1. PICK pc : pc = IF ~Readable(m) \/ Logged(EventOf[m]) THEN Finish(s) ELSE "type"
  OBVIOUS
<1>2. PICK u : u = [Idle EXCEPT !.pc = pc, !.work = m, !.queued = queued]
  OBVIOUS
<1>3. session' = [session EXCEPT ![s] = u]
  BY <1>1, <1>2, Zenon DEF Begin
<1>4. pc \in {"answer", "commit", "type"}
  BY <1>1 DEF Finish
<1>5. /\ u \in Session /\ u.pc = pc /\ u.status = "NONE" /\ u.seen = Nothing /\ u.rows = Nothing
  BY <1>2, <1>4, IdleTyped DEF Session
<1>6. s \in Sessions /\ s \notin Operators
  BY SessionsDisjoint
<1>7. Decided(s, u)
  BY <1>4, <1>5, <1>6 DEF Decided
<1>8. QED
  BY <1>3, <1>5, <1>6, <1>7, HubStep

LEMMA TypesHub ==
  ASSUME HubInv, IInv', NEW s \in Workers \cup Requests, FindType(s) \/ MissType(s) \/ CreateType(s)
  PROVE  HubInv'
<1>1. s \in Sessions /\ s \notin Operators /\ UNCHANGED hub
  BY SessionsDisjoint DEF FindType, MissType, CreateType
<1>2. PICK v \in Session : v = session[s] /\ Decided(s, v)
  BY <1>1, InHandDecided
<1>3. CASE Abort(s)
  BY <1>1, <1>3, ReleaseHub DEF Abort
<1>4. CASE FindType(s)
  <2>1. PICK total, fits : total = CountedTotal(TypeIn(s)) /\ fits = validate_data(TypeIn(s), v.work)
    OBVIOUS
  <2>2. PICK u : u = [v EXCEPT !.pc = "insert", !.total = total, !.fits = fits]
    OBVIOUS
  <2>3. session' = [session EXCEPT ![s] = u]
    BY <1>2, <1>4, <2>1, <2>2 DEF FindType
  <2>4. session'[s] = u /\ u \in Session
    BY <1>1, <2>3 DEF HubInv, IInv, TypeOK
  <2>5. u.pc = "insert" /\ u.seen = v.seen
    BY <2>2 DEF Session
  <2>6. Decided(s, u)
    BY <1>1, <1>2, <2>5 DEF Decided
  <2>7. QED
    BY <1>1, <2>3, <2>4, <2>6, HubStep
<1>5. CASE MissType(s)
  <2>1. PICK u : u = [v EXCEPT !.pc = "create"]
    OBVIOUS
  <2>2. session' = [session EXCEPT ![s] = u] /\ u \in Session /\ u.pc = "create" /\ u.seen = v.seen
    BY <1>2, <1>5, <2>1 DEF MissType, Session
  <2>3. Decided(s, u)
    BY <1>1, <1>2, <2>2 DEF Decided
  <2>4. QED
    BY <1>1, <2>2, <2>3, HubStep
<1>6. CASE session' = [session EXCEPT ![s].pc = "insert", ![s].locks = TRUE, ![s].total = 1]
  <2>1. PICK u : u = [v EXCEPT !.pc = "insert", !.locks = TRUE, !.total = 1]
    OBVIOUS
  <2>2. session' = [session EXCEPT ![s] = u]
    BY <1>2, <1>6, <2>1
  <2>3. u \in Session /\ u.pc = "insert" /\ u.seen = v.seen
    BY <2>1 DEF Session
  <2>4. Decided(s, u)
    BY <1>1, <1>2, <2>3 DEF Decided
  <2>5. QED
    BY <1>1, <2>2, <2>3, <2>4, HubStep
<1>7. QED
  BY <1>3, <1>4, <1>5, <1>6 DEF CreateType

LEMMA InsertHub ==
  ASSUME HubInv, IInv', NEW s \in Workers \cup Requests, Insert(s)
  PROVE  HubInv'
<1>1. s \in Sessions /\ s \notin Operators /\ UNCHANGED hub
  BY SessionsDisjoint DEF Insert
<1>2. PICK v \in Session : v = session[s] /\ Decided(s, v) /\ Working(v)
  BY <1>1, InHandDecided
<1>3. CASE Abort(s)
  BY <1>1, <1>3, ReleaseHub DEF Abort
<1>4. CASE session' = [session EXCEPT
                ![s].locks = TRUE,
                ![s].pc = IF session[s].fits THEN "route" ELSE Finish(s),
                ![s].status = IF session[s].fits THEN "ROUTED" ELSE "REJECTED"]
  <2>1. PICK pc, status : /\ pc = IF session[s].fits THEN "route" ELSE Finish(s)
                          /\ status = IF session[s].fits THEN "ROUTED" ELSE "REJECTED"
    OBVIOUS
  <2>2. /\ pc \in {"route", "answer", "commit"} /\ status \in {"ROUTED", "REJECTED"}
        /\ pc # "route" => status = "REJECTED"
    BY <2>1 DEF Finish
  <2>3. PICK u : u = [v EXCEPT !.locks = TRUE, !.pc = pc, !.status = status]
    OBVIOUS
  <2>4. session' = [session EXCEPT ![s] = u]
    BY <1>2, <1>4, <2>1, <2>3
  <2>5. u \in Session /\ u.pc = pc /\ u.status = status /\ u.seen = v.seen /\ u.rows = v.rows
    BY <2>2, <2>3 DEF Session, LogStatus
  <2>6. v.rows = Nothing
    BY <1>2 DEF Insert, Working
  <2>7. Decided(s, u)
    BY <1>1, <1>2, <2>2, <2>5, <2>6 DEF Decided
  <2>8. QED
    BY <1>1, <2>4, <2>5, <2>7, HubStep
<1>5. QED
  BY <1>3, <1>4 DEF Insert

\* What a session routes has no delivery yet.
LEMMA NothingYet ==
  ASSUME HubInv, NEW s \in Sessions, session[s].pc \in {"route", "publish", "check", "commit", "discard"},
         s \in Operators \/ session[s].status # "NONE"
  PROVE  /\ EventIn(s) \in Events /\ delivery[EventIn(s)] = Nothing
         /\ log[EventIn(s)].status = IF s \in Operators THEN "REJECTED" ELSE "NONE"
<1>1. PICK v \in Session : /\ v = session[s] /\ Decided(s, v) /\ Working(v)
                           /\ s \in Operators => Retries(v)
                           /\ s \notin Operators => Records(v)
                           /\ EventIn(s) = EventAt(v)
  BY InHandDecided
<1>2. EventAt(v) \in Events
  BY <1>1 DEF Working, Retries
<1>3. CASE s \in Operators
  <2>1. letter[EventAt(v)] = "OPEN"
    BY <1>1, <1>3 DEF Decided
  <2>2. log[EventAt(v)].status = "REJECTED"
    BY <1>2, <2>1 DEF HubInv, RejectedIsActionable
  <2>3. QED
    BY <1>1, <1>2, <1>3, <2>2 DEF HubInv, RoutedAlone
<1>4. CASE s \notin Operators
  <2>1. log[EventAt(v)].status = "NONE"
    BY <1>1, <1>4 DEF Records, Logged
  <2>2. QED
    BY <1>1, <1>2, <1>4, <2>1 DEF HubInv, RoutedAlone
<1>5. QED
  BY <1>3, <1>4

LEMMA RouteHub ==
  ASSUME HubInv, IInv', NEW s \in Sessions, Route(s)
  PROVE  HubInv'
<1>1. PICK v \in Session : /\ v = session[s] /\ Decided(s, v) /\ Working(v)
                           /\ EventIn(s) = EventAt(v)
  BY InHandDecided
<1>2. PICK e : e = EventAt(v)
  OBVIOUS
<1>3. v.pc = "route" /\ v.status # "NONE" /\ v.rows = Nothing /\ v.seen = Nothing
  BY <1>1 DEF Route, Working, Decided
<1>4. delivery[e] = Nothing
  BY <1>1, <1>2, <1>3, NothingYet
<1>5. PICK subscribers, seen :
        subscribers = subscribed[TypeOf[e]] /\ seen = Merged(v.seen, delivery[e])
  OBVIOUS
<1>6. PICK todo : todo = {m \in subscribers : ~Confirmed(seen, m)}
  OBVIOUS
<1>7. PICK status, pc : /\ status = RouteStatus(subscribers)
                        /\ pc = IF todo = {} THEN Finish(s) ELSE "publish"
  OBVIOUS
<1>8. PICK u : u = [v EXCEPT !.status = status, !.seen = seen, !.todo = todo, !.pc = pc]
  OBVIOUS
<1>9. session' = [session EXCEPT ![s] = u] /\ UNCHANGED hub
  BY <1>1, <1>2, <1>5, <1>6, <1>7, <1>8 DEF Route
<1>10. u \in Session
  <2>1. session'[s] = u
    BY <1>9 DEF HubInv, IInv, TypeOK
  <2>2. QED
    BY <2>1 DEF IInv, TypeOK
<1>11. seen = Nothing /\ \A m \in Modules : seen[m] = "NONE"
  BY <1>3, <1>4, <1>5, IdleTyped DEF Merged, Nothing
<1>12. subscribers \subseteq Modules
  <2>1. e \in Events
    BY <1>1, <1>2, <1>3 DEF Working
  <2>2. QED
    BY <1>5, <2>1, IngestAssumption DEF HubInv, IInv, TypeOK
<1>13. todo = subscribers
  BY <1>6, <1>11, <1>12 DEF Confirmed
<1>14. /\ pc # "publish" => pc \in {"answer", "commit"} /\ status = "NO_SUBSCRIBERS"
       /\ pc = "publish" => status = "ROUTED"
       /\ s \in Operators => pc \in {"publish", "commit"}
  BY <1>7, <1>13, FinishAt DEF RouteStatus
<1>15. /\ u.pc = pc /\ u.status = status /\ u.seen = seen /\ u.rows = v.rows /\ u.was = v.was
       /\ u.work = v.work
  BY <1>8 DEF Session
<1>16. u.fits <=> v.fits
  BY <1>8 DEF Session
<1>17. Decided(s, u)
  BY <1>1, <1>3, <1>11, <1>14, <1>15, <1>16 DEF Decided, EventAt
<1>18. QED
  BY <1>9, <1>10, <1>17, HubStep

LEMMA PublishHub ==
  ASSUME HubInv, IInv', NEW s \in Sessions, NEW m \in Modules, PublishTo(s, m)
  PROVE  HubInv'
<1>1. PICK v \in Session : v = session[s] /\ Decided(s, v)
  BY InHandDecided
<1>2. PICK todo, outcome :
        /\ todo = v.todo \ {m} /\ outcome \in Outcome \ {"NONE"}
        /\ session' = [session EXCEPT ![s].rows[m] = outcome,
                                      ![s].todo = todo,
                                      ![s].pc = IF todo = {} THEN Finish(s) ELSE "publish"]
  BY <1>1 DEF PublishTo
<1>3. PICK pc, rows : /\ pc = IF todo = {} THEN Finish(s) ELSE "publish"
                      /\ rows = [v.rows EXCEPT ![m] = outcome]
  OBVIOUS
<1>4. PICK u : u = [v EXCEPT !.rows = rows, !.todo = todo, !.pc = pc]
  OBVIOUS
<1>5. session' = [session EXCEPT ![s] = u] /\ UNCHANGED hub
  <2>1. session' = [session EXCEPT ![s] = u]
    BY <1>1, <1>2, <1>3, <1>4 DEF HubInv, IInv, TypeOK, Session
  <2>2. UNCHANGED hub
    BY DEF PublishTo
  <2>3. QED
    BY <2>1, <2>2
<1>6. u \in Session
  <2>1. session'[s] = u
    BY <1>5 DEF HubInv, IInv, TypeOK
  <2>2. QED
    BY <2>1 DEF IInv, TypeOK
<1>7. /\ v.pc = "publish" /\ v.status = "ROUTED" /\ pc \in {"publish", "answer", "commit"}
      /\ s \in Operators => pc \in {"publish", "commit"}
  BY <1>1, <1>3, FinishAt DEF PublishTo, Decided
<1>8. rows # Nothing
  BY <1>2, <1>3, IdleTyped DEF Session
<1>9. /\ u.pc = pc /\ u.status = v.status /\ u.seen = v.seen /\ u.rows = rows /\ u.was = v.was
      /\ u.work = v.work
  BY <1>4 DEF Session
<1>10. u.fits <=> v.fits
  BY <1>4 DEF Session
<1>11. Decided(s, u)
  BY <1>1, <1>7, <1>8, <1>9, <1>10 DEF Decided, EventAt
<1>12. QED
  BY <1>5, <1>6, <1>11, HubStep

LEMMA AnswerHub ==
  ASSUME HubInv, IInv', NEW r \in Requests, Answer(r)
  PROVE  HubInv'
<1>1. r \in Sessions /\ r \notin Operators
  BY SessionsDisjoint
<1>2. PICK v \in Session : v = session[r] /\ Decided(r, v)
  BY <1>1, InHandDecided
<1>3. PICK u : u = [v EXCEPT !.pc = "commit"]
  OBVIOUS
<1>4. v.pc = "answer" /\ session' = [session EXCEPT ![r] = u] /\ UNCHANGED hub
  BY <1>2, <1>3 DEF Answer
<1>5. u \in Session /\ u.pc = "commit" /\ u.status = v.status /\ u.seen = v.seen /\ u.rows = v.rows
  BY <1>3 DEF Session
<1>6. Decided(r, u)
  BY <1>1, <1>2, <1>4, <1>5 DEF Decided
<1>7. QED
  BY <1>1, <1>4, <1>5, <1>6, HubStep

LEMMA OpenHub ==
  ASSUME HubInv, IInv', NEW o \in Operators, NEW e \in Events, OpenLetter(o, e)
  PROVE  HubInv'
<1>1. o \in Sessions /\ UNCHANGED hub
  BY SessionsDisjoint DEF OpenLetter
<1>2. letter[e] = "OPEN" /\ EventOf[log[e].body] = e /\ log[e].body \in Messages
  BY DEF OpenLetter, HubInv, IInv, LogBacked
<1>3. PICK pc \in {"check", "discard"} :
        session' = [session EXCEPT ![o] = [Idle EXCEPT !.pc = pc, !.work = log[e].body]]
  BY DEF OpenLetter
<1>4. PICK body : body = log[e].body
  OBVIOUS
<1>5. PICK u : u = [Idle EXCEPT !.pc = pc, !.work = body]
  OBVIOUS
<1>6. u \in Session /\ u.pc = pc /\ u.work = body /\ u.seen = Nothing
  BY <1>2, <1>4, <1>5, IdleTyped DEF Session
<1>7. Decided(o, u)
  BY <1>2, <1>3, <1>4, <1>6 DEF Decided, EventAt
<1>8. QED
  BY <1>1, <1>3, <1>4, <1>5, <1>6, <1>7, HubStep

LEMMA RevalidateHub ==
  ASSUME HubInv, IInv', NEW o \in Operators, Revalidate(o)
  PROVE  HubInv'
<1>1. o \in Sessions /\ UNCHANGED hub
  BY SessionsDisjoint DEF Revalidate
<1>2. PICK v \in Session : /\ v = session[o] /\ Decided(o, v) /\ Working(v)
                           /\ EventIn(o) = EventAt(v)
  BY <1>1, InHandDecided
<1>3. PICK e, fits : e = EventAt(v) /\ fits = validate_data(TypeOf[e], v.work)
  OBVIOUS
<1>4. PICK status, pc : /\ status = IF fits THEN "ROUTED" ELSE "REJECTED"
                        /\ pc = IF fits THEN "route" ELSE "commit"
  OBVIOUS
<1>5. v.pc = "check" /\ v.rows = Nothing /\ letter[e] = "OPEN"
  BY <1>2, <1>3 DEF Revalidate, Working, Decided
<1>6. delivery[e] = Nothing /\ log[e].status = "REJECTED"
  BY <1>1, <1>2, <1>3, <1>5, NothingYet
<1>7. PICK u : u = [v EXCEPT !.was = "REJECTED", !.seen = Nothing, !.fits = fits,
                             !.status = status, !.pc = pc]
  OBVIOUS
<1>8. session' = [session EXCEPT ![o] = u]
  BY <1>2, <1>3, <1>4, <1>6, <1>7 DEF Revalidate
<1>9. u \in Session
  <2>1. session'[o] = u
    BY <1>1, <1>8 DEF HubInv, IInv, TypeOK
  <2>2. QED
    BY <1>1, <2>1 DEF IInv, TypeOK
<1>10. /\ u.pc = pc /\ u.status = status /\ u.seen = Nothing /\ u.rows = v.rows
       /\ u.was = "REJECTED" /\ u.work = v.work
  BY <1>7 DEF Session
<1>11. u.fits <=> fits
  BY <1>7 DEF Session
<1>12. Decided(o, u)
  BY <1>3, <1>4, <1>5, <1>10, <1>11 DEF Decided, EventAt
<1>13. QED
  BY <1>1, <1>8, <1>9, <1>12, HubStep

LEMMA AckHub ==
  ASSUME HubInv, IInv', NEW w \in Workers, Ack(w)
  PROVE  HubInv'
BY ReleaseHub, SessionsDisjoint DEF Ack

LEMMA FaultsHub ==
  ASSUME HubInv, IInv', NEW s \in Sessions, Raise(s) \/ Crash(s)
  PROVE  HubInv'
BY ReleaseHub DEF Raise, Crash, Abort

\* Who starts, and the broker goes down: what is known of a unit stays.
LEMMA StartsHub ==
  ASSUME HubInv, IInv', NEW m \in Messages,
         (\E w \in Workers : Receive(w, m)) \/ (\E r \in Requests : Submit(r, m))
  PROVE  HubInv' /\ UNCHANGED hub
<1>1. ASSUME NEW w \in Workers, Receive(w, m)
      PROVE  HubInv' /\ UNCHANGED hub
  <2>1. Begin(w, m, TRUE) /\ UNCHANGED hub
    BY <1>1 DEF Receive
  <2>2. QED
    BY <2>1, BeginHub
<1>2. ASSUME NEW r \in Requests, Submit(r, m)
      PROVE  HubInv' /\ UNCHANGED hub
  <2>1. Begin(r, m, FALSE) /\ UNCHANGED hub
    BY <1>2 DEF Submit
  <2>2. QED
    BY <2>1, BeginHub
<1>3. QED
  BY <1>1, <1>2

LEMMA DownHub ==
  ASSUME HubInv, IInv', BrokerDown
  PROVE  HubInv'
<1>1. /\ UNCHANGED hub
      /\ session' = [s \in Sessions |-> [session[s] EXCEPT !.queued = FALSE]]
  BY DEF BrokerDown
<1>2. RejectedIsActionable' /\ RoutedAlone'
  BY <1>1 DEF HubInv, RejectedIsActionable, RoutedAlone, hub
<1>3. ASSUME NEW s \in Sessions
      PROVE  Decided(s, session[s])'
  <2>1. PICK v \in Session : v = session[s] /\ Decided(s, v)
    BY InHandDecided
  <2>2. PICK u : u = [v EXCEPT !.queued = FALSE]
    OBVIOUS
  <2>3. session'[s] = u
    BY <1>1, <2>1, <2>2
  <2>4. /\ u.pc = v.pc /\ u.work = v.work /\ u.status = v.status /\ u.was = v.was
        /\ u.rows = v.rows /\ u.seen = v.seen
    BY <2>2 DEF Session
  <2>5. u.fits <=> v.fits
    BY <2>2 DEF Session
  <2>6. letter' = letter
    BY <1>1 DEF hub
  <2>7. Decided(s, u)'
    BY <2>1, <2>4, <2>5, <2>6 DEF Decided, EventAt
  <2>8. QED
    BY <2>3, <2>7 DEF Decided, EventAt
<1>4. QED
  BY <1>2, <1>3 DEF HubInv, SessionsDecided

LEMMA SteadyHub ==
  ASSUME HubInv, IInv', UNCHANGED <<hub, session>>
  PROVE  HubInv'
<1>1. RejectedIsActionable' /\ RoutedAlone'
  BY DEF HubInv, RejectedIsActionable, RoutedAlone, hub
<1>2. SessionsDecided'
  BY DEF HubInv, SessionsDecided, Decided, EventAt, hub
<1>3. QED
  BY <1>1, <1>2 DEF HubInv

-----------------------------------------------------------------------------
(* The commits.                                                            *)

\* A transaction decides an event that has no outcome, or was rejected.
Decides(e, st, rows) ==
  /\ log[e].status \in {"NONE", "REJECTED"}
  /\ st = "ROUTED" <=> rows # Nothing
  /\ log'[e].status = st /\ \A x \in Events : x # e => log'[x].status = log[x].status
  /\ delivery' = [delivery EXCEPT ![e] = rows]

LEMMA DecideStep ==
  ASSUME TypeOK, NEW e \in Events, NEW st \in LogStatus \ {"NONE"},
         NEW rows \in [Modules -> Outcome], Decides(e, st, rows)
  PROVE  Promise!Decide(e)
<1>1. PICK to \in SUBSET Modules : to = {m \in Modules : rows[m] # "NONE"}
  OBVIOUS
<1>2. to = {} <=> rows = Nothing
  BY <1>1 DEF Nothing
<1>3. HubOutcome[e] \in {"NEW", "REJECTED"}
  BY DEF HubOutcome, Logged, Decides
<1>4. HubOutcome' = [HubOutcome EXCEPT ![e] = st]
  <2>1. \A x \in Events : (IF Logged(x)' THEN log'[x].status ELSE "NEW")
                            = IF x = e THEN st ELSE HubOutcome[x]
    BY DEF HubOutcome, Logged, Decides, LogStatus
  <2>2. QED
    BY <2>1 DEF HubOutcome
<1>5. HubReceivers' = [HubReceivers EXCEPT ![e] = to]
  <2>1. \A x \in Events : {m \in Modules : delivery'[x][m] # "NONE"}
                            = IF x = e THEN to ELSE HubReceivers[x]
    BY <1>1 DEF HubReceivers, Decides, TypeOK
  <2>2. QED
    BY <2>1 DEF HubReceivers
<1>6. st \in Promise!Outcomes \ {"NEW"}
  BY DEF LogStatus, Promise!Outcomes
<1>7. st = "ROUTED" <=> to # {}
  BY <1>2 DEF Decides
<1>8. QED
  BY <1>3, <1>4, <1>5, <1>6, <1>7 DEF Promise!Decide

LEMMA CommitHub ==
  ASSUME HubInv, IInv', NEW s \in Sessions, NEW u \in Session, session' = [session EXCEPT ![s] = u],
         Decided(s, u)',
         NEW e \in Events, NEW st \in LogStatus \ {"NONE"}, NEW rows \in [Modules -> Outcome],
         Decides(e, st, rows),
         letter'[e] \in {"OPEN", "DISCARDED"} <=> st = "REJECTED",
         \A x \in Events : x # e => letter'[x] = letter[x],
         \A o \in Operators : o # s => session[o].pc = "idle" \/ EventIn(o) # e
  PROVE  HubInv'
<1>1. session'[s] = u /\ \A o \in Sessions : o # s => session'[o] = session[o]
  BY DEF HubInv, IInv, TypeOK
<1>2. RejectedIsActionable'
  BY DEF HubInv, RejectedIsActionable, Decides
<1>3. RoutedAlone'
  <2>1. /\ delivery'[e] = rows
        /\ \A x \in Events : x # e => delivery'[x] = delivery[x]
    BY DEF HubInv, IInv, TypeOK, Decides
  <2>2. QED
    BY <2>1 DEF HubInv, RoutedAlone, Decides
<1>4. ASSUME NEW o \in Sessions
      PROVE  Decided(o, session[o])'
  <2>1. CASE o = s
    BY <1>1, <2>1 DEF Decided, EventAt
  <2>2. CASE o # s
    <3>1. PICK v \in Session : /\ v = session[o] /\ Decided(o, v) /\ Working(v)
                               /\ o \in Operators => Retries(v)
                               /\ EventIn(o) = EventAt(v)
      BY InHandDecided
    <3>2. o \in Operators /\ v.pc # "idle" => EventAt(v) \in Events /\ EventAt(v) # e
      BY <2>2, <3>1 DEF Retries
    <3>3. Decided(o, v)'
      BY <3>1, <3>2 DEF Decided, EventAt
    <3>4. QED
      BY <1>1, <2>2, <3>1, <3>3 DEF Decided, EventAt
  <2>3. QED
    BY <2>1, <2>2
<1>5. QED
  BY <1>2, <1>3, <1>4 DEF HubInv, SessionsDecided

\* The commit of a handler or a request.
LEMMA RecordHub ==
  ASSUME HubInv, IInv', NEW s \in Workers \cup Requests, Commit(s)
  PROVE  HubInv' /\ (UNCHANGED hub \/ \E e \in Events : Promise!Decide(e))
<1>1. s \in Sessions /\ s \notin Operators /\ TypeOK
  BY SessionsDisjoint DEF HubInv, IInv
<1>2. PICK v \in Session : /\ v = session[s] /\ Decided(s, v) /\ Working(v) /\ Records(v)
                           /\ EventIn(s) = EventAt(v)
  BY <1>1, InHandDecided
<1>3. PICK u : u = IF s \in Workers
                   THEN [Idle EXCEPT !.pc = "ack", !.work = v.work, !.queued = v.queued]
                   ELSE Idle
  OBVIOUS
<1>4. session' = [session EXCEPT ![s] = u]
  BY <1>2, <1>3 DEF Commit
<1>5. u \in Session /\ u.pc \in {"idle", "ack"} /\ u.seen = Nothing
  BY <1>3, IdleTyped DEF Session
<1>6. Decided(s, u) /\ Decided(s, u)'
  BY <1>1, <1>5 DEF Decided
<1>7. CASE v.status = "NONE"
  <2>1. UNCHANGED hub
    BY <1>2, <1>7 DEF Commit, hub
  <2>2. QED
    BY <1>1, <1>4, <1>5, <1>6, <2>1, HubStep
<1>8. CASE v.status # "NONE"
  <2>1. PICK e : e = EventAt(v)
    OBVIOUS
  <2>2. e \in Events /\ log[e].status = "NONE" /\ letter[e] = "NONE"
    BY <1>2, <1>8, <2>1 DEF Working, Records, Logged, HubInv, IInv, LogBacked
  <2>3. /\ log' = [log EXCEPT ![e] = [status |-> v.status, body |-> v.work]]
        /\ delivery' = [delivery EXCEPT ![e] = v.rows]
        /\ letter' = [letter EXCEPT ![e] = IF v.status = "REJECTED" THEN "OPEN" ELSE @]
    BY <1>2, <1>8, <2>1 DEF Commit, WriteEvent
  <2>4. v.pc = "commit" /\ v.status \in LogStatus \ {"NONE"} /\ v.rows \in [Modules -> Outcome]
    BY <1>2, <1>8 DEF Commit, Session
  <2>5. Decides(e, v.status, v.rows)
    BY <1>1, <1>2, <2>2, <2>3, <2>4 DEF Decides, Decided, TypeOK
  <2>6. /\ letter'[e] \in {"OPEN", "DISCARDED"} <=> v.status = "REJECTED"
        /\ \A x \in Events : x # e => letter'[x] = letter[x]
    BY <1>1, <2>2, <2>3 DEF TypeOK
  <2>7. ASSUME NEW o \in Operators, o # s
        PROVE  session[o].pc = "idle" \/ EventIn(o) # e
    <3>1. o \in Sessions
      BY SessionsDisjoint
    <3>2. PICK w \in Session : w = session[o] /\ Retries(w) /\ EventIn(o) = EventAt(w)
      BY <3>1, InHandDecided
    <3>3. QED
      BY <2>2, <3>2 DEF Retries, Logged
  <2>8. HubInv'
    BY <1>1, <1>4, <1>5, <1>6, <2>2, <2>4, <2>5, <2>6, <2>7, CommitHub
  <2>9. QED
    BY <1>1, <2>2, <2>4, <2>5, <2>8, DecideStep
<1>9. QED
  BY <1>7, <1>8

\* The commit of a retry, the only one at work on that event.
LEMMA RetryHub ==
  ASSUME TakeTurns, HubInv, IInv', NEW o \in Operators, CommitReprocess(o)
  PROVE  HubInv' /\ \E e \in Events : Promise!Decide(e)
<1>1. o \in Sessions /\ TypeOK
  BY SessionsDisjoint DEF HubInv, IInv
<1>2. PICK v \in Session : /\ v = session[o] /\ Decided(o, v) /\ Working(v) /\ Retries(v)
                           /\ EventIn(o) = EventAt(v)
  BY <1>1, InHandDecided
<1>3. PICK e : e = EventAt(v)
  OBVIOUS
<1>4. v.pc = "commit" /\ v.status \in LogStatus \ {"NONE"} /\ v.rows \in [Modules -> Outcome]
  BY <1>2 DEF CommitReprocess, Retries, Session
<1>5. e \in Events /\ delivery[e] = Nothing /\ log[e].status = "REJECTED" /\ letter[e] = "OPEN"
  BY <1>1, <1>2, <1>3, <1>4, NothingYet DEF Decided
<1>6. v.was = "REJECTED" /\ (v.fits <=> v.status # "REJECTED")
      /\ (v.status = "ROUTED" <=> v.rows # Nothing)
  BY <1>2, <1>4 DEF Decided
<1>7. ~Clashes(o)
  BY <1>2, <1>3, <1>5, IdleTyped DEF Clashes
<1>8. /\ log' = [log EXCEPT ![e].status = IF v.status = v.was THEN @ ELSE v.status]
      /\ delivery' = [delivery EXCEPT ![e] = Merged(v.rows, @)]
      /\ letter' = [letter EXCEPT ![e] = Settled(o)]
      /\ session' = [session EXCEPT ![o] = Idle]
  BY <1>2, <1>3, <1>7 DEF CommitReprocess
<1>9. Merged(v.rows, delivery[e]) = v.rows
  <2>1. \A m \in Modules : delivery[e][m] = "NONE"
    BY <1>5, IdleTyped
  <2>2. \A m \in Modules : (IF v.rows[m] # "NONE" THEN v.rows[m] ELSE delivery[e][m]) = v.rows[m]
    BY <2>1
  <2>3. QED
    BY <1>4, <2>2 DEF Merged
<1>10. /\ log'[e].status = v.status
       /\ \A x \in Events : x # e => log'[x].status = log[x].status
  <2>1. PICK r, st : r = log[e] /\ st = IF v.status = v.was THEN r.status ELSE v.status
    OBVIOUS
  <2>2. st = v.status
    BY <1>5, <1>6, <2>1
  <2>3. log' = [log EXCEPT ![e].status = st]
    BY <1>8, <2>1
  <2>4. r \in [status : LogStatus, body : Messages \cup {NoMessage}]
    BY <1>1, <1>5, <2>1 DEF TypeOK
  <2>5. log' = [log EXCEPT ![e] = [r EXCEPT !.status = st]]
    BY <2>1, <2>3
  <2>6. QED
    BY <1>1, <1>5, <2>2, <2>4, <2>5 DEF TypeOK
<1>11. Decides(e, v.status, v.rows)
  <2>1. delivery' = [delivery EXCEPT ![e] = v.rows]
    BY <1>8, <1>9
  <2>2. QED
    BY <1>5, <1>6, <1>10, <2>1 DEF Decides
<1>12. /\ letter'[e] \in {"OPEN", "DISCARDED"} <=> v.status = "REJECTED"
       /\ \A x \in Events : x # e => letter'[x] = letter[x]
  <2>1. Settled(o) = IF v.fits THEN "RETRIED" ELSE "OPEN"
    BY <1>2, <1>3, <1>5 DEF Settled
  <2>2. letter'[e] = IF v.fits THEN "RETRIED" ELSE "OPEN"
    BY <1>1, <1>5, <1>8, <2>1 DEF TypeOK
  <2>3. \A x \in Events : x # e => letter'[x] = letter[x]
    BY <1>1, <1>8 DEF TypeOK
  <2>4. QED
    BY <1>6, <2>2, <2>3
<1>13. Idle \in Session /\ Decided(o, Idle)'
  BY IdleTyped DEF Decided
<1>14. HubInv'
  <2>1. \A p \in Operators : p # o => session[p].pc = "idle" \/ EventIn(p) # e
    BY <1>2, <1>3, <1>4 DEF TakeTurns
  <2>2. session' = [session EXCEPT ![o] = Idle]
    BY <1>8
  <2>3. QED
    BY <1>1, <1>4, <1>5, <1>11, <1>12, <1>13, <2>1, <2>2, CommitHub
<1>15. QED
  BY <1>1, <1>4, <1>5, <1>11, <1>14, DecideStep

\* A discarded letter was open until now; no other operator was at it.
LEMMA DiscardHub ==
  ASSUME TakeTurns, HubInv, IInv', NEW o \in Operators, CommitDiscard(o)
  PROVE  HubInv' /\ UNCHANGED <<log, delivery>>
<1>1. o \in Sessions /\ TypeOK /\ UNCHANGED <<log, delivery>>
  BY SessionsDisjoint DEF HubInv, IInv, CommitDiscard
<1>2. PICK v \in Session : /\ v = session[o] /\ Decided(o, v) /\ Retries(v)
                           /\ EventIn(o) = EventAt(v)
  BY <1>1, InHandDecided
<1>3. PICK e \in Events : e = EventAt(v)
  BY <1>2 DEF CommitDiscard, Retries
<1>4. letter[e] = "OPEN"
  BY <1>2, <1>3 DEF CommitDiscard, Decided
<1>5. letter'[e] = "DISCARDED" /\ \A x \in Events : x # e => letter'[x] = letter[x]
  BY <1>1, <1>2, <1>3 DEF CommitDiscard, TypeOK
<1>6. RejectedIsActionable' /\ RoutedAlone'
  BY <1>1, <1>4, <1>5 DEF HubInv, RejectedIsActionable, RoutedAlone
<1>7. session' = [session EXCEPT ![o] = Idle]
  BY DEF CommitDiscard
<1>8. ASSUME NEW s \in Sessions
      PROVE  Decided(s, session[s])'
  <2>1. CASE s = o
    <3>1. session'[s] = Idle
      BY <1>1, <1>7, <2>1 DEF TypeOK
    <3>2. QED
      BY <3>1, IdleTyped DEF Decided
  <2>2. CASE s # o
    <3>1. session'[s] = session[s]
      BY <1>1, <1>7, <2>2 DEF TypeOK
    <3>2. PICK w \in Session : /\ w = session[s] /\ Decided(s, w)
                               /\ s \in Operators => Retries(w)
                               /\ EventIn(s) = EventAt(w)
      BY InHandDecided
    <3>3. CASE s \in Operators /\ w.pc # "idle"
      <4>1. EventAt(w) # e
        BY <1>2, <1>3, <2>2, <3>2, <3>3 DEF TakeTurns, CommitDiscard
      <4>2. EventAt(w) \in Events
        BY <3>2, <3>3 DEF Retries
      <4>3. letter'[EventAt(w)] = letter[EventAt(w)]
        BY <1>5, <4>1, <4>2
      <4>4. QED
        BY <3>1, <3>2, <4>3 DEF Decided, EventAt
    <3>4. CASE ~(s \in Operators /\ w.pc # "idle")
      BY <3>1, <3>2, <3>4 DEF Decided
    <3>5. QED
      BY <3>3, <3>4
  <2>3. QED
    BY <2>1, <2>2
<1>9. QED
  BY <1>1, <1>6, <1>8 DEF HubInv, SessionsDecided

-----------------------------------------------------------------------------
(* Every step.                                                             *)

\* The steps of a session that are the same for handlers, requests and operators.
LEMMA RoutingHub ==
  ASSUME HubInv, IInv', NEW s \in Sessions, Route(s) \/ \E m \in Modules : PublishTo(s, m)
  PROVE  HubInv' /\ UNCHANGED hub
<1>1. UNCHANGED hub
  BY DEF Route, PublishTo
<1>2. QED
  BY <1>1, RouteHub, PublishHub

LEMMA PipelineHub ==
  ASSUME HubInv, IInv', NEW s \in Workers \cup Requests, Pipeline(s)
  PROVE  HubInv' /\ (UNCHANGED hub \/ \E e \in Events : Promise!Decide(e))
<1>1. s \in Sessions
  BY SessionsDisjoint
<1>2. CASE FindType(s) \/ MissType(s) \/ CreateType(s)
  <2>1. UNCHANGED hub
    BY <1>2 DEF FindType, MissType, CreateType
  <2>2. QED
    BY <1>2, <2>1, TypesHub
<1>3. CASE Insert(s)
  <2>1. UNCHANGED hub
    BY <1>3 DEF Insert
  <2>2. QED
    BY <1>3, <2>1, InsertHub
<1>4. CASE Route(s) \/ \E m \in Modules : PublishTo(s, m)
  BY <1>1, <1>4, RoutingHub
<1>5. CASE Commit(s)
  BY <1>5, RecordHub
<1>6. QED
  BY <1>2, <1>3, <1>4, <1>5 DEF Pipeline

LEMMA OperatorHub ==
  ASSUME TakeTurns, HubInv, IInv', NEW o \in Operators, Operator(o)
  PROVE  HubInv' /\ (UNCHANGED <<log, delivery>> \/ \E e \in Events : Promise!Decide(e))
<1>1. o \in Sessions
  BY SessionsDisjoint
<1>2. ASSUME NEW e \in Events, OpenLetter(o, e)
      PROVE  HubInv' /\ UNCHANGED <<log, delivery>>
  <2>1. UNCHANGED <<log, delivery>>
    BY <1>2 DEF OpenLetter, hub
  <2>2. QED
    BY <1>2, <2>1, OpenHub
<1>3. CASE Revalidate(o)
  <2>1. UNCHANGED <<log, delivery>>
    BY <1>3 DEF Revalidate, hub
  <2>2. QED
    BY <1>3, <2>1, RevalidateHub
<1>4. CASE Route(o) \/ \E m \in Modules : PublishTo(o, m)
  <2>1. HubInv' /\ UNCHANGED hub
    BY <1>1, <1>4, RoutingHub
  <2>2. QED
    BY <2>1 DEF hub
<1>5. CASE CommitReprocess(o)
  BY <1>5, RetryHub
<1>6. CASE CommitDiscard(o)
  BY <1>6, DiscardHub
<1>7. QED
  BY <1>2, <1>3, <1>4, <1>5, <1>6 DEF Operator

\* The steps of q.dlq, of the registry and of the broker.
LEMMA OutsideHub ==
  ASSUME HubInv, IInv',
         \/ \E m \in Messages : PublishToInbox(m)
         \/ DlqHandler \/ Registry \/ BrokerDown \/ BrokerUp
  PROVE  HubInv' /\ UNCHANGED hub
<1>1. CASE BrokerDown
  BY <1>1, DownHub DEF BrokerDown
<1>2. CASE \/ \E m \in Messages : PublishToInbox(m)
           \/ DlqHandler \/ BrokerUp
  <2>1. UNCHANGED <<hub, session>>
    BY <1>2 DEF PublishToInbox, DlqHandler, HandleReturned, DropReturned, NackCopy, HandleCopy,
                BrokerUp
  <2>2. QED
    BY <2>1, SteadyHub
<1>3. CASE Registry
  <2>1. UNCHANGED <<hub, session>>
    BY <1>3 DEF Registry, SetSchema, Declare, Unsubscribe
  <2>2. QED
    BY <2>1, SteadyHub
<1>4. QED
  BY <1>1, <1>2, <1>3

LEMMA NextHub ==
  ASSUME TakeTurns, HubInv, Next
  PROVE  HubInv' /\ (UNCHANGED <<log, delivery>> \/ Promise!Next)
<1>1. IInv'
  BY NextKeeps DEF HubInv
<1>2. ASSUME NEW w \in Workers, Worker(w)
      PROVE  HubInv' /\ (UNCHANGED <<log, delivery>> \/ Promise!Next)
  <2>1. CASE \E m \in Messages : Receive(w, m)
    BY <1>1, <2>1, StartsHub DEF hub
  <2>2. CASE Pipeline(w)
    BY <1>1, <2>2, PipelineHub DEF hub, Promise!Next
  <2>3. CASE Ack(w)
    BY <1>1, <2>3, AckHub DEF hub, Ack
  <2>4. QED
    BY <1>2, <2>1, <2>2, <2>3 DEF Worker
<1>3. ASSUME NEW r \in Requests, Request(r)
      PROVE  HubInv' /\ (UNCHANGED <<log, delivery>> \/ Promise!Next)
  <2>1. CASE \E m \in Messages : Submit(r, m)
    BY <1>1, <2>1, StartsHub DEF hub
  <2>2. CASE Pipeline(r)
    BY <1>1, <2>2, PipelineHub DEF hub, Promise!Next
  <2>3. CASE Answer(r)
    BY <1>1, <2>3, AnswerHub DEF hub, Answer
  <2>4. QED
    BY <1>3, <2>1, <2>2, <2>3 DEF Request
<1>4. ASSUME NEW o \in Operators, Operator(o)
      PROVE  HubInv' /\ (UNCHANGED <<log, delivery>> \/ Promise!Next)
  BY <1>1, <1>4, OperatorHub DEF Promise!Next
<1>5. ASSUME NEW s \in Sessions, Raise(s) \/ Crash(s)
      PROVE  HubInv' /\ UNCHANGED <<log, delivery>>
  BY <1>1, <1>5, FaultsHub DEF hub, Raise, Crash
<1>6. CASE \/ \E m \in Messages : PublishToInbox(m)
           \/ DlqHandler \/ Registry \/ BrokerDown \/ BrokerUp
  BY <1>1, <1>6, OutsideHub DEF hub
<1>7. QED
  BY <1>2, <1>3, <1>4, <1>5, <1>6 DEF Next

LEMMA StutterHub ==
  ASSUME HubInv, UNCHANGED vars
  PROVE  HubInv' /\ UNCHANGED <<log, delivery>>
<1>1. UNCHANGED <<hub, session>> /\ UNCHANGED <<log, delivery>>
  BY DEF vars, hub
<1>2. IInv'
  BY StutterKeeps DEF HubInv
<1>3. QED
  BY <1>1, <1>2, SteadyHub

LEMMA InitHub ==
  ASSUME Init
  PROVE  HubInv /\ Promise!Init
<1>1. IInv
  BY InitHolds
<1>2. \A e \in Events : /\ log[e].status = "NONE" /\ delivery[e] = Nothing /\ letter[e] = "NONE"
  BY DEF Init
<1>3. RejectedIsActionable /\ RoutedAlone
  BY <1>2 DEF RejectedIsActionable, RoutedAlone
<1>4. SessionsDecided
  <2>1. \A s \in Sessions : session[s] = Idle
    BY DEF Init
  <2>2. QED
    BY <2>1, IdleDecided DEF SessionsDecided
<1>5. HubOutcome = [e \in Events |-> "NEW"]
  BY <1>2 DEF HubOutcome, Logged
<1>6. HubReceivers = [e \in Events |-> {}]
  BY <1>2, IdleTyped DEF HubReceivers
<1>7. QED
  BY <1>1, <1>3, <1>4, <1>5, <1>6 DEF HubInv, Promise!Init

LEMMA HubMapped ==
  ASSUME UNCHANGED <<log, delivery>>
  PROVE  UNCHANGED <<HubOutcome, HubReceivers>>
BY DEF HubOutcome, HubReceivers, Logged

LEMMA HubInvariant ==
  Spec /\ []TakeTurns => []HubInv
<1>1. Init => HubInv
  BY InitHub
<1>2. HubInv /\ TakeTurns /\ [Next]_vars => HubInv'
  BY NextHub, StutterHub
<1>3. QED
  BY <1>1, <1>2, PTL DEF Spec

\* However handlers, requests, faults and edits overlap, while operators take
\* turns on each event: what the log and the deliveries say of an event changes
\* only as EventHub allows.
THEOREM HubIsKept == Spec /\ []TakeTurns => HubKept
<1>1. Init => Promise!Init
  BY InitHub
<1>2. HubInv /\ TakeTurns /\ [Next]_vars => [Promise!Next]_<<HubOutcome, HubReceivers>>
  <2>1. HubInv /\ TakeTurns /\ Next => Promise!Next \/ UNCHANGED <<HubOutcome, HubReceivers>>
    BY NextHub, HubMapped
  <2>2. HubInv /\ UNCHANGED vars => UNCHANGED <<HubOutcome, HubReceivers>>
    BY StutterHub, HubMapped
  <2>3. QED
    BY <2>1, <2>2
<1>3. Spec /\ []TakeTurns => []HubInv
  BY HubInvariant
<1>4. QED
  BY <1>1, <1>2, <1>3, PTL DEF Spec, HubKept, Promise!Spec

\* Under the same conditions: an event is REJECTED exactly while its dead
\* letter can still be acted on or was discarded.
THEOREM RejectedStaysActionable == Spec /\ []TakeTurns => []RejectedIsActionable
<1>1. HubInv => RejectedIsActionable
  BY DEF HubInv
<1>2. Spec /\ []TakeTurns => []HubInv
  BY HubInvariant
<1>3. QED
  BY <1>1, <1>2, PTL

-----------------------------------------------------------------------------
(* No copy is published twice, if besides nothing fails but the broker.    *)

\* RabbitMQ may be down; nothing crashes, rolls back or loses a confirm.
Calm == FaultKinds \subseteq {"outage"}

\* A step of one session that publishes nothing.
LEMMA OnceStep ==
  ASSUME OnceInv, HubInv', NEW s \in Sessions,
         \A o \in Sessions : o # s => session'[o] = session[o],
         UNCHANGED published,
         \A e \in Events, m \in Modules :
           delivery[e][m] = "DELIVERED" => delivery'[e][m] = "DELIVERED",
         \A m \in Modules : session[s].rows[m] = "DELIVERED" =>
           \/ session'[s].work = session[s].work /\ session'[s].rows[m] = "DELIVERED"
           \/ delivery'[EventIn(s)][m] = "DELIVERED",
         session'[s].pc = "publish" => session'[s].rows = Nothing
  PROVE  OnceInv'
<1>1. NoDoublePublish'
  BY DEF OnceInv, NoDoublePublish
<1>2. ASSUME NEW o \in Sessions, NEW m \in session'[o].todo
      PROVE  session'[o].rows[m] = "NONE"
  <2>1. CASE o # s
    BY <1>2, <2>1 DEF OnceInv, Ahead
  <2>2. CASE o = s
    <3>1. PICK u \in Session : u = session'[s]
      BY DEF HubInv, IInv, TypeOK
    <3>2. Working(u)
      BY <3>1 DEF HubInv, IInv, SessionsSound, Sound, Working, Handles, EventAt
    <3>3. u.pc = "publish" /\ m \in Modules
      BY <1>2, <2>2, <3>1, <3>2 DEF Working, Session
    <3>4. QED
      BY <2>2, <3>1, <3>3, IdleTyped
  <2>3. QED
    BY <2>1, <2>2
<1>3. ASSUME NEW e \in Events, NEW m \in Modules, published'[e][m] > 0
      PROVE  delivery'[e][m] = "DELIVERED" \/ Publisher(e, m)'
  <2>1. CASE delivery[e][m] = "DELIVERED"
    BY <2>1
  <2>2. CASE Publisher(e, m)
    <3>1. PICK o \in Sessions : /\ session[o].work \in Messages /\ EventIn(o) = e
                                /\ session[o].rows[m] = "DELIVERED"
      BY <2>2 DEF Publisher
    <3>2. CASE o # s
      BY <3>1, <3>2 DEF Publisher, EventIn
    <3>3. CASE o = s
      BY <3>1, <3>3 DEF Publisher, EventIn
    <3>4. QED
      BY <3>2, <3>3
  <2>3. QED
    BY <1>3, <2>1, <2>2 DEF OnceInv, PublishedKept
<1>4. QED
  BY <1>1, <1>2, <1>3 DEF OnceInv, Ahead, PublishedKept

\* A step of a session that has published nothing.
LEMMA OnceEarly ==
  ASSUME OnceInv, HubInv', NEW s \in Sessions, NEW u \in Session,
         session' = [session EXCEPT ![s] = u],
         UNCHANGED <<published, delivery>>,
         session[s].pc \notin {"publish", "answer", "commit"},
         u.pc = "publish" => u.rows = Nothing
  PROVE  OnceInv'
<1>1. HubInv /\ IInv
  BY DEF OnceInv, HubInv
<1>2. session'[s] = u /\ \A o \in Sessions : o # s => session'[o] = session[o]
  BY <1>1 DEF IInv, TypeOK
<1>3. session[s].rows = Nothing
  BY <1>1 DEF IInv, SessionsSound, Sound, Working
<1>4. \A m \in Modules : session[s].rows[m] # "DELIVERED"
  BY <1>3, IdleTyped
<1>5. QED
  BY <1>2, <1>4, OnceStep

\* Two sessions never publish copies of one event at a time.
LEMMA PublishersExclude ==
  ASSUME TakeTurns, HubInv, NEW s \in Sessions, NEW o \in Sessions, s # o,
         session[s].pc = "publish", session[o].rows # Nothing, session[o].work \in Messages
  PROVE  EventIn(o) # EventIn(s)
<1>1. PICK v \in Session : /\ v = session[s] /\ Decided(s, v) /\ Working(v)
                           /\ s \in Operators => Retries(v)
                           /\ s \notin Operators => Records(v)
                           /\ EventIn(s) = EventAt(v)
  BY InHandDecided
<1>2. PICK w \in Session : /\ w = session[o] /\ Decided(o, w) /\ Working(w)
                           /\ o \in Operators => Retries(w)
                           /\ o \notin Operators => Records(w)
                           /\ EventIn(o) = EventAt(w)
  BY InHandDecided
<1>3. v.status = "ROUTED" /\ w.status = "ROUTED" /\ w.pc # "idle" /\ v.pc # "idle"
  BY <1>1, <1>2 DEF Decided, Working
<1>4. s \in Operators => Logged(EventAt(v))
  BY <1>1, <1>3 DEF Retries
<1>5. o \in Operators => Logged(EventAt(w))
  BY <1>2, <1>3 DEF Retries
<1>6. s \notin Operators => ~Logged(EventAt(v)) /\ v.locks
  BY <1>1, <1>3 DEF Records
<1>7. o \notin Operators => ~Logged(EventAt(w)) /\ w.locks
  BY <1>2, <1>3 DEF Records
<1>8. CASE s \in Operators /\ o \in Operators
  BY <1>1, <1>2, <1>3, <1>8 DEF TakeTurns
<1>9. CASE s \notin Operators /\ o \notin Operators
  <2>1. TypeIn(s) # TypeIn(o)
    BY <1>1, <1>2, <1>6, <1>7, <1>9 DEF HubInv, IInv, LocksExclude
  <2>2. QED
    BY <2>1 DEF TypeIn
<1>10. QED
  BY <1>1, <1>2, <1>4, <1>5, <1>6, <1>7, <1>8, <1>9

LEMMA OncePublish ==
  ASSUME TakeTurns, Calm, OnceInv, HubInv', NEW s \in Sessions, NEW m \in Modules, PublishTo(s, m)
  PROVE  OnceInv'
<1>1. HubInv /\ IInv /\ TypeOK
  BY DEF OnceInv, HubInv, IInv
<1>2. PICK v \in Session : /\ v = session[s] /\ Decided(s, v) /\ Working(v)
                           /\ EventIn(s) = EventAt(v)
  BY <1>1, InHandDecided
<1>3. v.pc = "publish" /\ m \in v.todo /\ v.status = "ROUTED"
  BY <1>2 DEF PublishTo, Decided
<1>4. PICK e : e = EventAt(v)
  OBVIOUS
<1>5. e \in Events /\ delivery[e] = Nothing
  BY <1>1, <1>2, <1>3, <1>4, NothingYet
<1>6. PICK todo, outcome :
        /\ todo = v.todo \ {m} /\ outcome \in Outcome \ {"NONE"}
        /\ session' = [session EXCEPT ![s].rows[m] = outcome,
                                      ![s].todo = todo,
                                      ![s].pc = IF todo = {} THEN Finish(s) ELSE "publish"]
        /\ outcome = "DELIVERED" <=> brokerUp
        /\ published' = [published EXCEPT ![e][m] = IF brokerUp THEN @ + 1 ELSE @]
  <2>1. ~Fault("confirm")
    BY DEF Calm, Fault
  <2>2. QED
    BY <1>2, <1>4, <2>1 DEF PublishTo, Outcome
<1>7. PICK pc, rows : /\ pc = IF todo = {} THEN Finish(s) ELSE "publish"
                      /\ rows = [v.rows EXCEPT ![m] = outcome]
  OBVIOUS
<1>8. PICK u : u = [v EXCEPT !.rows = rows, !.todo = todo, !.pc = pc]
  OBVIOUS
<1>9. session' = [session EXCEPT ![s] = u]
  BY <1>1, <1>2, <1>6, <1>7, <1>8 DEF TypeOK, Session
<1>10. /\ session'[s] = u /\ \A o \in Sessions : o # s => session'[o] = session[o]
       /\ u.rows = rows /\ u.todo = todo /\ u.work = v.work
  BY <1>1, <1>8, <1>9 DEF TypeOK, Session
<1>11. \A n \in Modules : rows[n] = IF n = m THEN outcome ELSE v.rows[n]
  BY <1>7 DEF Session
<1>12. UNCHANGED delivery
  BY DEF PublishTo, hub
<1>13. published[e][m] = 0
  <2>1. v.rows[m] = "NONE"
    BY <1>2, <1>3 DEF OnceInv, Ahead
  <2>2. ~Publisher(e, m)
    <3>1. ASSUME NEW o \in Sessions, session[o].work \in Messages, EventIn(o) = e,
                 session[o].rows[m] = "DELIVERED"
          PROVE  FALSE
      <4>1. o # s
        BY <1>2, <2>1, <3>1
      <4>2. session[o].rows # Nothing
        BY <3>1, IdleTyped
      <4>3. QED
        BY <1>1, <1>2, <1>3, <1>4, <3>1, <4>1, <4>2, PublishersExclude
    <3>2. QED
      BY <3>1 DEF Publisher
  <2>3. delivery[e][m] # "DELIVERED"
    BY <1>5, IdleTyped
  <2>4. ~(published[e][m] > 0)
    BY <1>5, <2>2, <2>3 DEF OnceInv, PublishedKept
  <2>5. published[e][m] \in Nat
    BY <1>1, <1>5 DEF TypeOK
  <2>6. QED
    BY <2>4, <2>5
<1>14. \A x \in Events, n \in Modules :
         published'[x][n] = IF x = e /\ n = m THEN (IF brokerUp THEN 1 ELSE 0) ELSE published[x][n]
  <2>1. PICK row : row = published[e]
    OBVIOUS
  <2>2. row \in [Modules -> Nat] /\ row[m] = 0
    BY <1>1, <1>5, <1>13, <2>1 DEF TypeOK
  <2>3. PICK n : n = IF brokerUp THEN row[m] + 1 ELSE row[m]
    OBVIOUS
  <2>4. published' = [published EXCEPT ![e] = [row EXCEPT ![m] = n]]
    BY <1>6, <2>1, <2>3
  <2>5. n = IF brokerUp THEN 1 ELSE 0
    BY <2>2, <2>3
  <2>6. QED
    BY <1>1, <1>5, <2>1, <2>2, <2>4, <2>5 DEF TypeOK
<1>15. NoDoublePublish'
  BY <1>14 DEF OnceInv, NoDoublePublish
<1>16. Ahead'
  <2>1. \A n \in todo : n # m /\ n \in v.todo /\ n \in Modules
    BY <1>6 DEF Session
  <2>2. \A n \in todo : rows[n] = "NONE"
    BY <1>2, <1>11, <2>1 DEF OnceInv, Ahead
  <2>3. ASSUME NEW o \in Sessions, NEW n \in session'[o].todo
        PROVE  session'[o].rows[n] = "NONE"
    BY <1>10, <2>2, <2>3 DEF OnceInv, Ahead
  <2>4. QED
    BY <2>3 DEF Ahead
<1>17. PublishedKept'
  <2>1. ASSUME NEW x \in Events, NEW n \in Modules, published'[x][n] > 0
        PROVE  delivery'[x][n] = "DELIVERED" \/ Publisher(x, n)'
    <3>1. CASE x = e /\ n = m
      <4>1. rows[m] = "DELIVERED"
        BY <1>6, <1>11, <1>14, <2>1, <3>1
      <4>2. v.work \in Messages
        BY <1>2, <1>3 DEF Working
      <4>3. QED
        BY <1>4, <1>10, <3>1, <4>1, <4>2 DEF Publisher, EventIn, EventAt
    <3>2. CASE ~(x = e /\ n = m)
      <4>1. delivery[x][n] = "DELIVERED" \/ Publisher(x, n)
        BY <1>14, <2>1, <3>2 DEF OnceInv, PublishedKept
      <4>2. ASSUME NEW o \in Sessions, session[o].work \in Messages, EventIn(o) = x,
                   session[o].rows[n] = "DELIVERED"
            PROVE  Publisher(x, n)'
        <5>1. CASE o # s
          BY <1>10, <4>2, <5>1 DEF Publisher, EventIn
        <5>2. CASE o = s
          <6>1. n # m
            BY <1>2, <1>4, <3>2, <4>2, <5>2
          <6>2. u.rows[n] = "DELIVERED" /\ u.work \in Messages /\ EventOf[u.work] = x
            BY <1>2, <1>10, <1>11, <4>2, <5>2, <6>1 DEF EventIn
          <6>3. QED
            BY <1>10, <6>2 DEF Publisher, EventIn
        <5>3. QED
          BY <5>1, <5>2
      <4>3. QED
        BY <1>12, <4>1, <4>2 DEF Publisher
    <3>3. QED
      BY <3>1, <3>2
  <2>2. QED
    BY <2>1 DEF PublishedKept
<1>18. QED
  BY <1>15, <1>16, <1>17 DEF OnceInv

\* The steps of a session before it publishes, and the ends that lose nothing.
LEMMA OnceReads ==
  ASSUME OnceInv, HubInv', NEW s \in Sessions,
         session[s].pc \notin {"publish", "answer", "commit"},
         session' = [session EXCEPT ![s] = session'[s]],
         session'[s].rows = session[s].rows \/ session'[s].rows = Nothing,
         UNCHANGED <<published, delivery>>
  PROVE  OnceInv'
<1>1. PICK v \in Session : v = session[s] /\ Working(v)
  BY InHandDecided DEF OnceInv
<1>2. v.rows = Nothing
  BY <1>1 DEF Working
<1>3. PICK u \in Session : u = session'[s]
  BY DEF HubInv, IInv, TypeOK
<1>4. u.rows = Nothing
  BY <1>1, <1>2, <1>3
<1>5. QED
  BY <1>3, <1>4, OnceEarly

\* What a session has in hand keeps its rows when other fields change.
LEMMA OnceFields ==
  ASSUME OnceInv, HubInv', NEW s \in Sessions, NEW u,
         session[s].pc \notin {"publish", "answer", "commit"},
         session' = [session EXCEPT ![s] = u],
         u.rows = session[s].rows \/ u.rows = Nothing,
         UNCHANGED <<published, delivery>>
  PROVE  OnceInv'
<1>1. session'[s] = u
  BY DEF OnceInv, HubInv, IInv, TypeOK
<1>2. QED
  BY <1>1, OnceReads

LEMMA OnceIdle ==
  ASSUME OnceInv, HubInv', NEW s \in Sessions, session' = [session EXCEPT ![s] = Idle],
         session[s].pc \notin {"publish", "answer", "commit"},
         UNCHANGED <<published, delivery>>
  PROVE  OnceInv'
BY OnceFields, IdleTyped

LEMMA OnceBegins ==
  ASSUME OnceInv, HubInv', NEW m \in Messages,
         (\E w \in Workers : Receive(w, m)) \/ (\E r \in Requests : Submit(r, m))
  PROVE  OnceInv'
<1>1. ASSUME NEW s \in Sessions, NEW queued \in BOOLEAN, Begin(s, m, queued),
             session[s].pc = "idle", UNCHANGED <<published, delivery>>
      PROVE  OnceInv'
  <2>1. PICK pc : pc = IF ~Readable(m) \/ Logged(EventOf[m]) THEN Finish(s) ELSE "type"
    OBVIOUS
  <2>2. PICK u : u = [Idle EXCEPT !.pc = pc, !.work = m, !.queued = queued]
    OBVIOUS
  <2>3. session' = [session EXCEPT ![s] = u]
    BY <1>1, <2>1, <2>2, Zenon DEF Begin
  <2>4. u.rows = Nothing
    BY <2>2, IdleTyped DEF Session
  <2>5. QED
    BY <1>1, <2>3, <2>4, OnceFields
<1>2. ASSUME NEW w \in Workers, Receive(w, m)
      PROVE  OnceInv'
  <2>1. /\ w \in Sessions /\ Begin(w, m, TRUE) /\ session[w].pc = "idle"
        /\ UNCHANGED <<published, delivery>>
    BY <1>2, SessionsDisjoint DEF Receive, hub, queues
  <2>2. QED
    BY <1>1, <2>1
<1>3. ASSUME NEW r \in Requests, Submit(r, m)
      PROVE  OnceInv'
  <2>1. /\ r \in Sessions /\ Begin(r, m, FALSE) /\ session[r].pc = "idle"
        /\ UNCHANGED <<published, delivery>>
    BY <1>3, SessionsDisjoint DEF Submit, hub
  <2>2. QED
    BY <1>1, <2>1
<1>4. QED
  BY <1>2, <1>3

LEMMA OnceTypes ==
  ASSUME OnceInv, HubInv', NEW s \in Workers \cup Requests,
         FindType(s) \/ MissType(s) \/ CreateType(s) \/ Insert(s)
  PROVE  OnceInv'
<1>1. s \in Sessions
  BY SessionsDisjoint
<1>2. PICK v \in Session : v = session[s]
  BY <1>1, InHandDecided DEF OnceInv
<1>3. v.pc \notin {"publish", "answer", "commit"} /\ UNCHANGED <<published, delivery>>
  BY <1>2 DEF FindType, MissType, CreateType, Insert, hub, queues
<1>4. CASE Abort(s)
  BY <1>1, <1>2, <1>3, <1>4, OnceIdle DEF Abort
<1>5. CASE FindType(s)
  <2>1. PICK total, fits : total = CountedTotal(TypeIn(s)) /\ fits = validate_data(TypeIn(s), v.work)
    OBVIOUS
  <2>2. PICK u : u = [v EXCEPT !.pc = "insert", !.total = total, !.fits = fits]
    OBVIOUS
  <2>3. session' = [session EXCEPT ![s] = u] /\ u.rows = v.rows
    BY <1>2, <1>5, <2>1, <2>2 DEF FindType, Session
  <2>4. QED
    BY <1>1, <1>2, <1>3, <2>3, OnceFields
<1>6. CASE MissType(s)
  <2>1. PICK u : u = [v EXCEPT !.pc = "create"]
    OBVIOUS
  <2>2. session' = [session EXCEPT ![s] = u] /\ u.rows = v.rows
    BY <1>2, <1>6, <2>1 DEF MissType, Session
  <2>3. QED
    BY <1>1, <1>2, <1>3, <2>2, OnceFields
<1>7. CASE session' = [session EXCEPT ![s].pc = "insert", ![s].locks = TRUE, ![s].total = 1]
  <2>1. PICK u : u = [v EXCEPT !.pc = "insert", !.locks = TRUE, !.total = 1]
    OBVIOUS
  <2>2. session' = [session EXCEPT ![s] = u] /\ u.rows = v.rows
    BY <1>2, <1>7, <2>1 DEF Session
  <2>3. QED
    BY <1>1, <1>2, <1>3, <2>2, OnceFields
<1>8. CASE session' = [session EXCEPT
                ![s].locks = TRUE,
                ![s].pc = IF session[s].fits THEN "route" ELSE Finish(s),
                ![s].status = IF session[s].fits THEN "ROUTED" ELSE "REJECTED"]
  <2>1. PICK pc, status : /\ pc = IF session[s].fits THEN "route" ELSE Finish(s)
                          /\ status = IF session[s].fits THEN "ROUTED" ELSE "REJECTED"
    OBVIOUS
  <2>2. PICK u : u = [v EXCEPT !.locks = TRUE, !.pc = pc, !.status = status]
    OBVIOUS
  <2>3. session' = [session EXCEPT ![s] = u] /\ u.rows = v.rows
    BY <1>2, <1>8, <2>1, <2>2 DEF Session
  <2>4. QED
    BY <1>1, <1>2, <1>3, <2>3, OnceFields
<1>9. QED
  BY <1>4, <1>5, <1>6, <1>7, <1>8 DEF CreateType, Insert

LEMMA OnceRoute ==
  ASSUME OnceInv, HubInv', NEW s \in Sessions, Route(s)
  PROVE  OnceInv'
<1>1. PICK v \in Session : v = session[s]
  BY InHandDecided DEF OnceInv
<1>2. PICK e, subscribers : e = EventIn(s) /\ subscribers = subscribed[TypeOf[e]]
  OBVIOUS
<1>3. PICK seen : seen = Merged(v.seen, delivery[e])
  OBVIOUS
<1>4. PICK todo : todo = {m \in subscribers : ~Confirmed(seen, m)}
  OBVIOUS
<1>5. PICK status, pc : /\ status = RouteStatus(subscribers)
                        /\ pc = IF todo = {} THEN Finish(s) ELSE "publish"
  OBVIOUS
<1>6. PICK u : u = [v EXCEPT !.status = status, !.seen = seen, !.todo = todo, !.pc = pc]
  OBVIOUS
<1>7. session' = [session EXCEPT ![s] = u] /\ v.pc = "route"
  BY <1>1, <1>2, <1>3, <1>4, <1>5, <1>6 DEF Route
<1>8. u.rows = v.rows /\ UNCHANGED <<published, delivery>>
  BY <1>6 DEF Session, Route, hub, queues
<1>9. QED
  BY <1>1, <1>7, <1>8, OnceFields

LEMMA OnceOperator ==
  ASSUME OnceInv, HubInv', NEW o \in Operators,
         (\E e \in Events : OpenLetter(o, e)) \/ Revalidate(o) \/ CommitDiscard(o)
  PROVE  OnceInv'
<1>1. o \in Sessions
  BY SessionsDisjoint
<1>2. PICK v \in Session : v = session[o]
  BY <1>1, InHandDecided DEF OnceInv
<1>3. UNCHANGED <<published, delivery>> /\ v.pc \notin {"publish", "answer", "commit"}
  BY <1>2 DEF OpenLetter, Revalidate, CommitDiscard, hub, queues
<1>4. ASSUME NEW e \in Events, OpenLetter(o, e)
      PROVE  OnceInv'
  <2>1. PICK pc \in {"check", "discard"} :
          session' = [session EXCEPT ![o] = [Idle EXCEPT !.pc = pc, !.work = log[e].body]]
    BY <1>4 DEF OpenLetter
  <2>2. PICK u : u = [Idle EXCEPT !.pc = pc, !.work = log[e].body]
    OBVIOUS
  <2>3. session' = [session EXCEPT ![o] = u] /\ u.rows = Nothing
    BY <2>1, <2>2, IdleTyped DEF Session
  <2>4. QED
    BY <1>1, <1>2, <1>3, <2>3, OnceFields
<1>5. CASE Revalidate(o)
  <2>1. PICK e, fits : e = EventIn(o) /\ fits = validate_data(TypeOf[e], v.work)
    OBVIOUS
  <2>2. PICK was, seen, status, pc : /\ was = log[e].status /\ seen = delivery[e]
                                     /\ status = IF fits THEN "ROUTED" ELSE "REJECTED"
                                     /\ pc = IF fits THEN "route" ELSE "commit"
    OBVIOUS
  <2>3. PICK u : u = [v EXCEPT !.was = was, !.seen = seen, !.fits = fits, !.status = status,
                               !.pc = pc]
    OBVIOUS
  <2>4. session' = [session EXCEPT ![o] = u] /\ u.rows = v.rows
    BY <1>2, <1>5, <2>1, <2>2, <2>3 DEF Revalidate, Session
  <2>5. QED
    BY <1>1, <1>2, <1>3, <2>4, OnceFields
<1>6. CASE CommitDiscard(o)
  BY <1>1, <1>2, <1>3, <1>6, OnceIdle DEF CommitDiscard
<1>7. QED
  BY <1>4, <1>5, <1>6

LEMMA OnceAck ==
  ASSUME OnceInv, HubInv', NEW w \in Workers, Ack(w)
  PROVE  OnceInv'
<1>1. w \in Sessions /\ session' = [session EXCEPT ![w] = Idle] /\ session[w].pc = "ack"
  BY SessionsDisjoint DEF Ack
<1>2. UNCHANGED <<published, delivery>>
  BY DEF Ack, hub
<1>3. QED
  BY <1>1, <1>2, OnceIdle

LEMMA OnceAnswer ==
  ASSUME OnceInv, HubInv', NEW r \in Requests, Answer(r)
  PROVE  OnceInv'
<1>1. r \in Sessions /\ UNCHANGED <<published, delivery>>
  BY SessionsDisjoint DEF Answer, hub
<1>2. PICK v \in Session : v = session[r]
  BY <1>1, InHandDecided DEF OnceInv
<1>3. PICK u : u = [v EXCEPT !.pc = "commit"]
  OBVIOUS
<1>4. session' = [session EXCEPT ![r] = u]
  BY <1>2, <1>3 DEF Answer
<1>5. session'[r] = u /\ \A o \in Sessions : o # r => session'[o] = session[o]
  BY <1>1, <1>4 DEF OnceInv, HubInv, IInv, TypeOK
<1>6. u.work = v.work /\ u.rows = v.rows /\ u.pc = "commit"
  BY <1>3 DEF Session
<1>7. QED
  BY <1>1, <1>2, <1>5, <1>6, OnceStep

\* A commit turns the rows of a session into deliveries.
LEMMA OnceWrites ==
  ASSUME OnceInv, HubInv', NEW s \in Sessions, NEW u,
         session' = [session EXCEPT ![s] = u], u.pc # "publish", UNCHANGED published,
         NEW e \in Events, e = EventIn(s), delivery[e] = Nothing,
         delivery' = [delivery EXCEPT ![e] = session[s].rows]
  PROVE  OnceInv'
<1>1. session'[s] = u /\ \A o \in Sessions : o # s => session'[o] = session[o]
  BY DEF OnceInv, HubInv, IInv, TypeOK
<1>2. \A m \in Modules : delivery[e][m] # "DELIVERED"
  BY IdleTyped
<1>3. delivery'[e] = session[s].rows /\ \A x \in Events : x # e => delivery'[x] = delivery[x]
  BY DEF OnceInv, HubInv, IInv, TypeOK
<1>4. \A x \in Events, m \in Modules :
        delivery[x][m] = "DELIVERED" => delivery'[x][m] = "DELIVERED"
  BY <1>2, <1>3
<1>5. QED
  BY <1>1, <1>3, <1>4, OnceStep

LEMMA OnceCommit ==
  ASSUME OnceInv, HubInv', NEW s \in Workers \cup Requests, Commit(s)
  PROVE  OnceInv'
<1>1. s \in Sessions /\ s \notin Operators /\ UNCHANGED published /\ HubInv
  BY SessionsDisjoint DEF Commit, queues, OnceInv
<1>2. PICK v \in Session : v = session[s] /\ Decided(s, v)
  BY <1>1, InHandDecided
<1>3. PICK u : u = IF s \in Workers
                   THEN [Idle EXCEPT !.pc = "ack", !.work = v.work, !.queued = v.queued]
                   ELSE Idle
  OBVIOUS
<1>4. session' = [session EXCEPT ![s] = u] /\ v.pc = "commit"
  BY <1>2, <1>3 DEF Commit
<1>5. u.pc # "publish"
  BY <1>3, IdleTyped DEF Session
<1>6. CASE v.status = "NONE"
  <2>1. UNCHANGED delivery
    BY <1>2, <1>6 DEF Commit
  <2>2. v.rows = Nothing
    BY <1>2, <1>4, <1>6 DEF Decided
  <2>3. \A m \in Modules : v.rows[m] # "DELIVERED"
    BY <2>2, IdleTyped
  <2>4. session'[s] = u /\ \A o \in Sessions : o # s => session'[o] = session[o]
    BY <1>1, <1>4 DEF HubInv, IInv, TypeOK
  <2>5. QED
    BY <1>1, <1>2, <1>5, <2>1, <2>3, <2>4, OnceStep
<1>7. CASE v.status # "NONE"
  <2>1. EventIn(s) \in Events /\ delivery[EventIn(s)] = Nothing
    BY <1>1, <1>2, <1>4, <1>7, NothingYet
  <2>2. delivery' = [delivery EXCEPT ![EventIn(s)] = session[s].rows]
    BY <1>2, <1>7 DEF Commit, WriteEvent
  <2>3. QED
    BY <1>1, <1>4, <1>5, <2>1, <2>2, OnceWrites
<1>8. QED
  BY <1>6, <1>7

LEMMA OnceRetry ==
  ASSUME OnceInv, HubInv', NEW o \in Operators, CommitReprocess(o)
  PROVE  OnceInv'
<1>1. o \in Sessions /\ UNCHANGED published /\ HubInv
  BY SessionsDisjoint DEF CommitReprocess, queues, OnceInv
<1>2. PICK v \in Session : v = session[o] /\ v.rows \in [Modules -> Outcome]
  BY <1>1, InHandDecided DEF Session
<1>3. session[o].pc = "commit"
  BY DEF CommitReprocess
<1>4. PICK e : e = EventIn(o)
  OBVIOUS
<1>5. e \in Events /\ delivery[e] = Nothing
  BY <1>1, <1>3, <1>4, NothingYet
<1>6. \A m \in Modules : delivery[e][m] = "NONE"
  BY <1>5, IdleTyped
<1>7. ~Clashes(o)
  BY <1>4, <1>6 DEF Clashes
<1>8. delivery' = [delivery EXCEPT ![e] = Merged(v.rows, @)]
  BY <1>2, <1>4, <1>7 DEF CommitReprocess
<1>9. Merged(v.rows, delivery[e]) = v.rows
  <2>1. \A m \in Modules : (IF v.rows[m] # "NONE" THEN v.rows[m] ELSE delivery[e][m]) = v.rows[m]
    BY <1>6
  <2>2. QED
    BY <1>2, <2>1 DEF Merged
<1>10. delivery' = [delivery EXCEPT ![e] = session[o].rows]
  BY <1>2, <1>8, <1>9
<1>11. session' = [session EXCEPT ![o] = Idle]
  BY DEF CommitReprocess
<1>12. QED
  BY <1>1, <1>4, <1>5, <1>10, <1>11, IdleTyped, OnceWrites

\* A step that changes no session, or only what RabbitMQ waits for.
LEMMA OnceOutside ==
  ASSUME OnceInv, HubInv', UNCHANGED <<published, delivery>>,
         \A s \in Sessions : /\ session'[s].work = session[s].work
                             /\ session'[s].rows = session[s].rows
                             /\ session'[s].todo = session[s].todo
  PROVE  OnceInv'
<1>1. NoDoublePublish' /\ Ahead'
  BY DEF OnceInv, NoDoublePublish, Ahead
<1>2. PublishedKept'
  <2>1. \A e \in Events, m \in Modules : Publisher(e, m) => Publisher(e, m)'
    BY DEF Publisher, EventIn
  <2>2. QED
    BY <2>1 DEF OnceInv, PublishedKept
<1>3. QED
  BY <1>1, <1>2 DEF OnceInv

LEMMA OnceDown ==
  ASSUME OnceInv, HubInv', BrokerDown
  PROVE  OnceInv'
<1>1. /\ UNCHANGED <<published, delivery>>
      /\ session' = [s \in Sessions |-> [session[s] EXCEPT !.queued = FALSE]]
  BY DEF BrokerDown, hub, queues
<1>2. ASSUME NEW s \in Sessions
      PROVE  /\ session'[s].work = session[s].work
             /\ session'[s].rows = session[s].rows
             /\ session'[s].todo = session[s].todo
  <2>1. PICK v \in Session : v = session[s]
    BY InHandDecided DEF OnceInv
  <2>2. PICK u : u = [v EXCEPT !.queued = FALSE]
    OBVIOUS
  <2>3. session'[s] = u
    BY <1>1, <2>1, <2>2
  <2>4. u.work = v.work /\ u.rows = v.rows /\ u.todo = v.todo
    BY <2>2 DEF Session
  <2>5. QED
    BY <2>1, <2>3, <2>4
<1>3. QED
  BY <1>1, <1>2, OnceOutside

LEMMA OncePipeline ==
  ASSUME TakeTurns, Calm, OnceInv, HubInv', NEW s \in Workers \cup Requests, Pipeline(s)
  PROVE  OnceInv'
<1>1. s \in Sessions
  BY SessionsDisjoint
<1>2. QED
  BY <1>1, OnceTypes, OnceRoute, OncePublish, OnceCommit DEF Pipeline

LEMMA NextOnce ==
  ASSUME TakeTurns, Calm, OnceInv, [Next]_vars
  PROVE  OnceInv'
<1>1. HubInv'
  BY NextHub, StutterHub DEF OnceInv
<1>2. ASSUME NEW w \in Workers, Worker(w)
      PROVE  OnceInv'
  BY <1>1, <1>2, OnceBegins, OncePipeline, OnceAck DEF Worker
<1>3. ASSUME NEW r \in Requests, Request(r)
      PROVE  OnceInv'
  BY <1>1, <1>3, OnceBegins, OncePipeline, OnceAnswer DEF Request
<1>4. ASSUME NEW o \in Operators, Operator(o)
      PROVE  OnceInv'
  <2>1. o \in Sessions
    BY SessionsDisjoint
  <2>2. QED
    BY <1>1, <1>4, <2>1, OnceOperator, OnceRoute, OncePublish, OnceRetry DEF Operator
<1>5. ASSUME NEW s \in Sessions
      PROVE  ~Raise(s) /\ ~Crash(s)
  BY DEF Calm, Raise, Crash, Fault
<1>6. CASE BrokerDown
  BY <1>1, <1>6, OnceDown
<1>7. CASE UNCHANGED <<published, delivery, session>>
  BY <1>1, <1>7, OnceOutside
<1>8. CASE \/ \E m \in Messages : PublishToInbox(m)
           \/ DlqHandler \/ BrokerUp
  <2>1. UNCHANGED <<published, delivery, session>>
    BY <1>8 DEF PublishToInbox, DlqHandler, HandleReturned, DropReturned, NackCopy, HandleCopy,
                BrokerUp, hub, queues
  <2>2. QED
    BY <1>7, <2>1
<1>9. CASE Registry
  <2>1. UNCHANGED <<published, delivery, session>>
    BY <1>9 DEF Registry, SetSchema, Declare, Unsubscribe, hub, queues
  <2>2. QED
    BY <1>7, <2>1
<1>10. CASE UNCHANGED vars
  <2>1. UNCHANGED <<published, delivery, session>>
    BY <1>10 DEF vars, hub, queues
  <2>2. QED
    BY <1>7, <2>1
<1>11. QED
  BY <1>2, <1>3, <1>4, <1>5, <1>6, <1>8, <1>9, <1>10 DEF Next

LEMMA InitOnce ==
  ASSUME Init
  PROVE  OnceInv
<1>1. HubInv
  BY InitHub
<1>2. \A e \in Events, m \in Modules : published[e][m] = 0
  BY DEF Init
<1>3. \A s \in Sessions : session[s].todo = {}
  BY IdleTyped DEF Init
<1>4. NoDoublePublish /\ PublishedKept
  BY <1>2 DEF NoDoublePublish, PublishedKept
<1>5. Ahead
  BY <1>3 DEF Ahead
<1>6. QED
  BY <1>1, <1>4, <1>5 DEF OnceInv

\* For any number of producers that send an eventId again and of handlers and
\* requests that work on it at once, while operators take turns on each event and
\* nothing fails but the broker: no module's queue ever gets a second copy.
THEOREM PublishedOnce ==
  ASSUME Calm
  PROVE  Spec /\ []TakeTurns => []NoDoublePublish
<1>1. Init => OnceInv
  BY InitOnce
<1>2. OnceInv /\ TakeTurns /\ [Next]_vars => OnceInv'
  BY NextOnce
<1>3. OnceInv => NoDoublePublish
  BY DEF OnceInv
<1>4. QED
  BY <1>1, <1>2, <1>3, PTL DEF Spec

=============================================================================
