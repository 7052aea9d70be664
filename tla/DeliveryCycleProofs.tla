------------------------- MODULE DeliveryCycleProofs -------------------------
(***************************************************************************)
(* Proofs about DeliveryCycle, for any number of deliveries, copies,       *)
(* handlers, scans and operators, any max_attempts and any faults: types,  *)
(* the bound of the attempts and, while requests of operators take turns,  *)
(* that resolved letters are final.                                        *)
(***************************************************************************)
EXTENDS DeliveryCycle, SequenceTheorems, TLAPS

-----------------------------------------------------------------------------
(* The operators the actions are built from return values of their types.  *)

LEMMA WriteTyped ==
  ASSUME NEW seen \in Row, NEW status \in DeliveryStatus, NEW attempts \in Nat,
         NEW next \in BOOLEAN, NEW opens \in BOOLEAN, NEW audited \in BOOLEAN
  PROVE  Write(seen, status, attempts, next, opens, audited) \in Change
  BY DEF Write, Change, Row

LEMMA LoadedTyped ==
  ASSUME NEW r \in Row
  PROVE  Loaded(r) \in Change
  BY WriteTyped DEF Loaded, Row

LEMMA IdleTyped == NoRow \in Row /\ Idle \in Session
<1>1. NoRow \in Row
  BY DEF NoRow, Row, DeliveryStatus
<1>2. QED
  BY <1>1, LoadedTyped DEF Idle, Session, LetterStatus

LEMMA ExhaustTyped ==
  ASSUME NEW r \in Row, NEW attempts \in Nat
  PROVE  exhaust(r, attempts) \in Change
  BY WriteTyped DEF exhaust, DeliveryStatus

LEMMA ScheduleRetryTyped ==
  ASSUME NEW r \in Row, NEW published \in BOOLEAN
  PROVE  schedule_retry(r, published) \in Change
<1>1. "RETRYING" \in DeliveryStatus /\ r.attempts + 1 \in Nat
  BY DEF DeliveryStatus, Row
<1>2. QED
  BY <1>1, WriteTyped DEF schedule_retry

LEMMA DueAttemptTyped ==
  ASSUME NEW r \in Row, NEW published \in BOOLEAN
  PROVE  due_attempt(r, published) \in Change
<1>1. /\ "DELIVERED" \in DeliveryStatus
      /\ r.status \in DeliveryStatus
      /\ r.attempts + 1 \in Nat
  BY DEF DeliveryStatus, Row
<1>2. QED
  BY <1>1, WriteTyped, ExhaustTyped DEF due_attempt

LEMMA ManualTyped ==
  ASSUME NEW r \in Row
  PROVE  republish(r) \in Change /\ discard(r) \in Change
<1>1. {"DELIVERED", "DISCARDED"} \subseteq DeliveryStatus /\ r.attempts \in Nat
  BY DEF DeliveryStatus, Row
<1>2. QED
  BY <1>1, WriteTyped DEF republish, discard

LEMMA FlushTyped ==
  ASSUME NEW r \in Row, NEW ch \in Change
  PROVE  Flush(r, ch) \in Row
  BY DEF Flush, Change, Row

LEMMA FlushLettersTyped ==
  ASSUME DatabaseTyped, NEW s \in Session, NEW d \in Deliveries
  PROVE  FlushLetters(d, s) \in Seq(LetterStatus)
<1> DEFINE resolved == IF s.letter \in DOMAIN letters[d] /\ s.resolve # "OPEN"
                       THEN [letters[d] EXCEPT ![s.letter] = s.resolve]
                       ELSE letters[d]
<1>1. letters[d] \in Seq(LetterStatus) /\ s.resolve \in LetterStatus /\ "OPEN" \in LetterStatus
  BY DEF DatabaseTyped, Session, LetterStatus
<1>2. resolved \in Seq(LetterStatus)
  <2>1. CASE s.letter \in DOMAIN letters[d]
    BY <1>1, <2>1, ExceptSeq
  <2>2. CASE s.letter \notin DOMAIN letters[d]
    BY <1>1, <2>2
  <2>3. QED
    BY <2>1, <2>2
<1>3. QED
  BY <1>1, <1>2 DEF FlushLetters

LEMMA CommitTyped ==
  ASSUME DatabaseTyped, NEW s \in Session, Commit(s)
  PROVE  DatabaseTyped'
<1>1. row' \in [Deliveries -> Row]
  <2>1. \A d \in Deliveries : row[d] \in Row /\ s.change[d] \in Change
    BY DEF DatabaseTyped, Session
  <2>2. \A d \in Deliveries : Flush(row[d], s.change[d]) \in Row
    BY <2>1, FlushTyped
  <2>3. QED
    BY <2>1, <2>2 DEF Commit
<1>2. letters' \in [Deliveries -> Seq(LetterStatus)]
  BY FlushLettersTyped DEF Commit, DatabaseTyped
<1>3. audits' \in [Deliveries -> Nat]
  BY DEF Commit, DatabaseTyped
<1>4. QED
  BY <1>1, <1>2, <1>3 DEF DatabaseTyped

LEMMA FaultTyped ==
  ASSUME faults \in 0..MaxFaults, NEW kind, Fault(kind)
  PROVE  faults' \in 0..MaxFaults
  BY DeliveryCycleAssumption DEF Fault

\* A publish disturbs the copies and the budget of faults, and nothing else
\* of what it is used with.
LEMMA PublishTyped ==
  ASSUME BrokerTyped, BudgetsTyped,
         NEW d \in Deliveries, NEW where \in {"queue", "waiting"}, NEW ok,
         Publish(d, where, ok),
         UNCHANGED <<brokerUp, consumed, dropped, manual>>
  PROVE  BrokerTyped' /\ BudgetsTyped'
<1>1. CASE PutCopy(d, where) /\ faults' \in 0..MaxFaults
  <2>1. PICK c \in Copies : /\ place[c] = "free"
                            /\ place' = [place EXCEPT ![c] = where]
                            /\ target' = [target EXCEPT ![c] = d]
    BY <1>1 DEF PutCopy
  <2>2. where # "free" /\ d # NoDelivery /\ where \in Places
    BY DeliveryCycleAssumption DEF Places
  <2>3. QED
    BY <1>1, <2>1, <2>2 DEF BrokerTyped, BudgetsTyped
<1>2. CASE UNCHANGED <<place, target>> /\ faults' \in 0..MaxFaults
  BY <1>2 DEF BrokerTyped, BudgetsTyped
<1>3. QED
  BY <1>1, <1>2, FaultTyped DEF Publish, BudgetsTyped

LEMMA TakeOutTyped ==
  ASSUME BrokerTyped, NEW h, TakeOut(h),
         UNCHANGED <<brokerUp, consumed>>, dropped' \in [Deliveries -> BOOLEAN]
  PROVE  BrokerTyped'
<1>1. \A k \in Copies : /\ place'[k] = IF k = session[h].copy THEN "free" ELSE place[k]
                        /\ target'[k] = IF k = session[h].copy THEN NoDelivery ELSE target[k]
  BY DEF TakeOut
<1>2. place' \in [Copies -> Places] /\ target' \in [Copies -> Deliveries \cup {NoDelivery}]
  BY DEF TakeOut, BrokerTyped, Places
<1>3. QED
  BY <1>1, <1>2 DEF BrokerTyped

-----------------------------------------------------------------------------
(* One lemma per group of actions: the initial state and every step are    *)
(* well typed.                                                             *)

LEMMA InitTyped == Init => TypeOK
<1> SUFFICES ASSUME Init PROVE TypeOK
  OBVIOUS
<1>1. DatabaseTyped
  BY IdleTyped DEF Init, DatabaseTyped
<1>2. BrokerTyped
  BY DEF Init, BrokerTyped, Places
<1>3. SessionsTyped
  BY IdleTyped DEF Init, SessionsTyped
<1>4. BudgetsTyped
  BY DeliveryCycleAssumption DEF Init, BudgetsTyped
<1>5. QED
  BY <1>1, <1>2, <1>3, <1>4 DEF TypeOK

LEMMA RouteTyped ==
  ASSUME TypeOK, NEW d \in Deliveries, Route(d)
  PROVE  TypeOK'
<1>1. PICK published \in BOOLEAN : /\ Publish(d, "queue", published)
                                   /\ row' = [row EXCEPT ![d] = first_attempt(published)]
  BY DEF Route
<1>2. first_attempt(published) \in Row
  BY DEF first_attempt, Row, DeliveryStatus
<1>3. UNCHANGED <<letters, audits, session, brokerUp, consumed, dropped, manual>>
  BY DEF Route
<1>4. DatabaseTyped' /\ SessionsTyped'
  BY <1>1, <1>2, <1>3 DEF TypeOK, DatabaseTyped, SessionsTyped
<1>5. BrokerTyped' /\ BudgetsTyped'
  BY <1>1, <1>3, PublishTyped DEF TypeOK
<1>6. QED
  BY <1>4, <1>5 DEF TypeOK

LEMMA RabbitMQTyped ==
  ASSUME TypeOK, RabbitMQ
  PROVE  TypeOK'
<1>1. ASSUME NEW c \in Copies, ConsumerAck(c) PROVE TypeOK'
  <2>1. BrokerTyped'
    BY <1>1 DEF ConsumerAck, TypeOK, BrokerTyped, Places
  <2>2. QED
    BY <1>1, <2>1 DEF ConsumerAck, TypeOK, DatabaseTyped, SessionsTyped, BudgetsTyped, database
<1>2. ASSUME NEW c \in Copies, NEW from \in Places, NEW to \in Places,
             from # "free", to # "free", Move(c, from, to)
      PROVE  TypeOK'
  <2>1. BrokerTyped'
    BY <1>2 DEF Move, TypeOK, BrokerTyped
  <2>2. QED
    BY <1>2, <2>1 DEF Move, TypeOK, DatabaseTyped, SessionsTyped, BudgetsTyped, database
<1>3. ASSUME NEW c \in Copies, ConsumerNack(c) \/ TtlExpire(c) PROVE TypeOK'
  BY <1>2, <1>3 DEF ConsumerNack, TtlExpire, Places
<1>4. CASE BrokerDown
  <2>1. SessionsTyped'
    BY <1>4 DEF BrokerDown, TypeOK, SessionsTyped, Session
  <2>2. BrokerTyped' /\ BudgetsTyped'
    BY <1>4, FaultTyped DEF BrokerDown, TypeOK, BrokerTyped, BudgetsTyped
  <2>3. QED
    BY <1>4, <2>1, <2>2 DEF BrokerDown, TypeOK, DatabaseTyped, database
<1>5. CASE BrokerUp
  BY <1>5 DEF BrokerUp, TypeOK, DatabaseTyped, BrokerTyped, SessionsTyped, BudgetsTyped, database
<1>6. QED
  BY <1>1, <1>3, <1>4, <1>5 DEF RabbitMQ

\* What every step of a session does to the sessions: one of them gets a new
\* unit of work, or the one it has moves on.
LEMMA SessionStep ==
  ASSUME SessionsTyped, NEW s \in Sessions, NEW v \in Session,
         session' = [session EXCEPT ![s] = v]
  PROVE  SessionsTyped'
  BY DEF SessionsTyped

LEMMA IdleStep ==
  ASSUME SessionsTyped, NEW s \in Sessions, session' = [session EXCEPT ![s] = Idle]
  PROVE  SessionsTyped'
  BY SessionStep, IdleTyped

LEMMA HandlerTyped ==
  ASSUME TypeOK, NEW h \in DlqHandlers, Handler(h)
  PROVE  TypeOK'
<1> USE DEF TypeOK
<1>0. h \in Sessions /\ session[h] \in Session
  BY DEF Sessions, SessionsTyped
<1>1. ASSUME NEW c \in Copies, HandleDlqMessage(h, c) PROVE TypeOK'
  <2> DEFINE d == target[c]
             exhausted == attempts_exhausted(row[d].attempts)
             change == IF exhausted THEN exhaust(row[d], row[d].attempts) ELSE Loaded(row[d])
             v == [Idle EXCEPT !.pc = IF exhausted THEN "work" ELSE "retry",
                               !.rows = {d}, !.copy = c,
                               !.change = [Idle.change EXCEPT ![d] = change]]
  <2>1. d \in Deliveries
    BY <1>1 DEF HandleDlqMessage, BrokerTyped
  <2>2. row[d] \in Row /\ row[d].attempts \in Nat
    BY <2>1 DEF DatabaseTyped, Row
  <2>3. change \in Change
    BY <2>2, ExhaustTyped, LoadedTyped
  <2>4. v \in Session
    BY <2>1, <2>3, IdleTyped DEF Session
  <2>5. session' = [session EXCEPT ![h] = v]
    BY <1>1 DEF HandleDlqMessage
  <2>6. SessionsTyped'
    BY <1>0, <2>4, <2>5, SessionStep
  <2>7. UNCHANGED <<database, broker, faults, manual>>
    BY <1>1 DEF HandleDlqMessage
  <2>8. QED
    BY <2>6, <2>7 DEF database, broker, DatabaseTyped, BrokerTyped, BudgetsTyped
<1>2. ASSUME NEW d \in Deliveries, ScheduleRetry(h, d) PROVE TypeOK'
  <2>1. PICK published \in BOOLEAN :
          /\ Publish(d, "waiting", published)
          /\ session' = [session EXCEPT
                           ![h].pc = "work",
                           ![h].change[d] = schedule_retry(@.seen, published)]
    BY <1>2 DEF ScheduleRetry
  <2>2. schedule_retry(session[h].change[d].seen, published) \in Change
    BY <1>0, ScheduleRetryTyped DEF Session, Change
  <2>3. SessionsTyped'
    BY <1>0, <2>1, <2>2 DEF SessionsTyped, Session
  <2>4. UNCHANGED <<database, brokerUp, consumed, dropped, manual>>
    BY <1>2 DEF ScheduleRetry
  <2>5. BrokerTyped' /\ BudgetsTyped'
    BY <2>1, <2>4, PublishTyped
  <2>6. QED
    BY <2>3, <2>4, <2>5 DEF database, DatabaseTyped
<1>3. CASE DlqCommit(h)
  <2>1. [Idle EXCEPT !.pc = "ack", !.copy = session[h].copy] \in Session
    BY <1>0, IdleTyped DEF Session
  <2>2. SessionsTyped'
    BY <1>0, <1>3, <2>1, SessionStep DEF DlqCommit
  <2>3. DatabaseTyped'
    BY <1>0, <1>3, CommitTyped DEF DlqCommit
  <2>4. QED
    BY <1>3, <2>2, <2>3 DEF DlqCommit, broker, BrokerTyped, BudgetsTyped
<1>4. CASE DlqAck(h)
  <2>1. BrokerTyped'
    BY <1>4, TakeOutTyped DEF DlqAck, BrokerTyped
  <2>2. QED
    BY <1>0, <1>4, <2>1, IdleStep DEF DlqAck, database, DatabaseTyped, BudgetsTyped
<1>5. CASE DlqCrash(h)
  BY <1>0, <1>5, IdleStep, FaultTyped
     DEF DlqCrash, database, broker, DatabaseTyped, BrokerTyped, BudgetsTyped
<1>6. CASE DlqFail(h)
  <2>1. dropped' \in [Deliveries -> BOOLEAN]
    BY <1>6 DEF DlqFail, BrokerTyped
  <2>2. BrokerTyped'
    BY <1>6, <2>1, TakeOutTyped DEF DlqFail
  <2>3. QED
    BY <1>0, <1>6, <2>2, IdleStep, FaultTyped DEF DlqFail, database, DatabaseTyped, BudgetsTyped
<1>7. QED
  BY <1>1, <1>2, <1>3, <1>4, <1>5, <1>6 DEF Handler

LEMMA RollbackTyped ==
  ASSUME TypeOK, NEW s \in Sessions, Rollback(s)
  PROVE  TypeOK'
<1>1. faults' \in 0..MaxFaults
  BY FaultTyped DEF Rollback, TypeOK, BudgetsTyped
<1>2. QED
  BY <1>1, IdleStep
     DEF Rollback, TypeOK, database, broker, DatabaseTyped, BrokerTyped, BudgetsTyped

LEMMA ScanTyped ==
  ASSUME TypeOK, NEW s \in Scans, Scan(s)
  PROVE  TypeOK'
<1> USE DEF TypeOK
<1>0. s \in Sessions /\ session[s] \in Session
  BY DEF Sessions, SessionsTyped
<1>1. CASE DueRead(s)
  <2>1. PICK batch \in SUBSET Deliveries :
          session' = [session EXCEPT ![s] =
            [Idle EXCEPT !.pc = "work", !.rows = batch, !.todo = batch,
                         !.change = [d \in Deliveries |->
                                       Loaded(IF d \in batch THEN row[d] ELSE NoRow)]]]
    BY <1>1 DEF DueRead
  <2>2. \A d \in Deliveries : Loaded(IF d \in batch THEN row[d] ELSE NoRow) \in Change
    BY LoadedTyped, IdleTyped DEF DatabaseTyped
  <2>3. [Idle EXCEPT !.pc = "work", !.rows = batch, !.todo = batch,
                     !.change = [d \in Deliveries |->
                                   Loaded(IF d \in batch THEN row[d] ELSE NoRow)]] \in Session
    BY <2>2, IdleTyped DEF Session
  <2>4. SessionsTyped'
    BY <1>0, <2>1, <2>3, SessionStep
  <2>5. QED
    BY <1>1, <2>4 DEF DueRead, database, broker, DatabaseTyped, BrokerTyped, BudgetsTyped
<1>2. ASSUME NEW d \in Deliveries, DuePublish(s, d) PROVE TypeOK'
  <2>1. PICK published \in BOOLEAN :
          /\ Publish(d, "queue", published)
          /\ session' = [session EXCEPT
                           ![s].todo = @ \ {d},
                           ![s].change[d] = due_attempt(@.seen, published)]
    BY <1>2 DEF DuePublish
  <2>2. due_attempt(session[s].change[d].seen, published) \in Change
    BY <1>0, DueAttemptTyped DEF Session, Change
  <2>3. SessionsTyped'
    BY <1>0, <2>1, <2>2 DEF SessionsTyped, Session
  <2>4. UNCHANGED <<database, brokerUp, consumed, dropped, manual>>
    BY <1>2 DEF DuePublish
  <2>5. BrokerTyped' /\ BudgetsTyped'
    BY <2>1, <2>4, PublishTyped
  <2>6. QED
    BY <2>3, <2>4, <2>5 DEF database, DatabaseTyped
<1>3. CASE DueCommit(s)
  <2>1. DatabaseTyped'
    BY <1>0, <1>3, CommitTyped DEF DueCommit
  <2>2. QED
    BY <1>0, <1>3, <2>1, IdleStep DEF DueCommit, broker, BrokerTyped, BudgetsTyped
<1>4. QED
  BY <1>0, <1>1, <1>2, <1>3, RollbackTyped DEF Scan

LEMMA OperatorTyped ==
  ASSUME TypeOK, NEW o \in Operators, Operator(o)
  PROVE  TypeOK'
<1> USE DEF TypeOK
<1>0. o \in Sessions /\ session[o] \in Session
  BY DEF Sessions, SessionsTyped
<1>1. ASSUME NEW d \in Deliveries, NEW i \in DOMAIN letters[d],
             NEW request \in {"retry", "discard"}, OpenRequest(o, d, i, request)
      PROVE  TypeOK'
  <2>1. letters[d] \in Seq(LetterStatus)
    BY DEF DatabaseTyped
  <2>2. i \in Nat
    BY <2>1
  <2>3. [Idle EXCEPT !.pc = request, !.rows = {d}, !.letter = i] \in Session
    BY <2>2, IdleTyped DEF Session
  <2>4. SessionsTyped'
    BY <1>0, <1>1, <2>3, SessionStep DEF OpenRequest
  <2>5. BudgetsTyped'
    BY <1>1, DeliveryCycleAssumption DEF OpenRequest, BudgetsTyped
  <2>6. QED
    BY <1>1, <2>4, <2>5 DEF OpenRequest, database, broker, DatabaseTyped, BrokerTyped
<1>2. ASSUME NEW d \in Deliveries, RetryPublish(o, d) PROVE TypeOK'
  <2>1. PICK published \in BOOLEAN :
          /\ Publish(d, "queue", published)
          /\ session' = [session EXCEPT
               ![o].pc = "work",
               ![o].resolve = IF published THEN "RETRIED" ELSE "OPEN",
               ![o].change[d] = IF published THEN republish(row[d]) ELSE @]
    BY <1>2 DEF RetryPublish
  <2>2. republish(row[d]) \in Change
    BY ManualTyped DEF DatabaseTyped
  <2>3. SessionsTyped'
    BY <1>0, <2>1, <2>2 DEF SessionsTyped, Session, LetterStatus
  <2>4. UNCHANGED <<database, brokerUp, consumed, dropped, manual>>
    BY <1>2 DEF RetryPublish
  <2>5. BrokerTyped' /\ BudgetsTyped'
    BY <2>1, <2>4, PublishTyped
  <2>6. QED
    BY <2>3, <2>4, <2>5 DEF database, DatabaseTyped
<1>3. ASSUME NEW d \in Deliveries, DiscardLoad(o, d) PROVE TypeOK'
  <2>1. discard(row[d]) \in Change
    BY ManualTyped DEF DatabaseTyped
  <2>2. SessionsTyped'
    BY <1>0, <1>3, <2>1 DEF DiscardLoad, SessionsTyped, Session, LetterStatus
  <2>3. QED
    BY <1>3, <2>2 DEF DiscardLoad, database, broker, DatabaseTyped, BrokerTyped, BudgetsTyped
<1>4. CASE RequestCommit(o)
  <2>1. DatabaseTyped'
    BY <1>0, <1>4, CommitTyped DEF RequestCommit
  <2>2. QED
    BY <1>0, <1>4, <2>1, IdleStep DEF RequestCommit, broker, BrokerTyped, BudgetsTyped
<1>5. QED
  BY <1>0, <1>1, <1>2, <1>3, <1>4, RollbackTyped DEF Operator

LEMMA StepTyped == TypeOK /\ [Next]_vars => TypeOK'
<1> SUFFICES ASSUME TypeOK, [Next]_vars PROVE TypeOK'
  OBVIOUS
<1>1. CASE Next
  BY <1>1, RouteTyped, RabbitMQTyped, HandlerTyped, ScanTyped, OperatorTyped DEF Next
<1>2. CASE UNCHANGED vars
  BY <1>2 DEF vars, database, broker, TypeOK, DatabaseTyped, BrokerTyped, SessionsTyped,
              BudgetsTyped
<1>3. QED
  BY <1>1, <1>2

-----------------------------------------------------------------------------
\* The database, the broker and the sessions keep their types, whatever
\* sessions overlap, are rolled back or die, and a copy of a message has a
\* target exactly while RabbitMQ holds it.
THEOREM TypeCorrect == Spec => []TypeOK
<1>1. QED
  BY InitTyped, StepTyped, PTL DEF Spec

-----------------------------------------------------------------------------
(* The bound on the attempts.  AttemptsBounded alone is not inductive: a   *)
(* commit takes some columns from the session and the others from whoever  *)
(* committed in between, so SessionsBounded says what sessions may write.  *)

LEMMA FlushBounded ==
  ASSUME NEW r \in Row, RowBounded(r), NEW ch \in Change, ChangeBounded(ch)
  PROVE  RowBounded(Flush(r, ch))
<1>1. /\ ch.new.attempts \in Nat /\ ch.seen.attempts \in Nat /\ r.attempts \in Nat
      /\ ch.new.next \in BOOLEAN /\ ch.seen.next \in BOOLEAN /\ r.next \in BOOLEAN
  BY DEF Change, Row
<1>2. CASE ch.new.attempts # ch.seen.attempts
  BY <1>1, <1>2, DeliveryCycleAssumption DEF RowBounded, ChangeBounded, Flush
<1>3. CASE ch.new.attempts = ch.seen.attempts
  BY <1>1, <1>3, DeliveryCycleAssumption DEF RowBounded, ChangeBounded, Flush
<1>4. QED
  BY <1>2, <1>3

LEMMA ExhaustBounded ==
  ASSUME NEW r \in Row, NEW attempts \in Nat,
         attempts = r.attempts \/ (r.next /\ attempts <= MaxAttempts + 1)
  PROVE  ChangeBounded(exhaust(r, attempts))
  BY DEF ChangeBounded, exhaust, Write

LEMMA ScheduleRetryBounded ==
  ASSUME NEW r \in Row, NEW published \in BOOLEAN, ~attempts_exhausted(r.attempts)
  PROVE  ChangeBounded(schedule_retry(r, published))
<1>1. r.attempts \in Nat /\ r.attempts < MaxAttempts
  BY DeliveryCycleAssumption DEF Row, attempts_exhausted
<1>2. QED
  BY <1>1, DeliveryCycleAssumption DEF ChangeBounded, schedule_retry, Write

LEMMA DueAttemptBounded ==
  ASSUME NEW r \in Row, NEW published \in BOOLEAN, r.next, RowBounded(r)
  PROVE  ChangeBounded(due_attempt(r, published))
<1>1. r.attempts \in Nat /\ r.attempts <= MaxAttempts
  BY DEF Row, RowBounded
<1>2. CASE published
  BY <1>1, <1>2, DeliveryCycleAssumption DEF ChangeBounded, due_attempt, Write
<1>3. CASE ~published /\ attempts_exhausted(r.attempts + 1)
  <2>1. due_attempt(r, published) = exhaust(r, r.attempts + 1)
    BY <1>3 DEF due_attempt
  <2>2. QED
    BY <1>1, <2>1, ExhaustBounded, DeliveryCycleAssumption
<1>4. CASE ~published /\ ~attempts_exhausted(r.attempts + 1)
  BY <1>1, <1>4, DeliveryCycleAssumption
     DEF ChangeBounded, due_attempt, Write, attempts_exhausted
<1>5. QED
  BY <1>2, <1>3, <1>4

LEMMA ManualBounded ==
  ASSUME NEW r \in Row
  PROVE  ChangeBounded(republish(r)) /\ ChangeBounded(discard(r))
<1>1. r.attempts \in Nat
  BY DEF Row
<1>2. QED
  BY <1>1, DeliveryCycleAssumption DEF ChangeBounded, republish, discard, Write

LEMMA UntouchedBounded == ChangeBounded(Loaded(NoRow))
  BY DEF ChangeBounded, Loaded, Write, NoRow

\* The commit of a session whose changes are bounded.
LEMMA CommitBounded ==
  ASSUME TypeOK, AttemptsBounded, NEW s \in Session, Commit(s),
         \A d \in s.rows : ChangeBounded(s.change[d])
  PROVE  AttemptsBounded'
<1> SUFFICES ASSUME NEW d \in Deliveries PROVE RowBounded(row'[d])
  BY DEF AttemptsBounded, RowBounded
<1>1. row[d] \in Row /\ RowBounded(row[d]) /\ s.change[d] \in Change
  BY DEF TypeOK, DatabaseTyped, AttemptsBounded, Session
<1>2. row'[d] = IF d \in s.rows THEN Flush(row[d], s.change[d]) ELSE row[d]
  BY DEF Commit
<1>3. QED
  BY <1>1, <1>2, FlushBounded

\* A step that gives session s the unit of work v.
LEMMA BoundedStep ==
  ASSUME TypeOK, SessionsBounded, NEW s \in Sessions, NEW v,
         session' = [session EXCEPT ![s] = v], WorkBounded(s, v)
  PROVE  SessionsBounded'
<1>1. \A t \in Sessions : session'[t] = IF t = s THEN v ELSE session[t]
  BY DEF TypeOK, SessionsTyped
<1>2. \A t \in Sessions : WorkBounded(t, session'[t])
  BY <1>1 DEF SessionsBounded
<1>3. QED
  BY <1>2 DEF SessionsBounded, WorkBounded, ChangeBounded, RowBounded, attempts_exhausted

\* Releasing the rows leaves nothing to bound.
LEMMA ReleaseBounded ==
  ASSUME TypeOK, SessionsBounded, NEW s \in Sessions, NEW v, v.rows = {},
         session' = [session EXCEPT ![s] = v]
  PROVE  SessionsBounded'
  BY BoundedStep DEF WorkBounded

Bounded == TypeOK /\ AttemptsBounded /\ SessionsBounded

LEMMA InitBounded == Init => Bounded
<1> SUFFICES ASSUME Init PROVE Bounded
  OBVIOUS
<1>1. AttemptsBounded
  BY DeliveryCycleAssumption DEF Init, AttemptsBounded, RowBounded, NoRow
<1>2. SessionsBounded
  BY DEF Init, SessionsBounded, WorkBounded, Idle
<1>3. QED
  BY <1>1, <1>2, InitTyped DEF Bounded

LEMMA RouteBounded ==
  ASSUME Bounded, NEW d \in Deliveries, Route(d)
  PROVE  AttemptsBounded' /\ SessionsBounded'
<1>1. PICK published \in BOOLEAN : row' = [row EXCEPT ![d] = first_attempt(published)]
  BY DEF Route
<1>2. RowBounded(first_attempt(published))
  BY DeliveryCycleAssumption DEF RowBounded, first_attempt
<1>3. AttemptsBounded'
  BY <1>1, <1>2 DEF Bounded, AttemptsBounded, RowBounded, TypeOK, DatabaseTyped
<1>4. SessionsBounded'
  BY DEF Route, Bounded, SessionsBounded, WorkBounded, ChangeBounded, RowBounded, attempts_exhausted
<1>5. QED
  BY <1>3, <1>4

LEMMA RabbitMQBounded ==
  ASSUME Bounded, RabbitMQ
  PROVE  AttemptsBounded' /\ SessionsBounded'
<1>1. UNCHANGED row
  BY DEF RabbitMQ, ConsumerAck, ConsumerNack, TtlExpire, Move, BrokerDown, BrokerUp, database
<1>2. \A s \in Sessions : /\ session'[s].pc = session[s].pc
                          /\ session'[s].rows = session[s].rows
                          /\ session'[s].todo = session[s].todo
                          /\ session'[s].change = session[s].change
  <2>1. CASE BrokerDown
    BY <2>1 DEF BrokerDown, Bounded, TypeOK, SessionsTyped, Session
  <2>2. CASE UNCHANGED session
    BY <2>2
  <2>3. QED
    BY <2>1, <2>2 DEF RabbitMQ, ConsumerAck, ConsumerNack, TtlExpire, Move, BrokerUp
<1>3. AttemptsBounded'
  BY <1>1 DEF Bounded, AttemptsBounded, RowBounded
<1>4. SessionsBounded'
  BY <1>2 DEF Bounded, SessionsBounded, WorkBounded, ChangeBounded, RowBounded, attempts_exhausted
<1>5. QED
  BY <1>3, <1>4

LEMMA HandlerBounded ==
  ASSUME Bounded, NEW h \in DlqHandlers, Handler(h)
  PROVE  AttemptsBounded' /\ SessionsBounded'
<1> USE DEF Bounded
<1>0. /\ h \in Sessions /\ session[h] \in Session
      /\ h \notin Scans
      /\ WorkBounded(h, session[h])
  BY DeliveryCycleAssumption DEF Sessions, TypeOK, SessionsTyped, SessionsBounded
<1>a. ASSUME UNCHANGED row PROVE AttemptsBounded'
  BY <1>a DEF AttemptsBounded, RowBounded
<1>1. ASSUME NEW c \in Copies, HandleDlqMessage(h, c) PROVE AttemptsBounded' /\ SessionsBounded'
  <2> DEFINE d == target[c]
             exhausted == attempts_exhausted(row[d].attempts)
             change == IF exhausted THEN exhaust(row[d], row[d].attempts) ELSE Loaded(row[d])
             v == [Idle EXCEPT !.pc = IF exhausted THEN "work" ELSE "retry",
                               !.rows = {d}, !.copy = c,
                               !.change = [Idle.change EXCEPT ![d] = change]]
  <2>1. d \in Deliveries
    BY <1>1 DEF HandleDlqMessage, TypeOK, BrokerTyped
  <2>2. row[d] \in Row /\ row[d].attempts \in Nat
    BY <2>1 DEF TypeOK, DatabaseTyped, Row
  <2>3. session' = [session EXCEPT ![h] = v]
    BY <1>1 DEF HandleDlqMessage
  <2>4. /\ v.pc = IF exhausted THEN "work" ELSE "retry"
        /\ v.rows = {d}
        /\ v.change[d] = change
    BY <2>1 DEF Idle
  <2>5. exhausted => ChangeBounded(change)
    BY <2>2, ExhaustBounded
  <2>6. ~exhausted => change.seen = row[d]
    BY DEF Loaded, Write
  <2>7. WorkBounded(h, v)
    BY <1>0, <2>4, <2>5, <2>6 DEF WorkBounded
  <2>8. QED
    BY <1>0, <1>1, <1>a, <2>3, <2>7, BoundedStep DEF HandleDlqMessage, database
<1>2. ASSUME NEW d \in Deliveries, ScheduleRetry(h, d) PROVE AttemptsBounded' /\ SessionsBounded'
  <2>1. PICK published \in BOOLEAN :
          session' = [session EXCEPT
                        ![h].pc = "work",
                        ![h].change[d] = schedule_retry(@.seen, published)]
    BY <1>2 DEF ScheduleRetry
  <2> DEFINE v == [session[h] EXCEPT !.pc = "work",
                                     !.change[d] = schedule_retry(@.seen, published)]
  <2>2. session' = [session EXCEPT ![h] = v]
    BY <1>0, <2>1 DEF TypeOK, SessionsTyped, Session
  <2>3. /\ v.pc = "work" /\ v.rows = session[h].rows
        /\ v.change[d] = schedule_retry(session[h].change[d].seen, published)
    BY <1>0 DEF Session
  <2>4. session[h].change[d].seen \in Row
    BY <1>0 DEF Session, Change
  <2>5. session[h].pc = "retry" /\ d \in session[h].rows
    BY <1>2 DEF ScheduleRetry
  <2>6. session[h].rows = {d} /\ ~attempts_exhausted(session[h].change[d].seen.attempts)
    BY <1>0, <2>5 DEF WorkBounded
  <2>7. ChangeBounded(v.change[d])
    BY <2>3, <2>4, <2>6, ScheduleRetryBounded
  <2>8. WorkBounded(h, v)
    BY <1>0, <2>3, <2>6, <2>7 DEF WorkBounded
  <2>9. QED
    BY <1>0, <1>2, <1>a, <2>2, <2>8, BoundedStep DEF ScheduleRetry, database
<1>3. CASE DlqCommit(h)
  <2>1. session[h].pc = "work" /\ Commit(session[h])
    BY <1>3 DEF DlqCommit
  <2>2. \A d \in session[h].rows : ChangeBounded(session[h].change[d])
    BY <1>0, <2>1 DEF WorkBounded
  <2>3. AttemptsBounded'
    BY <1>0, <2>1, <2>2, CommitBounded
  <2>4. [Idle EXCEPT !.pc = "ack", !.copy = session[h].copy].rows = {}
    BY DEF Idle
  <2>5. SessionsBounded'
    BY <1>0, <1>3, <2>4, ReleaseBounded DEF DlqCommit
  <2>6. QED
    BY <2>3, <2>5
<1>4. CASE DlqAck(h) \/ DlqCrash(h) \/ DlqFail(h)
  <2>1. Idle.rows = {}
    BY DEF Idle
  <2>2. QED
    BY <1>0, <1>4, <1>a, <2>1, ReleaseBounded DEF DlqAck, DlqCrash, DlqFail, database
<1>5. QED
  BY <1>1, <1>2, <1>3, <1>4 DEF Handler

LEMMA RollbackBounded ==
  ASSUME Bounded, NEW s \in Sessions, Rollback(s)
  PROVE  AttemptsBounded' /\ SessionsBounded'
<1>1. Idle.rows = {}
  BY DEF Idle
<1>2. SessionsBounded'
  BY <1>1, ReleaseBounded DEF Rollback, Bounded
<1>3. AttemptsBounded'
  BY DEF Rollback, database, Bounded, AttemptsBounded, RowBounded
<1>4. QED
  BY <1>2, <1>3

LEMMA ScanBounded ==
  ASSUME Bounded, NEW s \in Scans, Scan(s)
  PROVE  AttemptsBounded' /\ SessionsBounded'
<1> USE DEF Bounded
<1>0. /\ s \in Sessions /\ session[s] \in Session
      /\ s \notin DlqHandlers
      /\ WorkBounded(s, session[s])
  BY DeliveryCycleAssumption DEF Sessions, TypeOK, SessionsTyped, SessionsBounded
<1>a. ASSUME UNCHANGED row PROVE AttemptsBounded'
  BY <1>a DEF AttemptsBounded, RowBounded
<1>1. CASE DueRead(s)
  <2>1. PICK batch \in SUBSET {d \in Deliveries : Due(d) /\ MayLoad(d)} :
          session' = [session EXCEPT ![s] =
            [Idle EXCEPT !.pc = "work", !.rows = batch, !.todo = batch,
                         !.change = [d \in Deliveries |->
                                       Loaded(IF d \in batch THEN row[d] ELSE NoRow)]]]
    BY <1>1 DEF DueRead
  <2> DEFINE v == [Idle EXCEPT !.pc = "work", !.rows = batch, !.todo = batch,
                               !.change = [d \in Deliveries |->
                                             Loaded(IF d \in batch THEN row[d] ELSE NoRow)]]
  <2>2. /\ v.rows = batch /\ v.todo = batch
        /\ \A d \in batch : v.change[d].seen = row[d]
    BY <2>1 DEF Idle, Loaded, Write
  <2>3. \A d \in batch : row[d].next /\ RowBounded(row[d])
    BY <2>1 DEF Due, AttemptsBounded
  <2>4. WorkBounded(s, v)
    BY <1>0, <2>2, <2>3 DEF WorkBounded
  <2>5. QED
    BY <1>0, <1>1, <1>a, <2>1, <2>4, BoundedStep DEF DueRead, database
<1>2. ASSUME NEW d \in Deliveries, DuePublish(s, d) PROVE AttemptsBounded' /\ SessionsBounded'
  <2>1. PICK published \in BOOLEAN :
          session' = [session EXCEPT
                        ![s].todo = @ \ {d},
                        ![s].change[d] = due_attempt(@.seen, published)]
    BY <1>2 DEF DuePublish
  <2> DEFINE v == [session[s] EXCEPT !.todo = @ \ {d},
                                     !.change[d] = due_attempt(@.seen, published)]
  <2>2. session' = [session EXCEPT ![s] = v]
    BY <1>0, <2>1 DEF TypeOK, SessionsTyped, Session
  <2>3. /\ v.rows = session[s].rows /\ v.todo = session[s].todo \ {d}
        /\ v.change[d] = due_attempt(session[s].change[d].seen, published)
        /\ \A e \in Deliveries \ {d} : v.change[e] = session[s].change[e]
    BY <1>0 DEF Session
  <2>4. ASSUME NEW e \in v.rows
        PROVE  IF e \in v.todo THEN v.change[e].seen.next /\ RowBounded(v.change[e].seen)
               ELSE ChangeBounded(v.change[e])
    <3>1. e \in Deliveries /\ e \in session[s].rows
      BY <1>0, <2>3, <2>4 DEF Session
    <3>2. CASE e # d
      BY <1>0, <2>3, <3>1, <3>2 DEF WorkBounded
    <3>3. CASE e = d
      <4>1. session[s].change[d].seen \in Row
        BY <1>0 DEF Session, Change
      <4>2. session[s].change[d].seen.next /\ RowBounded(session[s].change[d].seen)
        BY <1>0, <1>2, <3>1, <3>3 DEF DuePublish, WorkBounded
      <4>3. QED
        BY <2>3, <3>3, <4>1, <4>2, DueAttemptBounded
    <3>4. QED
      BY <3>2, <3>3
  <2>5. WorkBounded(s, v)
    BY <1>0, <2>4 DEF WorkBounded
  <2>6. QED
    BY <1>0, <1>2, <1>a, <2>2, <2>5, BoundedStep DEF DuePublish, database
<1>3. CASE DueCommit(s)
  <2>1. session[s].todo = {} /\ Commit(session[s])
    BY <1>3 DEF DueCommit
  <2>2. \A d \in session[s].rows : ChangeBounded(session[s].change[d])
    BY <1>0, <2>1 DEF WorkBounded
  <2>3. AttemptsBounded'
    BY <1>0, <2>1, <2>2, CommitBounded
  <2>4. SessionsBounded'
    BY <1>0, <1>3, ReleaseBounded DEF DueCommit, Idle
  <2>5. QED
    BY <2>3, <2>4
<1>4. QED
  BY <1>0, <1>1, <1>2, <1>3, RollbackBounded DEF Scan

LEMMA OperatorBounded ==
  ASSUME Bounded, NEW o \in Operators, Operator(o)
  PROVE  AttemptsBounded' /\ SessionsBounded'
<1> USE DEF Bounded
<1>0. /\ o \in Sessions /\ session[o] \in Session
      /\ o \notin DlqHandlers /\ o \notin Scans
      /\ WorkBounded(o, session[o])
  BY DeliveryCycleAssumption DEF Sessions, TypeOK, SessionsTyped, SessionsBounded
<1>a. ASSUME UNCHANGED row PROVE AttemptsBounded'
  BY <1>a DEF AttemptsBounded, RowBounded
<1>1. ASSUME NEW d \in Deliveries, NEW i \in DOMAIN letters[d],
             NEW request \in {"retry", "discard"}, OpenRequest(o, d, i, request)
      PROVE  AttemptsBounded' /\ SessionsBounded'
  <2> DEFINE v == [Idle EXCEPT !.pc = request, !.rows = {d}, !.letter = i]
  <2>1. session' = [session EXCEPT ![o] = v]
    BY <1>1 DEF OpenRequest
  <2>2. v.rows = {d} /\ v.change[d] = Loaded(NoRow)
    BY DEF Idle
  <2>3. WorkBounded(o, v)
    BY <1>0, <2>2, UntouchedBounded DEF WorkBounded
  <2>4. QED
    BY <1>0, <1>1, <1>a, <2>1, <2>3, BoundedStep DEF OpenRequest, database
<1>2. ASSUME NEW d \in Deliveries, RetryPublish(o, d) PROVE AttemptsBounded' /\ SessionsBounded'
  <2>1. PICK published \in BOOLEAN :
          session' = [session EXCEPT
               ![o].pc = "work",
               ![o].resolve = IF published THEN "RETRIED" ELSE "OPEN",
               ![o].change[d] = IF published THEN republish(row[d]) ELSE @]
    BY <1>2 DEF RetryPublish
  <2> DEFINE ch == IF published THEN republish(row[d]) ELSE session[o].change[d]
             v == [session[o] EXCEPT !.pc = "work",
                                     !.resolve = IF published THEN "RETRIED" ELSE "OPEN",
                                     !.change[d] = ch]
  <2>2. d \in session[o].rows /\ UNCHANGED row
    BY <1>2 DEF RetryPublish, database
  <2>3. ChangeBounded(ch)
    <3>1. row[d] \in Row
      BY DEF TypeOK, DatabaseTyped
    <3>2. ChangeBounded(session[o].change[d])
      BY <1>0, <2>2 DEF WorkBounded
    <3>3. QED
      BY <3>1, <3>2, ManualBounded
  <2>4. session' = [session EXCEPT ![o] = v]
    BY <1>0, <2>1 DEF TypeOK, SessionsTyped, Session
  <2>5. /\ v.rows = session[o].rows
        /\ \A e \in v.rows : v.change[e] = IF e = d THEN ch ELSE session[o].change[e]
    BY <1>0 DEF Session
  <2>6. WorkBounded(o, v)
    BY <1>0, <2>3, <2>5 DEF WorkBounded
  <2>7. SessionsBounded'
    BY <1>0, <2>4, <2>6, BoundedStep
  <2>8. QED
    BY <1>a, <2>2, <2>7
<1>3. ASSUME NEW d \in Deliveries, DiscardLoad(o, d) PROVE AttemptsBounded' /\ SessionsBounded'
  <2> DEFINE ch == discard(row[d])
             v == [session[o] EXCEPT !.pc = "work", !.resolve = "DISCARDED", !.change[d] = ch]
  <2>1. ChangeBounded(ch)
    BY ManualBounded DEF TypeOK, DatabaseTyped
  <2>2. session' = [session EXCEPT ![o] = v]
    BY <1>0, <1>3 DEF DiscardLoad, TypeOK, SessionsTyped, Session
  <2>3. /\ v.rows = session[o].rows
        /\ \A e \in v.rows : v.change[e] = IF e = d THEN ch ELSE session[o].change[e]
    BY <1>0 DEF Session
  <2>4. WorkBounded(o, v)
    BY <1>0, <2>1, <2>3 DEF WorkBounded
  <2>5. SessionsBounded'
    BY <1>0, <2>2, <2>4, BoundedStep
  <2>6. QED
    BY <1>3, <1>a, <2>5 DEF DiscardLoad, database
<1>4. CASE RequestCommit(o)
  <2>1. Commit(session[o])
    BY <1>4 DEF RequestCommit
  <2>2. \A d \in session[o].rows : ChangeBounded(session[o].change[d])
    BY <1>0 DEF WorkBounded
  <2>3. AttemptsBounded'
    BY <1>0, <2>1, <2>2, CommitBounded
  <2>4. SessionsBounded'
    BY <1>0, <1>4, ReleaseBounded DEF RequestCommit, Idle
  <2>5. QED
    BY <2>3, <2>4
<1>5. QED
  BY <1>0, <1>1, <1>2, <1>3, <1>4, RollbackBounded DEF Operator

LEMMA StepBounded == Bounded /\ [Next]_vars => Bounded'
<1> SUFFICES ASSUME Bounded, [Next]_vars PROVE AttemptsBounded' /\ SessionsBounded'
  BY StepTyped DEF Bounded
<1>1. CASE Next
  BY <1>1, RouteBounded, RabbitMQBounded, HandlerBounded, ScanBounded, OperatorBounded DEF Next
<1>2. CASE UNCHANGED vars
  BY <1>2 DEF vars, database, Bounded, AttemptsBounded, SessionsBounded, WorkBounded,
              ChangeBounded, RowBounded, attempts_exhausted
<1>3. QED
  BY <1>1, <1>2

-----------------------------------------------------------------------------
\* No delivery is attempted more than max_attempts + 1 times between manual
\* retries, and no delivery stays scheduled past max_attempts, for any number
\* of handlers, scans and operators whose transactions overwrite each other.
THEOREM AttemptsStayBounded == Spec => []AttemptsBounded
<1>1. Bounded => AttemptsBounded
  BY DEF Bounded
<1>2. QED
  BY <1>1, InitBounded, StepBounded, PTL DEF Spec

-----------------------------------------------------------------------------
(* What the operators the actions are built from return.                   *)

LEMMA KindsDisjoint ==
  /\ \A h \in DlqHandlers : h \in Sessions /\ h \notin Operators
  /\ \A s \in Scans : s \in Sessions /\ s \notin Operators /\ s \notin DlqHandlers
  /\ \A o \in Operators : o \in Sessions /\ o \notin DlqHandlers
BY DeliveryCycleAssumption DEF Sessions

LEMMA ExhaustKeeps ==
  ASSUME NEW r, NEW attempts
  PROVE  exhaust(r, attempts).opens /\ exhaust(r, attempts).new.status = "DEAD"
BY DEF exhaust, Write

LEMMA LoadedKeeps ==
  ASSUME NEW r \in Row
  PROVE  KeepsDue(Loaded(r)) /\ Loaded(r).new.status = Loaded(r).seen.status
<1>1. Loaded(r).seen = r /\ Loaded(r).new.status = r.status
  BY DEF Loaded, Write
<1>2. Loaded(r).new.next <=> r.next
  BY DEF Loaded, Write
<1>3. QED
  BY <1>1, <1>2 DEF KeepsDue

LEMMA RetryKeeps ==
  ASSUME NEW r \in Row, NEW published \in BOOLEAN
  PROVE  /\ schedule_retry(r, published).new.status = "RETRYING"
         /\ ~published => KeepsDue(schedule_retry(r, published))
<1>1. schedule_retry(r, published).new.status = "RETRYING"
  BY DEF schedule_retry, Write
<1>2. schedule_retry(r, published).new.next <=> ~published
  BY DEF schedule_retry, Write
<1>3. QED
  BY <1>1, <1>2 DEF KeepsDue

LEMMA DueKeeps ==
  ASSUME NEW r \in Row, NEW published \in BOOLEAN
  PROVE  /\ LET ch == due_attempt(r, published)
            IN  ch.new.status = "NONE" => ch.seen.status = "NONE"
         /\ ~published => KeepsDue(due_attempt(r, published))
<1>1. CASE published
  BY <1>1 DEF due_attempt, Write
<1>2. CASE ~published /\ attempts_exhausted(r.attempts + 1)
  BY <1>2, ExhaustKeeps DEF due_attempt, KeepsDue
<1>3. CASE ~published /\ ~attempts_exhausted(r.attempts + 1)
  <2>1. due_attempt(r, published) = Write(r, r.status, r.attempts + 1, TRUE, FALSE, FALSE)
    BY <1>3 DEF due_attempt
  <2>2. PICK ch : ch = Write(r, r.status, r.attempts + 1, TRUE, FALSE, FALSE)
    OBVIOUS
  <2>3. ch.new.status = r.status /\ ch.seen.status = r.status /\ ch.new.next
    BY <2>2 DEF Write
  <2>4. QED
    BY <2>1, <2>2, <2>3 DEF KeepsDue
<1>4. QED
  BY <1>1, <1>2, <1>3

LEMMA ManualKeeps ==
  ASSUME NEW r
  PROVE  republish(r).new.status = "DELIVERED" /\ discard(r).new.status = "DISCARDED"
BY DEF republish, discard, Write

LEMMA ExhaustFields ==
  ASSUME NEW r, NEW attempts
  PROVE  /\ exhaust(r, attempts).seen = r /\ exhaust(r, attempts).new.status = "DEAD"
         /\ exhaust(r, attempts).opens
BY DEF exhaust, Write

LEMMA LoadedFields ==
  ASSUME NEW r
  PROVE  Loaded(r).seen = r /\ Loaded(r).new.status = r.status /\ ~Loaded(r).opens
BY DEF Loaded, Write

LEMMA ManualFields ==
  ASSUME NEW r
  PROVE  /\ republish(r).seen = r /\ republish(r).new.status = "DELIVERED" /\ ~republish(r).opens
         /\ discard(r).seen = r /\ discard(r).new.status = "DISCARDED" /\ ~discard(r).opens
BY DEF republish, discard, Write

LEMMA ScheduleFields ==
  ASSUME NEW r, NEW published \in BOOLEAN
  PROVE  LET ch == schedule_retry(r, published) IN
           ch.seen = r /\ ch.new.status = "RETRYING" /\ ~ch.opens /\ (ch.new.next <=> ~published)
BY DEF schedule_retry, Write

LEMMA DueFields ==
  ASSUME NEW r, NEW published \in BOOLEAN
  PROVE  LET ch == due_attempt(r, published) IN
           /\ ch.seen = r
           /\ published => ch.new.status = "DELIVERED" /\ ~ch.opens
           /\ ~published => \/ ch.new.status = "DEAD" /\ ch.opens
                            \/ ch.new.status = r.status /\ ~ch.opens
<1>1. CASE published
  BY <1>1 DEF due_attempt, Write
<1>2. CASE ~published /\ attempts_exhausted(r.attempts + 1)
  BY <1>2 DEF due_attempt, exhaust, Write
<1>3. CASE ~published /\ ~attempts_exhausted(r.attempts + 1)
  BY <1>3 DEF due_attempt, Write
<1>4. QED
  BY <1>1, <1>2, <1>3

LEMMA FlushFields ==
  ASSUME NEW r, NEW ch
  PROVE  /\ Flush(r, ch).status = IF ch.new.status # ch.seen.status THEN ch.new.status ELSE r.status
         /\ Flush(r, ch).next <=> IF ch.seen.next \/ ch.new.next THEN ch.new.next ELSE r.next
BY DEF Flush

\* What a commit makes of the dead letters of a delivery.
LEMMA LettersFlushed ==
  ASSUME DatabaseTyped, NEW w \in Session, NEW d \in Deliveries
  PROVE  /\ \A i \in DOMAIN letters[d] :
              /\ i \in DOMAIN FlushLetters(d, w)
              /\ FlushLetters(d, w)[i] = IF i = w.letter /\ w.resolve # "OPEN" THEN w.resolve
                                         ELSE letters[d][i]
         /\ w.change[d].opens => \E n \in DOMAIN FlushLetters(d, w) :
                                   FlushLetters(d, w)[n] = "OPEN" /\ n \notin DOMAIN letters[d]
         /\ letters[d] = <<>> /\ ~w.change[d].opens => FlushLetters(d, w) = <<>>
<1>1. PICK old, new :
        /\ old = letters[d]
        /\ new = IF w.letter \in DOMAIN old /\ w.resolve # "OPEN"
                 THEN [old EXCEPT ![w.letter] = w.resolve] ELSE old
  OBVIOUS
<1>2. old \in Seq(LetterStatus) /\ w.resolve \in LetterStatus /\ "OPEN" \in LetterStatus
  BY <1>1 DEF DatabaseTyped, Session, LetterStatus
<1>3. new \in Seq(LetterStatus) /\ Len(new) = Len(old) /\ (old = <<>> => new = <<>>)
  <2>1. CASE w.letter \in DOMAIN old
    BY <1>1, <1>2, <2>1, ExceptSeq
  <2>2. CASE w.letter \notin DOMAIN old
    BY <1>1, <1>2, <2>2
  <2>3. QED
    BY <2>1, <2>2
<1>4. \A i \in DOMAIN old :
        i \in DOMAIN new /\ new[i] = IF i = w.letter /\ w.resolve # "OPEN" THEN w.resolve ELSE old[i]
  BY <1>1, <1>2, <1>3
<1>5. CASE w.change[d].opens
  <2>1. FlushLetters(d, w) = Append(new, "OPEN")
    BY <1>1, <1>5 DEF FlushLetters
  <2>2. /\ DOMAIN Append(new, "OPEN") = 1 .. Len(new) + 1
        /\ \A i \in DOMAIN new : Append(new, "OPEN")[i] = new[i]
        /\ Append(new, "OPEN")[Len(new) + 1] = "OPEN"
    BY <1>2, <1>3
  <2>3. DOMAIN new = 1 .. Len(new) /\ DOMAIN old = 1 .. Len(new) /\ Len(new) \in Nat
    BY <1>2, <1>3
  <2>4. /\ Len(new) + 1 \in DOMAIN Append(new, "OPEN") /\ Len(new) + 1 \notin DOMAIN old
        /\ \A i \in DOMAIN old : i \in DOMAIN Append(new, "OPEN")
    BY <2>2, <2>3
  <2>5. QED
    BY <1>1, <1>4, <1>5, <2>1, <2>2, <2>4
<1>6. CASE ~w.change[d].opens
  <2>1. FlushLetters(d, w) = new
    BY <1>1, <1>6 DEF FlushLetters
  <2>2. QED
    BY <1>1, <1>3, <1>4, <1>6, <2>1
<1>7. QED
  BY <1>5, <1>6

-----------------------------------------------------------------------------
(* The unit of work each step of a session leaves in hand.                 *)

LEMMA TakeInShape ==
  ASSUME TypeOK, NEW h \in DlqHandlers, NEW c \in Copies, HandleDlqMessage(h, c)
  PROVE  LET d == target[c]
             exhausted == attempts_exhausted(row[d].attempts)
         IN  \E u \in Session :
               /\ d \in Deliveries /\ session' = [session EXCEPT ![h] = u]
               /\ u.pc = IF exhausted THEN "work" ELSE "retry"
               /\ u.rows = {d} /\ u.todo = {} /\ u.copy = c /\ u.resolve = "OPEN" /\ u.letter = 0
               /\ u.change[d] = IF exhausted THEN exhaust(row[d], row[d].attempts)
                                ELSE Loaded(row[d])
               /\ \A x \in Deliveries : x # d => u.change[x] = Loaded(NoRow)
<1> DEFINE d == target[c]
           exhausted == attempts_exhausted(row[d].attempts)
           ch == IF exhausted THEN exhaust(row[d], row[d].attempts) ELSE Loaded(row[d])
           u == [Idle EXCEPT !.pc = IF exhausted THEN "work" ELSE "retry",
                             !.rows = {d}, !.copy = c, !.change = [Idle.change EXCEPT ![d] = ch]]
<1>1. place[c] = "dlq" /\ session' = [session EXCEPT ![h] = u]
  BY DEF HandleDlqMessage
<1>2. d \in Deliveries /\ row[d] \in Row /\ row[d].attempts \in Nat
  BY <1>1 DEF TypeOK, BrokerTyped, DatabaseTyped, Row
<1>3. ch \in Change
  BY <1>2, ExhaustTyped, LoadedTyped
<1>4. Idle.change = [x \in Deliveries |-> Loaded(NoRow)]
  BY DEF Idle
<1>5. u \in Session
  BY <1>2, <1>3, <1>4, IdleTyped DEF Session
<1>6. /\ u.pc = (IF exhausted THEN "work" ELSE "retry") /\ u.rows = {d} /\ u.todo = {}
      /\ u.copy = c /\ u.resolve = "OPEN" /\ u.letter = 0 /\ u.change[d] = ch
      /\ \A x \in Deliveries : x # d => u.change[x] = Loaded(NoRow)
  BY <1>2, <1>4 DEF Idle
<1>7. QED
  BY <1>1, <1>2, <1>5, <1>6

LEMMA ScheduleRetryShape ==
  ASSUME TypeOK, NEW h \in DlqHandlers, NEW d \in Deliveries, ScheduleRetry(h, d)
  PROVE  \E u \in Session, published \in BOOLEAN :
           /\ Publish(d, "waiting", published) /\ session' = [session EXCEPT ![h] = u]
           /\ session[h].pc = "retry" /\ d \in session[h].rows /\ u.pc = "work"
           /\ u.rows = session[h].rows /\ u.todo = session[h].todo /\ u.copy = session[h].copy
           /\ u.letter = session[h].letter /\ u.resolve = session[h].resolve
           /\ u.change[d] = schedule_retry(session[h].change[d].seen, published)
           /\ \A x \in Deliveries : x # d => u.change[x] = session[h].change[x]
<1>1. PICK v \in Session : v = session[h]
  BY KindsDisjoint DEF TypeOK, SessionsTyped
<1>2. PICK published \in BOOLEAN :
        /\ Publish(d, "waiting", published)
        /\ session' = [session EXCEPT ![h].pc = "work",
                                      ![h].change[d] = schedule_retry(@.seen, published)]
  BY DEF ScheduleRetry
<1>3. PICK ch : ch = schedule_retry(v.change[d].seen, published)
  OBVIOUS
<1>4. PICK u : u = [v EXCEPT !.pc = "work", !.change[d] = ch]
  OBVIOUS
<1>5. session' = [session EXCEPT ![h] = u]
  BY KindsDisjoint, <1>1, <1>2, <1>3, <1>4 DEF TypeOK, SessionsTyped, Session
<1>6. ch \in Change
  BY <1>3, ScheduleRetryTyped DEF Session, Change
<1>7. /\ u \in Session /\ u.pc = "work" /\ u.rows = v.rows /\ u.todo = v.todo /\ u.copy = v.copy
      /\ u.letter = v.letter /\ u.resolve = v.resolve /\ u.change[d] = ch
      /\ \A x \in Deliveries : x # d => u.change[x] = v.change[x]
  BY <1>4, <1>6 DEF Session
<1>8. session[h].pc = "retry" /\ d \in session[h].rows
  BY DEF ScheduleRetry
<1>9. QED
  BY <1>1, <1>2, <1>3, <1>5, <1>7, <1>8

LEMMA DlqCommitShape ==
  ASSUME TypeOK, NEW h \in DlqHandlers, DlqCommit(h)
  PROVE  \E u \in Session :
           /\ session' = [session EXCEPT ![h] = u] /\ session[h].pc = "work" /\ Commit(session[h])
           /\ u.pc = "ack" /\ u.rows = {} /\ u.todo = {} /\ u.copy = session[h].copy
           /\ u.resolve = "OPEN" /\ \A x \in Deliveries : u.change[x] = Loaded(NoRow)
<1>1. session[h] \in Session
  BY KindsDisjoint DEF TypeOK, SessionsTyped
<1>2. PICK u : u = [Idle EXCEPT !.pc = "ack", !.copy = session[h].copy]
  OBVIOUS
<1>3. u \in Session
  BY <1>1, <1>2, IdleTyped DEF Session
<1>4. /\ u.pc = "ack" /\ u.rows = {} /\ u.todo = {} /\ u.copy = session[h].copy
      /\ u.resolve = "OPEN" /\ \A x \in Deliveries : u.change[x] = Loaded(NoRow)
  BY <1>2 DEF Idle
<1>5. QED
  BY <1>2, <1>3, <1>4 DEF DlqCommit

LEMMA DueReadShape ==
  ASSUME TypeOK, NEW s \in Scans, DueRead(s)
  PROVE  \E u \in Session :
           /\ session' = [session EXCEPT ![s] = u]
           /\ u.rows \subseteq {d \in Deliveries : Due(d) /\ MayLoad(d)}
           /\ u.pc = "work" /\ u.todo = u.rows /\ u.copy = NoCopy /\ u.resolve = "OPEN"
           /\ \A x \in Deliveries : u.change[x] = Loaded(IF x \in u.rows THEN row[x] ELSE NoRow)
<1>1. PICK batch, changes :
        /\ batch \subseteq {d \in Deliveries : Due(d) /\ MayLoad(d)}
        /\ changes = [d \in Deliveries |-> Loaded(IF d \in batch THEN row[d] ELSE NoRow)]
        /\ session' = [session EXCEPT ![s] =
             [Idle EXCEPT !.pc = "work", !.rows = batch, !.todo = batch, !.change = changes]]
  BY DEF DueRead
<1>2. PICK u : u = [Idle EXCEPT !.pc = "work", !.rows = batch, !.todo = batch, !.change = changes]
  OBVIOUS
<1>3. \A d \in Deliveries : row[d] \in Row /\ NoRow \in Row
  BY IdleTyped DEF TypeOK, DatabaseTyped
<1>4. \A d \in Deliveries : changes[d] \in Change
  BY <1>1, <1>3, LoadedTyped
<1>5. changes \in [Deliveries -> Change]
  BY <1>1, <1>4
<1>6. u \in Session
  BY <1>1, <1>2, <1>5, IdleTyped DEF Session
<1>7. /\ u.pc = "work" /\ u.rows = batch /\ u.todo = batch /\ u.copy = NoCopy
      /\ u.resolve = "OPEN" /\ u.change = changes
  BY <1>2 DEF Idle
<1>8. QED
  BY <1>1, <1>2, <1>6, <1>7

LEMMA DuePublishShape ==
  ASSUME TypeOK, NEW s \in Scans, NEW d \in Deliveries, DuePublish(s, d)
  PROVE  \E u \in Session, published \in BOOLEAN :
           /\ Publish(d, "queue", published) /\ session' = [session EXCEPT ![s] = u]
           /\ session[s].pc = "work" /\ d \in session[s].todo /\ u.pc = "work"
           /\ u.rows = session[s].rows /\ u.todo = session[s].todo \ {d}
           /\ u.copy = session[s].copy
           /\ u.letter = session[s].letter /\ u.resolve = session[s].resolve
           /\ u.change[d] = due_attempt(session[s].change[d].seen, published)
           /\ \A x \in Deliveries : x # d => u.change[x] = session[s].change[x]
<1>1. PICK v \in Session : v = session[s]
  BY KindsDisjoint DEF TypeOK, SessionsTyped
<1>2. PICK published \in BOOLEAN :
        /\ Publish(d, "queue", published)
        /\ session' = [session EXCEPT ![s].todo = @ \ {d},
                                      ![s].change[d] = due_attempt(@.seen, published)]
  BY DEF DuePublish
<1>3. PICK ch, todo : ch = due_attempt(v.change[d].seen, published) /\ todo = v.todo \ {d}
  OBVIOUS
<1>4. PICK u : u = [v EXCEPT !.todo = todo, !.change[d] = ch]
  OBVIOUS
<1>5. session' = [session EXCEPT ![s] = u]
  BY KindsDisjoint, <1>1, <1>2, <1>3, <1>4 DEF TypeOK, SessionsTyped, Session
<1>6. ch \in Change
  BY <1>3, DueAttemptTyped DEF Session, Change
<1>7. /\ u \in Session /\ u.pc = v.pc /\ u.rows = v.rows /\ u.todo = todo /\ u.copy = v.copy
      /\ u.letter = v.letter /\ u.resolve = v.resolve /\ u.change[d] = ch
      /\ \A x \in Deliveries : x # d => u.change[x] = v.change[x]
  BY <1>3, <1>4, <1>6 DEF Session
<1>8. session[s].pc = "work" /\ d \in session[s].todo
  BY DEF DuePublish
<1>9. /\ u.pc = "work" /\ u.todo = session[s].todo \ {d}
      /\ u.change[d] = due_attempt(session[s].change[d].seen, published)
  BY <1>1, <1>3, <1>7, <1>8
<1>10. /\ u.rows = session[s].rows /\ u.copy = session[s].copy
       /\ u.letter = session[s].letter /\ u.resolve = session[s].resolve
       /\ \A x \in Deliveries : x # d => u.change[x] = session[s].change[x]
  BY <1>1, <1>7
<1>11. u \in Session /\ Publish(d, "queue", published)
  BY <1>2, <1>7
<1>12. QED
  BY <1>5, <1>8, <1>9, <1>10, <1>11

\* What an operator holds that loaded the letter i of d.
Opened(o, d, i, request) ==
  \E u \in Session :
    /\ session' = [session EXCEPT ![o] = u] /\ u.pc = request /\ u.rows = {d}
    /\ u.todo = {} /\ u.copy = NoCopy /\ u.letter = i /\ u.resolve = "OPEN"
    /\ \A x \in Deliveries : u.change[x] = Loaded(NoRow)

LEMMA OpenRequestShape ==
  ASSUME TypeOK, NEW o \in Operators, NEW d \in Deliveries, NEW i \in DOMAIN letters[d],
         NEW request \in {"retry", "discard"}, OpenRequest(o, d, i, request)
  PROVE  Opened(o, d, i, request)
<1>1. PICK u : u = [Idle EXCEPT !.pc = request, !.rows = {d}, !.letter = i]
  OBVIOUS
<1>2. i \in Nat
  BY DEF TypeOK, DatabaseTyped
<1>3. u \in Session
  BY <1>1, <1>2, IdleTyped DEF Session
<1>4. /\ u.pc = request /\ u.rows = {d} /\ u.todo = {} /\ u.copy = NoCopy /\ u.letter = i
      /\ u.resolve = "OPEN" /\ \A x \in Deliveries : u.change[x] = Loaded(NoRow)
  BY <1>1 DEF Idle
<1>5. QED
  BY <1>1, <1>3, <1>4 DEF OpenRequest, Opened

LEMMA RetryPublishShape ==
  ASSUME TypeOK, NEW o \in Operators, NEW d \in Deliveries, RetryPublish(o, d)
  PROVE  \E u \in Session, published \in BOOLEAN :
           /\ Publish(d, "queue", published) /\ session' = [session EXCEPT ![o] = u]
           /\ session[o].pc = "retry" /\ d \in session[o].rows /\ u.pc = "work"
           /\ u.rows = session[o].rows /\ u.todo = session[o].todo /\ u.copy = session[o].copy
           /\ u.letter = session[o].letter
           /\ u.resolve = IF published THEN "RETRIED" ELSE "OPEN"
           /\ u.change[d] = IF published THEN republish(row[d]) ELSE session[o].change[d]
           /\ \A x \in Deliveries : x # d => u.change[x] = session[o].change[x]
<1>1. PICK v \in Session : v = session[o]
  BY KindsDisjoint DEF TypeOK, SessionsTyped
<1>2. PICK published \in BOOLEAN :
        /\ Publish(d, "queue", published)
        /\ session' = [session EXCEPT
             ![o].pc = "work",
             ![o].resolve = IF published THEN "RETRIED" ELSE "OPEN",
             ![o].change[d] = IF published THEN republish(row[d]) ELSE @]
  BY DEF RetryPublish
<1>3. PICK ch, resolve : /\ ch = IF published THEN republish(row[d]) ELSE v.change[d]
                         /\ resolve = IF published THEN "RETRIED" ELSE "OPEN"
  OBVIOUS
<1>4. PICK u : u = [v EXCEPT !.pc = "work", !.resolve = resolve, !.change[d] = ch]
  OBVIOUS
<1>5. session' = [session EXCEPT ![o] = u]
  BY KindsDisjoint, <1>1, <1>2, <1>3, <1>4 DEF TypeOK, SessionsTyped, Session
<1>6. ch \in Change /\ resolve \in LetterStatus
  BY <1>3, ManualTyped DEF Session, TypeOK, DatabaseTyped, LetterStatus
<1>7. /\ u \in Session /\ u.pc = "work" /\ u.rows = v.rows /\ u.todo = v.todo /\ u.copy = v.copy
      /\ u.letter = v.letter /\ u.resolve = resolve /\ u.change[d] = ch
      /\ \A x \in Deliveries : x # d => u.change[x] = v.change[x]
  BY <1>4, <1>6 DEF Session
<1>8. session[o].pc = "retry" /\ d \in session[o].rows
  BY DEF RetryPublish
<1>9. /\ u.pc = "work" /\ u.resolve = IF published THEN "RETRIED" ELSE "OPEN"
      /\ u.change[d] = IF published THEN republish(row[d]) ELSE session[o].change[d]
  BY <1>1, <1>3, <1>7
<1>10. /\ u.rows = session[o].rows /\ u.todo = session[o].todo /\ u.copy = session[o].copy
       /\ u.letter = session[o].letter
       /\ \A x \in Deliveries : x # d => u.change[x] = session[o].change[x]
  BY <1>1, <1>7
<1>11. u \in Session /\ Publish(d, "queue", published)
  BY <1>2, <1>7
<1>12. QED
  BY <1>5, <1>8, <1>9, <1>10, <1>11

LEMMA DiscardLoadShape ==
  ASSUME TypeOK, NEW o \in Operators, NEW d \in Deliveries, DiscardLoad(o, d)
  PROVE  \E u \in Session :
           /\ session' = [session EXCEPT ![o] = u]
           /\ session[o].pc = "discard" /\ d \in session[o].rows /\ u.pc = "work"
           /\ u.rows = session[o].rows /\ u.todo = session[o].todo /\ u.copy = session[o].copy
           /\ u.letter = session[o].letter /\ u.resolve = "DISCARDED"
           /\ u.change[d] = discard(row[d])
           /\ \A x \in Deliveries : x # d => u.change[x] = session[o].change[x]
<1>1. PICK v \in Session : v = session[o]
  BY KindsDisjoint DEF TypeOK, SessionsTyped
<1>2. PICK ch : ch = discard(row[d])
  OBVIOUS
<1>3. PICK u : u = [v EXCEPT !.pc = "work", !.resolve = "DISCARDED", !.change[d] = ch]
  OBVIOUS
<1>4. session' = [session EXCEPT ![o] = u]
  BY KindsDisjoint, <1>1, <1>2, <1>3 DEF DiscardLoad, TypeOK, SessionsTyped, Session
<1>5. ch \in Change
  BY <1>2, ManualTyped DEF TypeOK, DatabaseTyped
<1>6. /\ u \in Session /\ u.pc = "work" /\ u.rows = v.rows /\ u.todo = v.todo /\ u.copy = v.copy
      /\ u.letter = v.letter /\ u.resolve = "DISCARDED" /\ u.change[d] = ch
      /\ \A x \in Deliveries : x # d => u.change[x] = v.change[x]
  BY <1>3, <1>5 DEF Session, LetterStatus
<1>7. session[o].pc = "discard" /\ d \in session[o].rows
  BY DEF DiscardLoad
<1>8. QED
  BY <1>1, <1>2, <1>4, <1>6, <1>7

\* An outage changes nothing of the sessions but the copy they hold.
SameButCopy(s) ==
  /\ session'[s].pc = session[s].pc /\ session'[s].rows = session[s].rows
  /\ session'[s].todo = session[s].todo /\ session'[s].change = session[s].change
  /\ session'[s].letter = session[s].letter /\ session'[s].resolve = session[s].resolve

LEMMA OutageFrame ==
  ASSUME TypeOK, BrokerDown, NEW s \in Sessions
  PROVE  session'[s].copy = NoCopy /\ NoCopy \notin Copies /\ SameButCopy(s)
<1>1. PICK v \in Session : v = session[s]
  BY DEF TypeOK, SessionsTyped
<1>2. session'[s] = [v EXCEPT !.copy = NoCopy]
  BY <1>1 DEF BrokerDown
<1>3. QED
  BY <1>1, <1>2, DeliveryCycleAssumption DEF Session, SameButCopy

-----------------------------------------------------------------------------
(* What the sessions have in hand.  They load no delivery that another one *)
(* works on where the schedule forbids it.                                 *)

LEMMA InHandKept ==
  ASSUME ApartInv, NEW s \in Sessions
  PROVE  \E v \in Session : v = session[s] /\ InHand(s, v)
BY DEF ApartInv, TypeOK, SessionsTyped

LEMMA IdleInHand ==
  ASSUME NEW s, NEW u, u.rows = {}, u.todo = {}, u.resolve = "OPEN",
         s \notin DlqHandlers => u.copy \notin Copies
  PROVE  InHand(s, u) /\ InHand(s, u)'
BY DEF InHand

LEMMA IdleShape ==
  /\ Idle \in Session /\ Idle.pc = "idle" /\ Idle.rows = {} /\ Idle.todo = {}
  /\ Idle.resolve = "OPEN" /\ Idle.copy = NoCopy /\ Idle.copy \notin Copies
BY IdleTyped, DeliveryCycleAssumption DEF Idle

LEMMA CommitFrame ==
  ASSUME NEW v, Commit(v)
  PROVE  /\ \A x \in Deliveries : x \notin v.rows => row'[x] = row[x] /\ letters'[x] = letters[x]
         /\ \A x \in Deliveries : x \in v.rows =>
              row'[x] = Flush(row[x], v.change[x]) /\ letters'[x] = FlushLetters(x, v)
BY DEF Commit

\* A step hands at most one session new rows, which it may load.
LEMMA RowsLoaded ==
  ASSUME TypeOK, [Next]_vars
  PROVE  \/ \A t \in Sessions : session'[t].rows \subseteq session[t].rows
         \/ \E s \in Sessions :
              /\ \A t \in Sessions : t # s => session'[t] = session[t]
              /\ \A x \in session'[s].rows : x \in session[s].rows \/ MayLoad(x)
<1> DEFINE Loads(s) == /\ \A t \in Sessions : t # s => session'[t] = session[t]
                       /\ \A x \in session'[s].rows : x \in session[s].rows \/ MayLoad(x)
<1>1. ASSUME NEW s \in Sessions, NEW u, session' = [session EXCEPT ![s] = u],
             \A x \in u.rows : x \in session[s].rows \/ MayLoad(x)
      PROVE  Loads(s)
  BY <1>1 DEF TypeOK, SessionsTyped
<1>2. ASSUME NEW s \in Sessions, session' = [session EXCEPT ![s] = Idle]
      PROVE  Loads(s)
  BY <1>1, <1>2, IdleShape
<1>3. ASSUME NEW h \in DlqHandlers, Handler(h)
      PROVE  Loads(h)
  <2>1. ASSUME NEW c \in Copies, HandleDlqMessage(h, c)
        PROVE  Loads(h)
    <3>1. MayLoad(target[c])
      BY <2>1 DEF HandleDlqMessage
    <3>2. PICK u \in Session : session' = [session EXCEPT ![h] = u] /\ u.rows = {target[c]}
      BY <2>1, TakeInShape
    <3>3. QED
      BY <1>1, <3>1, <3>2, KindsDisjoint
  <2>2. ASSUME NEW d \in Deliveries, ScheduleRetry(h, d)
        PROVE  Loads(h)
    BY <1>1, <2>2, ScheduleRetryShape, KindsDisjoint
  <2>3. CASE DlqCommit(h)
    BY <1>1, <2>3, DlqCommitShape, KindsDisjoint
  <2>4. CASE DlqAck(h) \/ DlqCrash(h) \/ DlqFail(h)
    BY <1>2, <2>4, KindsDisjoint DEF DlqAck, DlqCrash, DlqFail
  <2>5. QED
    BY <1>3, <2>1, <2>2, <2>3, <2>4 DEF Handler
<1>4. ASSUME NEW s \in Scans, Scan(s)
      PROVE  Loads(s)
  <2>1. CASE DueRead(s)
    <3>1. PICK u \in Session : /\ session' = [session EXCEPT ![s] = u]
                               /\ u.rows \subseteq {d \in Deliveries : Due(d) /\ MayLoad(d)}
      BY <2>1, DueReadShape
    <3>2. QED
      BY <1>1, <3>1, KindsDisjoint
  <2>2. ASSUME NEW d \in Deliveries, DuePublish(s, d)
        PROVE  Loads(s)
    BY <1>1, <2>2, DuePublishShape, KindsDisjoint
  <2>3. CASE DueCommit(s) \/ Rollback(s)
    BY <1>2, <2>3, KindsDisjoint DEF DueCommit, Rollback
  <2>4. QED
    BY <1>4, <2>1, <2>2, <2>3 DEF Scan
<1>5. ASSUME NEW o \in Operators, Operator(o)
      PROVE  Loads(o)
  <2>1. ASSUME NEW d \in Deliveries, NEW i \in DOMAIN letters[d], NEW request \in {"retry", "discard"},
               OpenRequest(o, d, i, request)
        PROVE  Loads(o)
    <3>1. MayLoad(d)
      BY <2>1 DEF OpenRequest
    <3>opened. Opened(o, d, i, request)
      BY <2>1, OpenRequestShape
    <3>2. PICK u \in Session : session' = [session EXCEPT ![o] = u] /\ u.rows = {d}
      BY <3>opened DEF Opened
    <3>3. QED
      BY <1>1, <3>1, <3>2, KindsDisjoint
  <2>2. ASSUME NEW d \in Deliveries, RetryPublish(o, d)
        PROVE  Loads(o)
    BY <1>1, <2>2, RetryPublishShape, KindsDisjoint
  <2>3. ASSUME NEW d \in Deliveries, DiscardLoad(o, d)
        PROVE  Loads(o)
    BY <1>1, <2>3, DiscardLoadShape, KindsDisjoint
  <2>4. CASE RequestCommit(o) \/ Rollback(o)
    BY <1>2, <2>4, KindsDisjoint DEF RequestCommit, Rollback
  <2>5. QED
    BY <1>5, <2>1, <2>2, <2>3, <2>4 DEF Operator
<1>6. CASE BrokerDown
  BY <1>6, OutageFrame DEF SameButCopy
<1>7. CASE UNCHANGED session
  BY <1>7
<1>8. CASE RabbitMQ \/ UNCHANGED vars \/ \E d \in Deliveries : Route(d)
  <2>1. UNCHANGED session \/ BrokerDown
    BY <1>8 DEF RabbitMQ, ConsumerAck, ConsumerNack, TtlExpire, Move, BrokerUp, Route, vars
  <2>2. QED
    BY <1>6, <1>7, <2>1
<1>9. QED
  BY <1>3, <1>4, <1>5, <1>8, KindsDisjoint DEF Next

\* With RowsExclusive no sessions ever overlap on a delivery, and then, or with
\* one operator, no requests do: what the theorems below assume of a behaviour.
LEMMA ExclusiveStaysApart ==
  ASSUME RowsExclusive
  PROVE  Spec => []RowsApart
<1>1. Init => TypeOK /\ RowsApart
  BY InitTyped, IdleShape DEF Init, RowsApart
<1>2. TypeOK /\ RowsApart /\ [Next]_vars => (TypeOK /\ RowsApart)'
  BY StepTyped, RowsLoaded DEF RowsApart, MayLoad
<1>3. QED
  BY <1>1, <1>2, PTL DEF Spec

LEMMA OperatorsStayApart ==
  ASSUME OperatorsApart
  PROVE  Spec => []LettersApart
<1>1. Init => TypeOK /\ LettersApart
  BY InitTyped, IdleShape, KindsDisjoint DEF Init, LettersApart
<1>2. TypeOK /\ LettersApart /\ [Next]_vars => (TypeOK /\ LettersApart)'
  BY StepTyped, RowsLoaded, KindsDisjoint DEF OperatorsApart, LettersApart, MayLoad
<1>3. QED
  BY <1>1, <1>2, PTL DEF Spec

-----------------------------------------------------------------------------
(* The letter that an operator loaded stays open until the request commits. *)

LEMMA HeldKnown ==
  ASSUME HeldInv, NEW s \in Sessions
  PROVE  \E v \in Session : v = session[s] /\ InHand(s, v)
BY DEF HeldInv, TypeOK, SessionsTyped

LEMMA HeldStep ==
  ASSUME HeldInv, TypeOK', LettersApart', NEW s \in Sessions, NEW u,
         session' = [session EXCEPT ![s] = u], InHand(s, u)',
         \A x \in Deliveries : \A i \in OpenLetters(x) :
           i \in OpenLetters(x)' \/ (s \in Operators /\ x \in session[s].rows)
  PROVE  HeldInv'
<1>1. session'[s] = u /\ \A t \in Sessions : t # s => session'[t] = session[t]
  BY DEF HeldInv, TypeOK, SessionsTyped
<1>2. ASSUME NEW t \in Sessions
      PROVE  InHand(t, session[t])'
  <2>1. CASE t = s
    BY <1>1, <2>1 DEF InHand
  <2>2. CASE t # s
    <3>1. PICK w \in Session : w = session[t] /\ InHand(t, w)
      BY HeldKnown
    <3>2. t \in Operators => \A x \in w.rows : x \in Deliveries /\ w.letter \in OpenLetters(x)'
      BY <2>2, <3>1 DEF HeldInv, LettersApart, InHand, Session
    <3>3. InHand(t, w)'
      BY <3>1, <3>2 DEF InHand, OpenLetters
    <3>4. session'[t] = w
      BY <1>1, <2>2, <3>1
    <3>5. QED
      BY <3>3, <3>4 DEF InHand
  <2>3. QED
    BY <2>1, <2>2
<1>3. QED
  BY <1>2 DEF HeldInv

LEMMA HeldRelease ==
  ASSUME HeldInv, TypeOK', LettersApart', NEW s \in Sessions, session' = [session EXCEPT ![s] = Idle],
         \A x \in Deliveries : \A i \in OpenLetters(x) :
           i \in OpenLetters(x)' \/ (s \in Operators /\ x \in session[s].rows)
  PROVE  HeldInv'
<1>1. InHand(s, Idle)'
  BY IdleShape, IdleInHand
<1>2. QED
  BY <1>1, HeldStep

\* Of the letters, a commit resolves only the one that an operator holds.
LEMMA OpenAfterCommit ==
  ASSUME HeldInv, NEW s \in Sessions, Commit(session[s]), NEW x \in Deliveries,
         NEW i \in DOMAIN letters[x], ~(s \in Operators /\ x \in session[s].rows)
  PROVE  i \in DOMAIN letters'[x] /\ letters'[x][i] = letters[x][i]
<1>1. PICK v \in Session : v = session[s] /\ InHand(s, v)
  BY HeldKnown
<1>2. CASE x \notin v.rows
  BY <1>1, <1>2, CommitFrame
<1>3. CASE x \in v.rows
  <2>1. v.resolve = "OPEN"
    BY <1>1, <1>3 DEF InHand
  <2>2. letters'[x] = FlushLetters(x, v)
    BY <1>1, <1>3, CommitFrame
  <2>3. QED
    BY <2>1, <2>2, LettersFlushed DEF HeldInv, TypeOK
<1>4. QED
  BY <1>2, <1>3

LEMMA LettersSame ==
  ASSUME UNCHANGED letters, NEW x
  PROVE  OpenLetters(x)' = OpenLetters(x)
BY DEF OpenLetters

LEMMA HeldHandler ==
  ASSUME HeldInv, TypeOK', LettersApart', NEW h \in DlqHandlers, Handler(h)
  PROVE  HeldInv'
<1>0. h \in Sessions /\ h \notin Operators /\ h \notin Scans /\ TypeOK
  BY KindsDisjoint, DeliveryCycleAssumption DEF HeldInv
<1>1. ASSUME NEW c \in Copies, HandleDlqMessage(h, c)
      PROVE  HeldInv'
  <2>1. UNCHANGED letters
    BY <1>1 DEF HandleDlqMessage, database
  <2>2. PICK u \in Session :
          /\ session' = [session EXCEPT ![h] = u] /\ u.pc \in {"work", "retry"}
          /\ u.rows = {target[c]} /\ u.todo = {} /\ u.resolve = "OPEN"
    BY <1>0, <1>1, TakeInShape
  <2>3. InHand(h, u)'
    BY <1>0, <2>2 DEF InHand
  <2>4. QED
    BY <1>0, <2>1, <2>2, <2>3, LettersSame, HeldStep
<1>2. ASSUME NEW d \in Deliveries, ScheduleRetry(h, d)
      PROVE  HeldInv'
  <2>1. UNCHANGED letters
    BY <1>2 DEF ScheduleRetry, database
  <2>2. PICK v \in Session : v = session[h] /\ InHand(h, v)
    BY <1>0, HeldKnown
  <2>3. PICK u \in Session :
          /\ session' = [session EXCEPT ![h] = u] /\ u.pc = "work"
          /\ u.rows = v.rows /\ u.todo = v.todo /\ u.copy = v.copy /\ u.resolve = v.resolve
    BY <1>0, <1>2, <2>2, ScheduleRetryShape
  <2>4. InHand(h, u)'
    BY <1>0, <2>2, <2>3 DEF InHand
  <2>5. QED
    BY <1>0, <2>1, <2>3, <2>4, LettersSame, HeldStep
<1>3. CASE DlqCommit(h)
  <2>1. PICK u \in Session :
          /\ session' = [session EXCEPT ![h] = u] /\ Commit(session[h])
          /\ u.rows = {} /\ u.todo = {} /\ u.resolve = "OPEN"
    BY <1>0, <1>3, DlqCommitShape
  <2>2. InHand(h, u)'
    BY <2>1, IdleInHand
  <2>3. QED
    BY <1>0, <2>1, <2>2, OpenAfterCommit, HeldStep DEF OpenLetters
<1>4. CASE DlqAck(h) \/ DlqCrash(h) \/ DlqFail(h)
  <2>1. UNCHANGED letters /\ session' = [session EXCEPT ![h] = Idle]
    BY <1>4 DEF DlqAck, DlqCrash, DlqFail, database
  <2>2. QED
    BY <1>0, <2>1, LettersSame, HeldRelease
<1>5. QED
  BY <1>1, <1>2, <1>3, <1>4 DEF Handler

LEMMA HeldScan ==
  ASSUME HeldInv, TypeOK', LettersApart', NEW s \in Scans, Scan(s)
  PROVE  HeldInv'
<1>0. s \in Sessions /\ s \notin Operators /\ s \notin DlqHandlers /\ TypeOK /\ NoCopy \notin Copies
  BY KindsDisjoint, DeliveryCycleAssumption DEF HeldInv
<1>1. CASE DueRead(s)
  <2>1. UNCHANGED letters
    BY <1>1 DEF DueRead, database
  <2>2. PICK u \in Session :
          /\ session' = [session EXCEPT ![s] = u]
          /\ u.pc = "work" /\ u.todo = u.rows /\ u.copy = NoCopy /\ u.resolve = "OPEN"
    BY <1>0, <1>1, DueReadShape
  <2>3. InHand(s, u)'
    BY <1>0, <2>2 DEF InHand
  <2>4. QED
    BY <1>0, <2>1, <2>2, <2>3, LettersSame, HeldStep
<1>2. ASSUME NEW d \in Deliveries, DuePublish(s, d)
      PROVE  HeldInv'
  <2>1. UNCHANGED letters
    BY <1>2 DEF DuePublish, database
  <2>2. PICK v \in Session : v = session[s] /\ InHand(s, v)
    BY <1>0, HeldKnown
  <2>3. PICK u \in Session :
          /\ session' = [session EXCEPT ![s] = u] /\ u.pc = "work"
          /\ u.rows = v.rows /\ u.todo = v.todo \ {d} /\ u.copy = v.copy /\ u.resolve = v.resolve
    BY <1>0, <1>2, <2>2, DuePublishShape
  <2>4. InHand(s, u)'
    BY <1>0, <2>2, <2>3 DEF InHand
  <2>5. QED
    BY <1>0, <2>1, <2>3, <2>4, LettersSame, HeldStep
<1>3. CASE DueCommit(s)
  <2>1. session' = [session EXCEPT ![s] = Idle] /\ Commit(session[s])
    BY <1>3 DEF DueCommit
  <2>2. QED
    BY <1>0, <2>1, OpenAfterCommit, HeldRelease DEF OpenLetters
<1>4. CASE Rollback(s)
  <2>1. UNCHANGED letters /\ session' = [session EXCEPT ![s] = Idle]
    BY <1>4 DEF Rollback, database
  <2>2. QED
    BY <1>0, <2>1, LettersSame, HeldRelease
<1>5. QED
  BY <1>1, <1>2, <1>3, <1>4 DEF Scan

LEMMA HeldOperator ==
  ASSUME HeldInv, TypeOK', LettersApart', NEW o \in Operators, Operator(o)
  PROVE  HeldInv'
<1>0. o \in Sessions /\ o \notin Scans /\ o \notin DlqHandlers /\ TypeOK /\ NoCopy \notin Copies
  BY KindsDisjoint, DeliveryCycleAssumption DEF HeldInv
<1>1. ASSUME NEW d \in Deliveries, NEW i \in DOMAIN letters[d], NEW request \in {"retry", "discard"},
             OpenRequest(o, d, i, request)
      PROVE  HeldInv'
  <2>1. UNCHANGED letters /\ i \in OpenLetters(d)
    BY <1>1 DEF OpenRequest, Resolvable, OpenLetters, database
  <2>typed. TypeOK
    BY <1>0
  <2>opened. Opened(o, d, i, request)
    BY <1>1, <2>typed, OpenRequestShape
  <2>2. PICK u \in Session :
          /\ session' = [session EXCEPT ![o] = u] /\ u.pc = request /\ u.rows = {d}
          /\ u.todo = {} /\ u.copy = NoCopy /\ u.letter = i /\ u.resolve = "OPEN"
          /\ \A x \in Deliveries : u.change[x] = Loaded(NoRow)
    BY <2>opened DEF Opened
  <2>3. InHand(o, u)'
    BY <1>0, <2>1, <2>2 DEF InHand, OpenLetters
  <2>4. QED
    BY <1>0, <2>1, <2>2, <2>3, LettersSame, HeldStep
<1>2. ASSUME NEW d \in Deliveries, RetryPublish(o, d) \/ DiscardLoad(o, d)
      PROVE  HeldInv'
  <2>1. UNCHANGED letters
    BY <1>2 DEF RetryPublish, DiscardLoad, database
  <2>2. PICK v \in Session : v = session[o] /\ InHand(o, v)
    BY <1>0, HeldKnown
  <2>3. PICK u \in Session :
          /\ session' = [session EXCEPT ![o] = u] /\ u.pc = "work"
          /\ u.rows = v.rows /\ u.todo = v.todo /\ u.copy = v.copy /\ u.letter = v.letter
    BY <1>0, <1>2, <2>2, RetryPublishShape, DiscardLoadShape
  <2>4. InHand(o, u)'
    BY <1>0, <2>1, <2>2, <2>3 DEF InHand, OpenLetters
  <2>5. QED
    BY <1>0, <2>1, <2>3, <2>4, LettersSame, HeldStep
<1>3. CASE RequestCommit(o)
  <2>1. session' = [session EXCEPT ![o] = Idle] /\ Commit(session[o])
    BY <1>3 DEF RequestCommit
  <2>2. QED
    BY <1>0, <2>1, OpenAfterCommit, HeldRelease DEF OpenLetters
<1>4. CASE Rollback(o)
  <2>1. UNCHANGED letters /\ session' = [session EXCEPT ![o] = Idle]
    BY <1>4 DEF Rollback, database
  <2>2. QED
    BY <1>0, <2>1, LettersSame, HeldRelease
<1>5. QED
  BY <1>1, <1>2, <1>3, <1>4 DEF Operator

\* An outage takes the copies out of the hands of the handlers, the other steps
\* of RabbitMQ and the routing leave the sessions alone.
LEMMA HeldRest ==
  ASSUME HeldInv, TypeOK', LettersApart', UNCHANGED letters, UNCHANGED session \/ BrokerDown
  PROVE  HeldInv'
<1>1. ASSUME NEW s \in Sessions
      PROVE  InHand(s, session[s])'
  <2>1. PICK v \in Session : v = session[s] /\ InHand(s, v)
    BY HeldKnown
  <2>2. CASE UNCHANGED session
    BY <2>1, <2>2 DEF InHand, OpenLetters
  <2>3. CASE BrokerDown
    BY <2>1, <2>3, OutageFrame DEF HeldInv, InHand, OpenLetters, SameButCopy
  <2>4. QED
    BY <2>2, <2>3
<1>2. QED
  BY <1>1 DEF HeldInv

LEMMA StepHeld ==
  ASSUME HeldInv, LettersApart', [Next]_vars
  PROVE  HeldInv'
<1>1. TypeOK'
  BY StepTyped DEF HeldInv
<1>2. CASE RabbitMQ \/ UNCHANGED vars \/ \E d \in Deliveries : Route(d)
  <2>1. UNCHANGED letters /\ (UNCHANGED session \/ BrokerDown)
    BY <1>2 DEF RabbitMQ, ConsumerAck, ConsumerNack, TtlExpire, Move, BrokerUp, BrokerDown, Route,
                vars, database
  <2>2. QED
    BY <1>1, <2>1, HeldRest
<1>3. QED
  BY <1>1, <1>2, HeldHandler, HeldScan, HeldOperator DEF Next

\* What is held while no sessions at all overlap on a delivery.
LEMMA StepApart ==
  ASSUME ApartInv, RowsApart', [Next]_vars
  PROVE  ApartInv'
<1>1. HeldInv /\ LettersApart'
  BY KindsDisjoint DEF ApartInv, HeldInv, RowsApart, LettersApart
<1>2. QED
  BY <1>1, StepHeld DEF ApartInv, HeldInv

LEMMA InitApart == Init => ApartInv /\ HeldInv
<1> SUFFICES ASSUME Init PROVE ApartInv /\ HeldInv
  OBVIOUS
<1>1. \A s \in Sessions : session[s] = Idle
  BY DEF Init
<1>2. QED
  BY <1>1, InitTyped, IdleShape, IdleInHand, KindsDisjoint DEF ApartInv, HeldInv, RowsApart, LettersApart

\* Only a commit writes the dead letters.
LEMMA LettersWritten ==
  ASSUME [Next]_vars
  PROVE  UNCHANGED letters \/ \E s \in Sessions : Commit(session[s])
<1>1. ASSUME NEW h \in DlqHandlers, Handler(h)
      PROVE  UNCHANGED letters \/ Commit(session[h])
  BY <1>1 DEF Handler, HandleDlqMessage, ScheduleRetry, DlqCommit, DlqAck, DlqCrash, DlqFail,
              database
<1>2. ASSUME NEW s \in Scans, Scan(s)
      PROVE  UNCHANGED letters \/ Commit(session[s])
  BY <1>2 DEF Scan, DueRead, DuePublish, DueCommit, Rollback, database
<1>3. ASSUME NEW o \in Operators, Operator(o)
      PROVE  UNCHANGED letters \/ Commit(session[o])
  BY <1>3 DEF Operator, OpenRequest, RetryPublish, DiscardLoad, RequestCommit, Rollback, database
<1>4. CASE RabbitMQ \/ UNCHANGED vars \/ \E d \in Deliveries : Route(d)
  BY <1>4 DEF RabbitMQ, ConsumerAck, ConsumerNack, TtlExpire, Move, BrokerUp, BrokerDown, Route,
              vars, database
<1>5. QED
  BY <1>1, <1>2, <1>3, <1>4, KindsDisjoint DEF Next

\* A letter that was resolved stays as it is.
LEMMA ResolvedStays ==
  ASSUME HeldInv, [Next]_vars, NEW d \in Deliveries, NEW i \in DOMAIN letters[d], letters[d][i] # "OPEN"
  PROVE  i \in DOMAIN letters'[d] /\ letters'[d][i] = letters[d][i]
<1>1. CASE UNCHANGED letters
  BY <1>1
<1>2. ASSUME NEW s \in Sessions, Commit(session[s])
      PROVE  i \in DOMAIN letters'[d] /\ letters'[d][i] = letters[d][i]
  <2>1. CASE s \in Operators /\ d \in session[s].rows
    <3>1. PICK v \in Session : v = session[s] /\ InHand(s, v)
      BY HeldKnown
    <3>2. letters'[d] = FlushLetters(d, v) /\ i # v.letter
      BY <1>2, <2>1, <3>1, CommitFrame DEF InHand, OpenLetters
    <3>3. QED
      BY <3>2, LettersFlushed DEF HeldInv, TypeOK
  <2>2. QED
    BY <1>2, <2>1, OpenAfterCommit
<1>3. QED
  BY <1>1, <1>2, LettersWritten

\* While the requests of operators on one delivery take turns, a dead letter that
\* was retried or discarded stays so, whatever fails or stops and however the
\* handlers and the scans overlap: the second request finds it resolved.  When
\* requests overlap, two of them load it open (README, divergences).
THEOREM LettersStayFinal == Spec /\ []LettersApart => LettersFinal
<1>1. HeldInv /\ LettersApart' /\ [Next]_vars => HeldInv'
  BY StepHeld
<1>2. HeldInv /\ [Next]_vars =>
        [\A d \in Deliveries : \A i \in DOMAIN letters[d] :
           letters[d][i] # "OPEN" => letters'[d][i] = letters[d][i]]_vars
  BY ResolvedStays
<1>3. QED
  BY <1>1, <1>2, InitApart, PTL DEF Spec, LettersFinal

-----------------------------------------------------------------------------
(* What is in order whatever overlaps and whatever fails: the copy, the    *)
(* letter and the columns each session has in hand.                        *)

\* What is known of the unit a session has in hand.
LEMMA OrderKnown ==
  ASSUME OrderInv, NEW s \in Sessions
  PROVE  \E v \in Session : /\ v = session[s] /\ InOrder(s, v)
                            /\ \A d \in v.rows : d \in Deliveries /\ row[d].status # "NONE"
<1>1. PICK v \in Session : v = session[s]
  BY DEF OrderInv, TypeOK, SessionsTyped
<1>2. InOrder(s, v)
  BY <1>1 DEF OrderInv, UnitsInOrder
<1>3. \A d \in v.rows : d \in Deliveries /\ row[d].status # "NONE"
  BY <1>1 DEF OrderInv, RowsRouted, Unrouted, Session
<1>4. QED
  BY <1>1, <1>2, <1>3

\* A step of one session: it writes rows it had in hand, and the copies of the
\* others stay where they are.
LEMMA OrderStep ==
  ASSUME OrderInv, TypeOK', NEW s \in Sessions, NEW v \in Session, v = session[s],
         NEW u \in Session, session' = [session EXCEPT ![s] = u], UNCHANGED <<brokerUp, consumed>>,
         \A x \in Deliveries : x \notin v.rows => row'[x] = row[x] /\ letters'[x] = letters[x],
         \A x \in v.rows : row'[x].status # "NONE" /\ \A i \in DOMAIN letters[x] : i \in DOMAIN letters'[x],
         \A c \in Copies : target'[c] # target[c] => target'[c] = NoDelivery \/ target'[c] \in v.rows,
         \A t \in Sessions : \A c \in Copies : t # s /\ session[t].copy = c =>
           place'[c] = place[c] /\ target'[c] = target[c],
         InOrder(s, u)', \A x \in u.rows : row[x].status # "NONE",
         u.copy \in Copies => u.copy = v.copy \/ ~Held(u.copy)
  PROVE  OrderInv'
<1>1. session'[s] = u /\ \A t \in Sessions : t # s => session'[t] = session[t]
  BY DEF OrderInv, TypeOK, SessionsTyped
<1>2. \A x \in v.rows : x \in Deliveries /\ row[x].status # "NONE"
  BY OrderKnown
<1>3. ASSUME NEW x \in Deliveries
      PROVE  (Unrouted(x)' /\ ~consumed'[x]) \/ row'[x].status # "NONE"
  <2>1. CASE row[x].status # "NONE"
    BY <2>1
  <2>2. CASE Unrouted(x) /\ ~consumed[x]
    <3>1. x \notin v.rows /\ x \notin u.rows /\ x # NoDelivery
      BY <2>2, DeliveryCycleAssumption DEF Unrouted, NoRow
    <3>2. Unrouted(x)'
      BY <1>1, <2>2, <3>1 DEF Unrouted
    <3>3. QED
      BY <2>2, <3>2
  <2>3. QED
    BY <2>1, <2>2 DEF OrderInv, RowsRouted
<1>4. ASSUME NEW t \in Sessions
      PROVE  InOrder(t, session[t])'
  <2>1. CASE t = s
    BY <1>1, <2>1 DEF InOrder
  <2>2. CASE t # s
    <3>1. PICK w \in Session : /\ w = session[t] /\ InOrder(t, w)
                               /\ \A d \in w.rows : d \in Deliveries
      BY OrderKnown
    <3>2. w.copy \in Copies => place'[w.copy] = place[w.copy] /\ target'[w.copy] = target[w.copy]
      BY <2>2, <3>1
    <3>3. \A d \in w.rows : \A i \in DOMAIN letters[d] : i \in DOMAIN letters'[d]
      BY <3>1
    <3>4. InOrder(t, w)'
      BY <3>1, <3>2, <3>3 DEF InOrder
    <3>5. session'[t] = w
      BY <1>1, <2>2, <3>1
    <3>6. QED
      BY <3>4, <3>5 DEF InOrder
  <2>3. QED
    BY <2>1, <2>2
<1>5. HoldersDistinct'
  BY <1>1, KindsDisjoint DEF OrderInv, HoldersDistinct, Held
<1>6. QED
  BY <1>3, <1>4, <1>5 DEF OrderInv, RowsRouted, UnitsInOrder

\* A session that neither writes the database nor touches RabbitMQ.
LEMMA OrderLoad ==
  ASSUME OrderInv, TypeOK', NEW s \in Sessions, NEW u \in Session,
         session' = [session EXCEPT ![s] = u],
         UNCHANGED <<row, letters, place, target, brokerUp, consumed>>,
         InOrder(s, u), \A x \in u.rows : row[x].status # "NONE",
         u.copy \in Copies => u.copy = session[s].copy \/ ~Held(u.copy)
  PROVE  OrderInv'
<1>1. PICK v \in Session : /\ v = session[s] /\ InOrder(s, v)
                           /\ \A d \in v.rows : d \in Deliveries /\ row[d].status # "NONE"
  BY OrderKnown
<1>2. InOrder(s, u)'
  BY DEF InOrder
<1>3. QED
  BY <1>1, <1>2, OrderStep

LEMMA OrderRelease ==
  ASSUME OrderInv, TypeOK', NEW s \in Sessions, session' = [session EXCEPT ![s] = Idle],
         UNCHANGED <<row, letters, place, target, brokerUp, consumed>>
  PROVE  OrderInv'
<1>1. InOrder(s, Idle)
  BY IdleShape DEF InOrder
<1>2. QED
  BY <1>1, IdleShape, OrderLoad

\* A session publishes for one of its rows, or fails to.
LEMMA OrderPublish ==
  ASSUME OrderInv, TypeOK', NEW s \in Sessions, NEW v \in Session, v = session[s],
         NEW u \in Session, session' = [session EXCEPT ![s] = u],
         NEW d \in v.rows, NEW where \in {"queue", "waiting"}, NEW ok \in BOOLEAN,
         Publish(d, where, ok), UNCHANGED <<row, letters, brokerUp, consumed>>,
         v.pc \in {"retry", "work"}, u.pc = "work",
         u.rows = v.rows, u.todo \subseteq v.todo, u.copy = v.copy, u.letter = v.letter,
         \A x \in v.rows : x # d => u.change[x] = v.change[x],
         u.change[d].new.status = "NONE" => u.change[d].seen.status = "NONE",
         s \notin Operators => u.resolve = "OPEN"
  PROVE  OrderInv'
<1>1. InOrder(s, v) /\ \A x \in v.rows : x \in Deliveries /\ row[x].status # "NONE"
  BY OrderKnown
<1>2. \A c \in Copies : place[c] # "free" => place'[c] = place[c] /\ target'[c] = target[c]
  BY DEF Publish, PutCopy, OrderInv, TypeOK, BrokerTyped
<1>3. \A c \in Copies : target'[c] # target[c] => target'[c] = d
  BY DEF Publish, PutCopy, OrderInv, TypeOK, BrokerTyped
<1>4. \A t \in Sessions : \A c \in Copies : session[t].copy = c => place[c] = "dlq"
  BY DEF OrderInv, UnitsInOrder, InOrder
<1>5. InOrder(s, u)'
  BY <1>1, <1>2 DEF InOrder
<1>6. QED
  BY <1>1, <1>2, <1>3, <1>4, <1>5, OrderStep

LEMMA OrderCommit ==
  ASSUME OrderInv, TypeOK', NEW s \in Sessions, NEW v \in Session, v = session[s], Commit(v),
         NEW u \in Session, session' = [session EXCEPT ![s] = u],
         u.pc \in {"idle", "ack"}, u.rows = {}, u.todo = {}, u.resolve = "OPEN",
         u.copy \in Copies => u.copy = v.copy, UNCHANGED <<place, target, brokerUp, consumed>>
  PROVE  OrderInv'
<1>1. InOrder(s, v) /\ \A x \in v.rows : x \in Deliveries /\ row[x].status # "NONE"
  BY OrderKnown
<1>2. ASSUME NEW x \in v.rows
      PROVE  row'[x].status # "NONE" /\ \A i \in DOMAIN letters[x] : i \in DOMAIN letters'[x]
  <2>1. row'[x] = Flush(row[x], v.change[x]) /\ letters'[x] = FlushLetters(x, v)
    BY <1>1, CommitFrame
  <2>2. v.change[x].new.status = "NONE" => v.change[x].seen.status = "NONE"
    BY <1>1 DEF InOrder
  <2>3. QED
    BY <1>1, <2>1, <2>2, FlushFields, LettersFlushed DEF OrderInv, TypeOK
<1>3. InOrder(s, u)'
  BY <1>1 DEF InOrder
<1>4. QED
  BY <1>1, <1>2, <1>3, CommitFrame, OrderStep

\* A handler takes its copy out of q.dlq; nobody else has it.
LEMMA OrderTakeOut ==
  ASSUME OrderInv, TypeOK', NEW h \in DlqHandlers, TakeOut(h),
         session' = [session EXCEPT ![h] = Idle], UNCHANGED <<row, letters, brokerUp, consumed>>
  PROVE  OrderInv'
<1>1. h \in Sessions
  BY KindsDisjoint
<1>2. PICK v \in Session : /\ v = session[h] /\ InOrder(h, v)
                           /\ \A d \in v.rows : d \in Deliveries /\ row[d].status # "NONE"
  BY <1>1, OrderKnown
<1>3. \A c \in Copies : IF c = v.copy THEN target'[c] = NoDelivery
                        ELSE place'[c] = place[c] /\ target'[c] = target[c]
  BY <1>2 DEF TakeOut
<1>4. \A t \in Sessions : \A c \in Copies : t # h /\ session[t].copy = c => c # v.copy
  BY <1>2 DEF OrderInv, HoldersDistinct, UnitsInOrder, InOrder
<1>5. InOrder(h, Idle)'
  BY IdleShape DEF InOrder
<1>6. PICK u : u = Idle
  OBVIOUS
<1>7. u \in Session /\ u.rows = {} /\ u.copy \notin Copies /\ InOrder(h, u)'
  BY <1>5, <1>6, IdleShape DEF InOrder
<1>8. QED
  BY <1>1, <1>2, <1>3, <1>4, <1>6, <1>7, OrderStep

LEMMA OrderHandler ==
  ASSUME OrderInv, TypeOK', NEW h \in DlqHandlers, Handler(h)
  PROVE  OrderInv'
<1>0. h \in Sessions /\ h \notin Operators /\ TypeOK
  BY KindsDisjoint DEF OrderInv
<1>1. ASSUME NEW c \in Copies, HandleDlqMessage(h, c)
      PROVE  OrderInv'
  <2>1. /\ brokerUp /\ place[c] = "dlq" /\ ~Held(c)
        /\ UNCHANGED <<row, letters, place, target, brokerUp, consumed>>
    BY <1>1 DEF HandleDlqMessage, database, broker
  <2>2. PICK d \in Deliveries : d = target[c]
    BY <1>0, <1>1, TakeInShape
  <2>3. PICK u \in Session :
          /\ session' = [session EXCEPT ![h] = u] /\ u.pc \in {"work", "retry"}
          /\ u.rows = {d} /\ u.todo = {} /\ u.copy = c /\ u.resolve = "OPEN"
          /\ \/ u.change[d] = exhaust(row[d], row[d].attempts)
             \/ u.change[d] = Loaded(row[d])
    BY <1>0, <1>1, <2>2, TakeInShape
  <2>4. row[d] \in Row /\ row[d].status # "NONE"
    BY <2>2 DEF OrderInv, RowsRouted, Unrouted, TypeOK, DatabaseTyped
  <2>5. u.change[d].new.status = "NONE" => u.change[d].seen.status = "NONE"
    BY <2>3, <2>4, ExhaustKeeps, LoadedKeeps
  <2>6. InOrder(h, u)
    BY <1>0, <2>1, <2>2, <2>3, <2>5 DEF InOrder
  <2>7. QED
    BY <1>0, <2>1, <2>3, <2>4, <2>6, OrderLoad
<1>2. ASSUME NEW d \in Deliveries, ScheduleRetry(h, d)
      PROVE  OrderInv'
  <2>1. UNCHANGED <<row, letters, brokerUp, consumed>>
    BY <1>2 DEF ScheduleRetry, database
  <2>2. PICK v \in Session : v = session[h] /\ InOrder(h, v)
    BY <1>0, OrderKnown
  <2>3. PICK u \in Session, published \in BOOLEAN :
          /\ Publish(d, "waiting", published) /\ session' = [session EXCEPT ![h] = u]
          /\ v.pc = "retry" /\ d \in v.rows /\ u.pc = "work" /\ u.rows = v.rows /\ u.copy = v.copy
          /\ u.todo \subseteq v.todo /\ u.letter = v.letter /\ u.resolve = v.resolve
          /\ u.change[d] = schedule_retry(v.change[d].seen, published)
          /\ \A x \in Deliveries : x # d => u.change[x] = v.change[x]
    BY <1>0, <1>2, <2>2, ScheduleRetryShape
  <2>4. u.change[d].new.status = "RETRYING"
    BY <2>3, RetryKeeps DEF Session, Change
  <2>5. \A x \in v.rows : x # d => u.change[x] = v.change[x]
    BY <2>3 DEF Session
  <2>6. u.resolve = "OPEN" /\ "waiting" \in {"queue", "waiting"} /\ v.pc \in {"retry", "work"}
    BY <1>0, <2>2, <2>3 DEF InOrder
  <2>7. QED
    BY <1>0, <2>1, <2>2, <2>3, <2>4, <2>5, <2>6, OrderPublish
<1>3. CASE DlqCommit(h)
  <2>1. UNCHANGED <<place, target, brokerUp, consumed>>
    BY <1>3 DEF DlqCommit, broker
  <2>2. PICK v \in Session : v = session[h]
    BY <1>0 DEF TypeOK, SessionsTyped
  <2>3. PICK u \in Session :
          /\ session' = [session EXCEPT ![h] = u] /\ Commit(v)
          /\ u.pc = "ack" /\ u.rows = {} /\ u.todo = {} /\ u.copy = v.copy /\ u.resolve = "OPEN"
    BY <1>0, <1>3, <2>2, DlqCommitShape
  <2>4. QED
    BY <1>0, <2>1, <2>2, <2>3, OrderCommit
<1>4. CASE DlqAck(h) \/ DlqFail(h)
  <2>1. /\ TakeOut(h) /\ session' = [session EXCEPT ![h] = Idle]
        /\ UNCHANGED <<row, letters, brokerUp, consumed>>
    BY <1>4 DEF DlqAck, DlqFail, database
  <2>2. QED
    BY <2>1, OrderTakeOut
<1>5. CASE DlqCrash(h)
  <2>1. /\ session' = [session EXCEPT ![h] = Idle]
        /\ UNCHANGED <<row, letters, place, target, brokerUp, consumed>>
    BY <1>5 DEF DlqCrash, database, broker
  <2>2. QED
    BY <1>0, <2>1, OrderRelease
<1>6. QED
  BY <1>1, <1>2, <1>3, <1>4, <1>5 DEF Handler

LEMMA OrderScan ==
  ASSUME OrderInv, TypeOK', NEW s \in Scans, Scan(s)
  PROVE  OrderInv'
<1>0. s \in Sessions /\ s \notin Operators /\ TypeOK /\ NoCopy \notin Copies
  BY KindsDisjoint, DeliveryCycleAssumption DEF OrderInv
<1>1. CASE DueRead(s)
  <2>1. UNCHANGED <<row, letters, place, target, brokerUp, consumed>>
    BY <1>1 DEF DueRead, database, broker
  <2>2. PICK u \in Session :
          /\ session' = [session EXCEPT ![s] = u]
          /\ u.rows \subseteq {d \in Deliveries : Due(d) /\ MayLoad(d)}
          /\ u.pc = "work" /\ u.todo = u.rows /\ u.copy = NoCopy /\ u.resolve = "OPEN"
          /\ \A x \in Deliveries : u.change[x] = Loaded(IF x \in u.rows THEN row[x] ELSE NoRow)
    BY <1>0, <1>1, DueReadShape
  <2>3. \A x \in u.rows : row[x].status = "RETRYING" /\ u.change[x].new.status = "RETRYING"
    <3>1. ASSUME NEW x \in u.rows
          PROVE  row[x].status = "RETRYING" /\ u.change[x].new.status = "RETRYING"
      <4>1. x \in Deliveries /\ row[x].status = "RETRYING"
        BY <2>2 DEF Due
      <4>2. u.change[x] = Loaded(row[x])
        BY <2>2, <4>1
      <4>3. QED
        BY <4>1, <4>2 DEF Loaded, Write
    <3>2. QED
      BY <3>1
  <2>4. InOrder(s, u)
    BY <1>0, <2>2, <2>3 DEF InOrder
  <2>5. QED
    BY <1>0, <2>1, <2>2, <2>3, <2>4, OrderLoad
<1>2. ASSUME NEW d \in Deliveries, DuePublish(s, d)
      PROVE  OrderInv'
  <2>1. UNCHANGED <<row, letters, brokerUp, consumed>>
    BY <1>2 DEF DuePublish, database
  <2>2. PICK v \in Session : v = session[s] /\ InOrder(s, v)
    BY <1>0, OrderKnown
  <2>3. PICK u \in Session, published \in BOOLEAN :
          /\ Publish(d, "queue", published) /\ session' = [session EXCEPT ![s] = u]
          /\ v.pc = "work" /\ d \in v.todo /\ u.pc = "work" /\ u.rows = v.rows /\ u.copy = v.copy
          /\ u.todo \subseteq v.todo /\ u.letter = v.letter /\ u.resolve = v.resolve
          /\ u.change[d] = due_attempt(v.change[d].seen, published)
          /\ \A x \in Deliveries : x # d => u.change[x] = v.change[x]
    BY <1>0, <1>2, <2>2, DuePublishShape
  <2>4. d \in v.rows /\ \A x \in v.rows : x # d => u.change[x] = v.change[x]
    BY <2>2, <2>3 DEF InOrder, Session
  <2>5. v.change[d].seen \in Row
    BY DEF Session, Change
  <2>6. u.change[d].new.status = "NONE" => u.change[d].seen.status = "NONE"
    BY <2>3, <2>5, DueKeeps
  <2>7. u.resolve = "OPEN" /\ "queue" \in {"queue", "waiting"} /\ v.pc \in {"retry", "work"}
    BY <1>0, <2>2, <2>3 DEF InOrder
  <2>8. QED
    BY <1>0, <2>1, <2>2, <2>3, <2>4, <2>6, <2>7, OrderPublish
<1>3. CASE DueCommit(s)
  <2>1. /\ session' = [session EXCEPT ![s] = Idle] /\ Commit(session[s])
        /\ UNCHANGED <<place, target, brokerUp, consumed>>
    BY <1>3 DEF DueCommit, broker
  <2>2. PICK v \in Session : v = session[s]
    BY <1>0 DEF TypeOK, SessionsTyped
  <2>3. QED
    BY <1>0, <2>1, <2>2, IdleShape, OrderCommit
<1>4. CASE Rollback(s)
  <2>1. /\ session' = [session EXCEPT ![s] = Idle]
        /\ UNCHANGED <<row, letters, place, target, brokerUp, consumed>>
    BY <1>4 DEF Rollback, database, broker
  <2>2. QED
    BY <1>0, <2>1, OrderRelease
<1>5. QED
  BY <1>1, <1>2, <1>3, <1>4 DEF Scan

LEMMA OrderOperator ==
  ASSUME OrderInv, TypeOK', NEW o \in Operators, Operator(o)
  PROVE  OrderInv'
<1>0. o \in Sessions /\ o \notin DlqHandlers /\ TypeOK /\ NoCopy \notin Copies
  BY KindsDisjoint, DeliveryCycleAssumption DEF OrderInv
<1>1. ASSUME NEW d \in Deliveries, NEW i \in DOMAIN letters[d], NEW request \in {"retry", "discard"},
             OpenRequest(o, d, i, request)
      PROVE  OrderInv'
  <2>1. UNCHANGED <<row, letters, place, target, brokerUp, consumed>>
    BY <1>1 DEF OpenRequest, database, broker
  <2>typed. TypeOK
    BY <1>0
  <2>opened. Opened(o, d, i, request)
    BY <1>1, <2>typed, OpenRequestShape
  <2>2. PICK u \in Session :
          /\ session' = [session EXCEPT ![o] = u] /\ u.pc = request /\ u.rows = {d}
          /\ u.todo = {} /\ u.copy = NoCopy /\ u.letter = i /\ u.resolve = "OPEN"
          /\ \A x \in Deliveries : u.change[x] = Loaded(NoRow)
    BY <2>opened DEF Opened
  <2>3. row[d].status # "NONE"
    BY <1>1 DEF OrderInv, RowsRouted, Unrouted
  <2>4. u.change[d].new.status = u.change[d].seen.status
    BY <2>2 DEF Loaded, Write, NoRow
  <2>5. InOrder(o, u)
    BY <1>0, <2>2, <2>4 DEF InOrder
  <2>6. QED
    BY <1>0, <2>1, <2>2, <2>3, <2>5, OrderLoad
<1>2. ASSUME NEW d \in Deliveries, RetryPublish(o, d)
      PROVE  OrderInv'
  <2>1. UNCHANGED <<row, letters, brokerUp, consumed>>
    BY <1>2 DEF RetryPublish, database
  <2>2. PICK v \in Session : v = session[o] /\ InOrder(o, v)
    BY <1>0, OrderKnown
  <2>3. PICK u \in Session, published \in BOOLEAN :
          /\ Publish(d, "queue", published) /\ session' = [session EXCEPT ![o] = u]
          /\ v.pc = "retry" /\ d \in v.rows /\ u.pc = "work" /\ u.rows = v.rows /\ u.copy = v.copy
          /\ u.todo \subseteq v.todo /\ u.letter = v.letter
          /\ u.change[d] = IF published THEN republish(row[d]) ELSE v.change[d]
          /\ \A x \in Deliveries : x # d => u.change[x] = v.change[x]
    BY <1>0, <1>2, <2>2, RetryPublishShape
  <2>4. u.change[d].new.status = "NONE" => u.change[d].seen.status = "NONE"
    BY <2>2, <2>3, ManualKeeps DEF InOrder
  <2>5. \A x \in v.rows : x # d => u.change[x] = v.change[x]
    BY <2>3 DEF Session
  <2>6. "queue" \in {"queue", "waiting"} /\ v.pc \in {"retry", "work"}
    BY <2>3
  <2>7. QED
    BY <1>0, <2>1, <2>2, <2>3, <2>4, <2>5, <2>6, OrderPublish
<1>3. ASSUME NEW d \in Deliveries, DiscardLoad(o, d)
      PROVE  OrderInv'
  <2>1. UNCHANGED <<row, letters, place, target, brokerUp, consumed>>
    BY <1>3 DEF DiscardLoad, database, broker
  <2>2. PICK v \in Session : /\ v = session[o] /\ InOrder(o, v)
                             /\ \A x \in v.rows : x \in Deliveries /\ row[x].status # "NONE"
    BY <1>0, OrderKnown
  <2>3. PICK u \in Session :
          /\ session' = [session EXCEPT ![o] = u] /\ d \in v.rows
          /\ u.pc = "work" /\ u.rows = v.rows /\ u.todo = v.todo /\ u.copy = v.copy
          /\ u.letter = v.letter /\ u.change[d] = discard(row[d])
    BY <1>0, <1>3, <2>2, DiscardLoadShape
  <2>4. u.change[d].new.status = "DISCARDED" /\ v.rows = {d}
    BY <1>0, <2>2, <2>3, ManualKeeps DEF InOrder
  <2>5. InOrder(o, u)
    BY <1>0, <2>2, <2>3, <2>4 DEF InOrder
  <2>6. QED
    BY <1>0, <2>1, <2>2, <2>3, <2>5, OrderLoad
<1>4. CASE RequestCommit(o)
  <2>1. /\ session' = [session EXCEPT ![o] = Idle] /\ Commit(session[o])
        /\ UNCHANGED <<place, target, brokerUp, consumed>>
    BY <1>4 DEF RequestCommit, broker
  <2>2. PICK v \in Session : v = session[o]
    BY <1>0 DEF TypeOK, SessionsTyped
  <2>3. QED
    BY <1>0, <2>1, <2>2, IdleShape, OrderCommit
<1>5. CASE Rollback(o)
  <2>1. /\ session' = [session EXCEPT ![o] = Idle]
        /\ UNCHANGED <<row, letters, place, target, brokerUp, consumed>>
    BY <1>5 DEF Rollback, database, broker
  <2>2. QED
    BY <1>0, <2>1, OrderRelease
<1>6. QED
  BY <1>1, <1>2, <1>3, <1>4, <1>5 DEF Operator

LEMMA OrderRabbitMQ ==
  ASSUME OrderInv, TypeOK', RabbitMQ \/ UNCHANGED vars
  PROVE  OrderInv'
<1>1. ASSUME NEW c \in Copies, ConsumerAck(c) \/ ConsumerNack(c) \/ TtlExpire(c)
      PROVE  OrderInv'
  <2>1. /\ UNCHANGED <<row, letters, session, brokerUp>> /\ place[c] # "dlq"
        /\ \A x \in Copies : x # c => place'[x] = place[x] /\ target'[x] = target[x]
        /\ target'[c] \in {target[c], NoDelivery} /\ target[c] \in Deliveries
        /\ \A d \in Deliveries : d # target[c] => (consumed'[d] <=> consumed[d])
    BY <1>1 DEF ConsumerAck, ConsumerNack, TtlExpire, Move, database, OrderInv, TypeOK, BrokerTyped
  <2>2. RowsRouted'
    <3>1. ASSUME NEW d \in Deliveries, Unrouted(d), ~consumed[d]
          PROVE  Unrouted(d)' /\ ~consumed'[d]
      BY <2>1, <3>1, DeliveryCycleAssumption DEF Unrouted
    <3>2. QED
      BY <2>1, <3>1 DEF OrderInv, RowsRouted
  <2>3. \A s \in Sessions : session[s].copy # c
    BY <2>1 DEF OrderInv, UnitsInOrder, InOrder
  <2>4. UnitsInOrder'
    BY <2>1, <2>3 DEF OrderInv, UnitsInOrder, InOrder
  <2>5. QED
    BY <2>1, <2>2, <2>4 DEF OrderInv, HoldersDistinct
<1>2. CASE BrokerDown
  <2>1. UNCHANGED <<row, letters, place, target, consumed>>
    BY <1>2 DEF BrokerDown, database
  <2>2. \A s \in Sessions : session'[s].copy \notin Copies /\ SameButCopy(s)
    BY <1>2, OutageFrame DEF OrderInv
  <2>3. RowsRouted'
    BY <2>1, <2>2 DEF OrderInv, RowsRouted, Unrouted, SameButCopy
  <2>4. UnitsInOrder'
    BY <2>1, <2>2 DEF OrderInv, UnitsInOrder, InOrder, SameButCopy
  <2>5. HoldersDistinct'
    BY <2>2 DEF HoldersDistinct, Sessions
  <2>6. QED
    BY <2>3, <2>4, <2>5 DEF OrderInv
<1>3. CASE BrokerUp \/ UNCHANGED vars
  <2>1. UNCHANGED <<row, letters, place, target, consumed, session>> /\ (brokerUp => brokerUp')
    BY <1>3 DEF BrokerUp, vars, database, broker
  <2>2. RowsRouted' /\ UnitsInOrder' /\ HoldersDistinct'
    BY <2>1 DEF OrderInv, RowsRouted, Unrouted, UnitsInOrder, InOrder, HoldersDistinct
  <2>3. QED
    BY <2>2 DEF OrderInv
<1>4. QED
  BY <1>1, <1>2, <1>3 DEF RabbitMQ

LEMMA OrderRoute ==
  ASSUME OrderInv, TypeOK', NEW d \in Deliveries, Route(d)
  PROVE  OrderInv' /\ row'[d].status # "NONE" /\ Unrouted(d)
         /\ \A x \in Deliveries : x # d => row'[x] = row[x]
<1>1. PICK published \in BOOLEAN :
        Publish(d, "queue", published) /\ row' = [row EXCEPT ![d] = first_attempt(published)]
  BY DEF Route
<1>2. row[d] = NoRow /\ UNCHANGED <<letters, session, brokerUp, consumed>>
  BY DEF Route
<1>3. Unrouted(d)
  BY <1>2 DEF OrderInv, RowsRouted, NoRow
<1>4. row'[d].status # "NONE" /\ \A x \in Deliveries : x # d => row'[x] = row[x]
  BY <1>1 DEF OrderInv, TypeOK, DatabaseTyped, first_attempt
<1>5. \A c \in Copies : /\ place[c] # "free" => place'[c] = place[c] /\ target'[c] = target[c]
                        /\ target'[c] # target[c] => target'[c] = d
  BY <1>1 DEF Publish, PutCopy, OrderInv, TypeOK, BrokerTyped
<1>6. RowsRouted'
  <2>1. ASSUME NEW x \in Deliveries, x # d, Unrouted(x)
        PROVE  Unrouted(x)'
    BY <1>2, <1>4, <1>5, <2>1 DEF Unrouted
  <2>2. QED
    BY <1>2, <1>4, <2>1 DEF OrderInv, RowsRouted
<1>7. UnitsInOrder'
  BY <1>2, <1>5 DEF OrderInv, UnitsInOrder, InOrder
<1>8. QED
  BY <1>2, <1>3, <1>4, <1>6, <1>7 DEF OrderInv, HoldersDistinct

LEMMA StepOrdered ==
  ASSUME OrderInv, [Next]_vars
  PROVE  OrderInv'
<1>1. TypeOK'
  BY StepTyped DEF OrderInv
<1>2. QED
  BY <1>1, OrderHandler, OrderScan, OrderOperator, OrderRabbitMQ, OrderRoute DEF Next

LEMMA InitOrdered == Init => OrderInv
<1> SUFFICES ASSUME Init PROVE OrderInv
  OBVIOUS
<1>1. \A s \in Sessions : session[s] = Idle
  BY DEF Init
<1>2. RowsRouted /\ UnitsInOrder /\ HoldersDistinct
  BY <1>1, IdleShape, KindsDisjoint, DeliveryCycleAssumption
     DEF Init, RowsRouted, Unrouted, UnitsInOrder, InOrder, HoldersDistinct
<1>3. QED
  BY <1>2, InitTyped DEF OrderInv

=============================================================================
