---------------------------- MODULE CustodyProofs ----------------------------
(***************************************************************************)
(* The proofs of who answers for a delivery in DeliveryCycle, for any      *)
(* number of deliveries, copies, handlers, scans and operators:            *)
(*   - none is forgotten, whatever sessions overlap, as long as RabbitMQ   *)
(*     refuses no publish;                                                 *)
(*   - none is forgotten, whatever fails, while sessions do not overlap on *)
(*     a delivery;                                                         *)
(*   - the audit keeps up with the attempts, as long as there is no outage;*)
(*   - while sessions do not overlap and nothing but refusals happens, one *)
(*     place at most answers for a delivery and its open letters are those *)
(*     of a DEAD delivery.                                                 *)
(***************************************************************************)
EXTENDS DeliveryCycleProofs, FiniteSetTheorems

-----------------------------------------------------------------------------
(* A step of one session that neither writes the database nor touches      *)
(* RabbitMQ leaves each delivery with whoever answers for it.              *)

LEMMA LoadStep ==
  ASSUME CustodyInv, NEW s \in Sessions, NEW u, session' = [session EXCEPT ![s] = u],
         UNCHANGED <<row, letters, place, target, consumed, dropped>>,
         \A d \in u.rows : letters[d] = <<>> => KeepsDue(u.change[d]),
         u.pc = "work" => u.resolve # "RETRIED",
         u.copy \in Copies => u.pc # "ack" /\ (u.pc = "work" => u.change[target[u.copy]].opens)
  PROVE  RowsKept'
<1>1. session'[s] = u /\ \A o \in Sessions : o # s => session'[o] = session[o]
  BY DEF CustodyInv, OrderInv, TypeOK, SessionsTyped
<1>2. \A c \in Copies : Replaced(c)' => Replaced(c)
  BY <1>1 DEF Replaced, Sessions
<1>3. \A d \in Deliveries : \A i : Retried(d, i)' => Retried(d, i)
  BY <1>1 DEF Retried, Sessions
<1>4. ASSUME NEW d \in Deliveries, Custody(d)
      PROVE  Custody(d)'
  <2>1. Carried(d) => Carried(d)'
    BY <1>2 DEF Carried
  <2>2. Filed(d) => Filed(d)'
    BY <1>3 DEF Filed
  <2>3. Scheduled(d) => Scheduled(d)'
    BY <1>1 DEF Scheduled, Due, KeepsDue
  <2>4. QED
    BY <1>4, <2>1, <2>2, <2>3 DEF Custody
<1>5. QED
  BY <1>4 DEF CustodyInv, RowsKept

\* A session that drops its unit of work.
LEMMA ReleaseStep ==
  ASSUME CustodyInv, NEW s \in Sessions, session' = [session EXCEPT ![s] = Idle],
         UNCHANGED <<row, letters, place, target, consumed, dropped>>
  PROVE  RowsKept'
BY IdleShape, LoadStep

-----------------------------------------------------------------------------
(* Publishing.                                                             *)

\* Without refusals, a publish that puts no copy met an outage.
LEMMA PublishCases ==
  ASSUME "refusal" \notin FaultKinds, NEW d \in Deliveries, NEW where, NEW ok \in BOOLEAN,
         Publish(d, where, ok)
  PROVE  PutCopy(d, where) \/ (~ok /\ ~brokerUp /\ UNCHANGED <<place, target>>)
BY DEF Publish, Fault

LEMMA PutCopyStep ==
  ASSUME OrderInv, NEW d \in Deliveries, NEW where \in {"queue", "waiting"}, PutCopy(d, where)
  PROVE  \E n \in Copies : /\ place[n] = "free" /\ target[n] = NoDelivery /\ target'[n] = d
                           /\ \A s \in Sessions : session[s].copy # n
                           /\ \A c \in Copies : c # n => place'[c] = place[c] /\ target'[c] = target[c]
<1>1. PICK n \in Copies : /\ place[n] = "free"
                          /\ place' = [place EXCEPT ![n] = where]
                          /\ target' = [target EXCEPT ![n] = d]
  BY DEF PutCopy
<1>2. target[n] = NoDelivery
  BY <1>1 DEF OrderInv, TypeOK, BrokerTyped
<1>3. \A s \in Sessions : session[s].copy # n
  BY <1>1 DEF OrderInv, UnitsInOrder, InOrder
<1>4. QED
  BY <1>1, <1>2, <1>3 DEF OrderInv, TypeOK, BrokerTyped

\* A session publishes for one of its rows.
LEMMA PublishStep ==
  ASSUME CustodyInv, "refusal" \notin FaultKinds,
         NEW s \in Sessions, NEW v \in Session, v = session[s],
         NEW u \in Session, session' = [session EXCEPT ![s] = u],
         NEW d \in v.rows, NEW where \in {"queue", "waiting"}, NEW ok \in BOOLEAN,
         Publish(d, where, ok),
         UNCHANGED <<row, letters, consumed, dropped>>,
         v.pc \in {"retry", "work"}, u.pc = "work",
         u.rows = v.rows, u.copy = v.copy, u.letter = v.letter,
         \A x \in v.rows : x # d => u.change[x] = v.change[x],
         s \notin Operators => u.resolve = "OPEN",
         ~ok => u.resolve # "RETRIED" /\ (letters[d] # <<>> \/ KeepsDue(u.change[d]))
  PROVE  RowsKept'
<1>1. session'[s] = u /\ \A o \in Sessions : o # s => session'[o] = session[o]
  BY DEF CustodyInv, OrderInv, TypeOK, SessionsTyped
<1>2. InOrder(s, v) /\ d \in Deliveries
  BY OrderKnown DEF CustodyInv
<1>3. CASE PutCopy(d, where)
  <2>1. PICK n \in Copies :
          /\ place[n] = "free" /\ target[n] = NoDelivery /\ target'[n] = d
          /\ \A o \in Sessions : session[o].copy # n
          /\ \A c \in Copies : c # n => place'[c] = place[c] /\ target'[c] = target[c]
    BY <1>2, <1>3, PutCopyStep DEF CustodyInv
  <2>2. Custody(d)'
    <3>1. ~Replaced(n)'
      BY <1>1, <2>1 DEF Replaced, Sessions
    <3>2. QED
      BY <2>1, <3>1 DEF Custody, Carried
  <2>3. ASSUME NEW x \in Deliveries, x # d, Custody(x)
        PROVE  Custody(x)'
    <3>1. Carried(x) => Carried(x)'
      <4>1. ASSUME NEW c \in Copies, target[c] = x, Replaced(c)'
            PROVE  Replaced(c)
        <5>1. c # n
          BY <2>1, <4>1, DeliveryCycleAssumption
        <5>2. v.copy # c
          BY <1>2, <2>3, <4>1 DEF InOrder
        <5>3. target'[c] = target[c]
          BY <2>1, <5>1
        <5>4. QED
          BY <1>1, <4>1, <5>2, <5>3 DEF Replaced, Sessions
      <4>2. \A c \in Copies : target[c] = x => target'[c] = x
        BY <2>1, DeliveryCycleAssumption
      <4>3. QED
        BY <4>1, <4>2 DEF Carried
    <3>2. Filed(x) => Filed(x)'
      <4>1. \A i : Retried(x, i)' => Retried(x, i)
        BY <1>1, <1>2, <2>3 DEF Retried, Sessions, InOrder
      <4>2. QED
        BY <4>1 DEF Filed
    <3>3. Scheduled(x) => Scheduled(x)'
      BY <1>1, <2>3 DEF Scheduled, Due, KeepsDue
    <3>4. QED
      BY <2>3, <3>1, <3>2, <3>3 DEF Custody
  <2>4. QED
    BY <2>2, <2>3 DEF CustodyInv, RowsKept
<1>4. CASE ~ok /\ ~brokerUp /\ UNCHANGED <<place, target>>
  <2>1. \A o \in Sessions : session'[o].copy \notin Copies
    BY <1>1, <1>4 DEF CustodyInv, OrderInv, UnitsInOrder, InOrder
  <2>2. ASSUME NEW x \in Deliveries, Custody(x)
        PROVE  Custody(x)'
    <3>1. Carried(x) => Carried(x)'
      BY <1>4, <2>1 DEF Carried, Replaced, Sessions
    <3>2. Filed(x) => Filed(x)'
      <4>1. \A i : Retried(x, i)' => Retried(x, i)
        BY <1>1, <1>4 DEF Retried, Sessions
      <4>2. QED
        BY <4>1 DEF Filed
    <3>3. Scheduled(x) => Scheduled(x)'
      <4>1. ASSUME Scheduled(x), NEW o \in Sessions, x \in session'[o].rows
            PROVE  KeepsDue(session'[o].change[x])
        <5>1. CASE o # s
          BY <1>1, <4>1, <5>1 DEF Scheduled
        <5>2. CASE o = s /\ x # d
          <6>1. KeepsDue(v.change[x]) /\ session'[o].change[x] = v.change[x]
            BY <1>1, <4>1, <5>2 DEF Scheduled
          <6>2. QED
            BY <6>1
        <5>3. CASE o = s /\ x = d
          <6>1. KeepsDue(u.change[d]) /\ session'[o].change[x] = u.change[d]
            BY <1>1, <1>4, <4>1, <5>3 DEF Scheduled
          <6>2. QED
            BY <6>1
        <5>4. QED
          BY <5>1, <5>2, <5>3
      <4>2. QED
        BY <4>1 DEF Scheduled, Due
    <3>4. QED
      BY <2>2, <3>1, <3>2, <3>3 DEF Custody
  <2>3. QED
    BY <2>2 DEF CustodyInv, RowsKept
<1>5. QED
  BY <1>2, <1>3, <1>4, PublishCases

-----------------------------------------------------------------------------
(* The commits: the session has no rows any more.                          *)

LEMMA CommitStep ==
  ASSUME CustodyInv, NEW s \in Sessions, NEW v \in Session, v = session[s],
         v.pc = "work", Commit(v),
         NEW u \in Session, session' = [session EXCEPT ![s] = u],
         u.pc \in {"idle", "ack"}, u.rows = {},
         u.copy \in Copies => u.copy = v.copy,
         UNCHANGED <<target, consumed, dropped>>
  PROVE  RowsKept'
<1>1. session'[s] = u /\ \A o \in Sessions : o # s => session'[o] = session[o]
  BY DEF CustodyInv, OrderInv, TypeOK, SessionsTyped
<1>2. InOrder(s, v) /\ \A d \in v.rows : d \in Deliveries /\ row[d].status # "NONE"
  BY OrderKnown DEF CustodyInv
<1>3. /\ \A d \in Deliveries : d \notin v.rows => row'[d] = row[d] /\ letters'[d] = letters[d]
      /\ \A d \in v.rows : row'[d] = Flush(row[d], v.change[d]) /\ letters'[d] = FlushLetters(d, v)
  BY <1>2, CommitFrame
<1>4. /\ \A d \in Deliveries : \A i \in DOMAIN letters[d] :
           /\ i \in DOMAIN letters'[d]
           /\ letters'[d][i] = IF d \in v.rows /\ i = v.letter /\ v.resolve # "OPEN" THEN v.resolve
                               ELSE letters[d][i]
      /\ \A d \in v.rows : v.change[d].opens =>
           \E n \in DOMAIN letters'[d] : letters'[d][n] = "OPEN" /\ n \notin DOMAIN letters[d]
      /\ \A d \in v.rows : letters[d] = <<>> /\ ~v.change[d].opens => letters'[d] = <<>>
  BY <1>2, <1>3, LettersFlushed DEF CustodyInv, OrderInv, TypeOK
<1>5. \A d \in Deliveries : \A i : Retried(d, i)' => Retried(d, i) /\ i \in DOMAIN letters[d]
  <2>1. ASSUME NEW d \in Deliveries, NEW i, NEW o \in Operators, session'[o].pc = "work",
               d \in session'[o].rows, session'[o].letter = i, session'[o].resolve = "RETRIED"
        PROVE  Retried(d, i) /\ i \in DOMAIN letters[d]
    <3>1. o \in Sessions /\ o # s
      BY <1>1, <2>1 DEF Sessions
    <3>2. QED
      BY <1>1, <2>1, <3>1 DEF Retried, CustodyInv, OrderInv, UnitsInOrder, InOrder
  <2>2. QED
    BY <2>1 DEF Retried
<1>6. \A d \in v.rows : v.change[d].opens => Filed(d)'
  BY <1>2, <1>4, <1>5 DEF Filed
<1>7. ASSUME NEW d \in Deliveries, Custody(d)
      PROVE  Custody(d)'
  <2>1. ASSUME NEW c \in Copies, target[c] = d, ~Replaced(c)
        PROVE  Custody(d)'
    <3>1. CASE v.copy = c
      <4>1. s \in DlqHandlers /\ v.rows = {d}
        BY <1>2, <2>1, <3>1 DEF InOrder
      <4>2. v.change[d].opens
        BY <2>1, <3>1, <4>1 DEF Replaced
      <4>3. QED
        BY <1>6, <4>1, <4>2 DEF Custody
    <3>2. CASE v.copy # c
      <4>1. ~Replaced(c)'
        BY <1>1, <2>1, <3>2 DEF Replaced, Sessions
      <4>2. QED
        BY <2>1, <4>1 DEF Custody, Carried
    <3>3. QED
      BY <3>1, <3>2
  <2>2. ASSUME NEW i \in DOMAIN letters[d], letters[d][i] \in {"OPEN", "DISCARDED"}, ~Retried(d, i)
        PROVE  Filed(d)'
    <3>1. d \in v.rows /\ i = v.letter => v.resolve # "RETRIED"
      BY <1>2, <2>2 DEF Retried, InOrder
    <3>2. i \in DOMAIN letters'[d] /\ letters'[d][i] \in {"OPEN", "DISCARDED"}
      BY <1>4, <2>2, <3>1 DEF Session, LetterStatus
    <3>3. QED
      BY <1>5, <2>2, <3>2 DEF Filed
  <2>3. ASSUME Scheduled(d), d \notin v.rows \/ ~v.change[d].opens
        PROVE  Scheduled(d)'
    <3>1. letters'[d] = <<>>
      BY <1>3, <1>4, <2>3 DEF Scheduled
    <3>2. row'[d].status = "RETRYING" /\ row'[d].next
      <4>1. CASE d \notin v.rows
        BY <1>3, <2>3, <4>1 DEF Scheduled, Due
      <4>2. CASE d \in v.rows
        <5>1. row[d] \in Row /\ v.change[d] \in Change
          BY DEF CustodyInv, OrderInv, TypeOK, DatabaseTyped, Session
        <5>2. PICK r, ch : r = row[d] /\ ch = v.change[d]
          OBVIOUS
        <5>3. KeepsDue(ch) /\ ~ch.opens /\ r.status = "RETRYING" /\ r.next
          BY <2>3, <4>2, <5>2 DEF Scheduled, Due
        <5>4. Flush(r, ch).status = "RETRYING" /\ Flush(r, ch).next
          BY <5>1, <5>2, <5>3, FlushFields DEF KeepsDue
        <5>5. row'[d] = Flush(r, ch)
          BY <1>3, <4>2, <5>2
        <5>6. QED
          BY <5>4, <5>5
      <4>3. QED
        BY <4>1, <4>2
    <3>3. \A o \in Sessions : d \in session'[o].rows => KeepsDue(session'[o].change[d])
      BY <1>1, <2>3 DEF Scheduled
    <3>4. QED
      BY <3>1, <3>2, <3>3 DEF Scheduled, Due
  <2>4. CASE Scheduled(d)
    BY <1>6, <2>3, <2>4 DEF Custody
  <2>5. QED
    BY <1>7, <2>1, <2>2, <2>4 DEF Custody, Carried, Filed
<1>8. QED
  BY <1>2, <1>3, <1>7 DEF CustodyInv, RowsKept

-----------------------------------------------------------------------------
(* The handlers of q.dlq.                                                  *)

\* A handler removes its copy from q.dlq and drops its unit of work: the copy
\* was replaced, or the message is dropped.
LEMMA TakeOutStep ==
  ASSUME CustodyInv, NEW h \in DlqHandlers, TakeOut(h),
         session' = [session EXCEPT ![h] = Idle], UNCHANGED <<row, letters, consumed>>,
         \A d \in Deliveries : dropped[d] => dropped'[d],
         \A c \in Copies : session[h].copy = c
           => Replaced(c) \/ \A d \in Deliveries : target[c] = d => dropped'[d]
  PROVE  RowsKept'
<1>1. h \in Sessions /\ h \notin Operators
  BY KindsDisjoint
<1>2. session'[h] = Idle /\ \A o \in Sessions : o # h => session'[o] = session[o]
  BY <1>1 DEF CustodyInv, OrderInv, TypeOK, SessionsTyped
<1>3. \A c \in Copies : c # session[h].copy => target'[c] = target[c]
  BY DEF TakeOut
<1>4. ASSUME NEW c \in Copies, c # session[h].copy, Replaced(c)'
      PROVE  Replaced(c)
  <2>1. target'[c] = target[c]
    BY <1>3, <1>4
  <2>2. QED
    BY <1>2, <1>4, <2>1, IdleShape DEF Replaced, Sessions
<1>5. \A d \in Deliveries : \A i : Retried(d, i)' => Retried(d, i)
  BY <1>1, <1>2 DEF Retried, Sessions
<1>6. ASSUME NEW d \in Deliveries, Custody(d)
      PROVE  Custody(d)'
  <2>1. ASSUME NEW c \in Copies, target[c] = d, ~Replaced(c)
        PROVE  Custody(d)'
    <3>1. CASE c = session[h].copy
      BY <2>1, <3>1 DEF Custody
    <3>2. CASE c # session[h].copy
      BY <1>3, <1>4, <2>1, <3>2 DEF Custody, Carried
    <3>3. QED
      BY <3>1, <3>2
  <2>2. Filed(d) => Filed(d)'
    BY <1>5 DEF Filed
  <2>3. Scheduled(d) => Scheduled(d)'
    BY <1>2, IdleShape DEF Scheduled, Due, KeepsDue
  <2>4. QED
    BY <1>6, <2>1, <2>2, <2>3 DEF Custody, Carried
<1>7. QED
  BY <1>6 DEF CustodyInv, RowsKept

LEMMA HandlerKeeps ==
  ASSUME CustodyInv, "refusal" \notin FaultKinds, NEW h \in DlqHandlers, Handler(h)
  PROVE  RowsKept'
<1>0. h \in Sessions /\ h \notin Operators /\ TypeOK /\ OrderInv
  BY KindsDisjoint DEF CustodyInv, OrderInv
<1>1. ASSUME NEW c \in Copies, HandleDlqMessage(h, c)
      PROVE  RowsKept'
  <2>1. UNCHANGED <<row, letters, place, target, consumed, dropped>>
    BY <1>1 DEF HandleDlqMessage, database, broker
  <2>2. PICK d \in Deliveries : d = target[c]
    BY <1>0, <1>1, TakeInShape
  <2>3. PICK u \in Session :
          /\ session' = [session EXCEPT ![h] = u]
          /\ u.pc = IF attempts_exhausted(row[d].attempts) THEN "work" ELSE "retry"
          /\ u.rows = {d} /\ u.copy = c /\ u.resolve = "OPEN"
          /\ u.change[d] = IF attempts_exhausted(row[d].attempts)
                           THEN exhaust(row[d], row[d].attempts) ELSE Loaded(row[d])
    BY <1>0, <1>1, <2>2, TakeInShape
  <2>4. row[d] \in Row
    BY <1>0 DEF TypeOK, DatabaseTyped
  <2>5. KeepsDue(u.change[d])
    BY <2>3, <2>4, ExhaustKeeps, LoadedKeeps DEF KeepsDue
  <2>6. u.pc # "ack" /\ u.resolve # "RETRIED" /\ (u.pc = "work" => u.change[target[u.copy]].opens)
    BY <2>2, <2>3, ExhaustKeeps
  <2>7. QED
    BY <1>0, <2>1, <2>3, <2>5, <2>6, LoadStep
<1>2. ASSUME NEW d \in Deliveries, ScheduleRetry(h, d)
      PROVE  RowsKept'
  <2>1. UNCHANGED <<row, letters, consumed, dropped>>
    BY <1>2 DEF ScheduleRetry, database
  <2>2. PICK v \in Session : v = session[h] /\ InOrder(h, v)
    BY <1>0, OrderKnown
  <2>3. PICK u \in Session, published \in BOOLEAN :
          /\ Publish(d, "waiting", published) /\ session' = [session EXCEPT ![h] = u]
          /\ v.pc = "retry" /\ d \in v.rows /\ u.pc = "work" /\ u.rows = v.rows /\ u.copy = v.copy
          /\ u.letter = v.letter /\ u.resolve = v.resolve
          /\ u.change[d] = schedule_retry(v.change[d].seen, published)
          /\ \A x \in Deliveries : x # d => u.change[x] = v.change[x]
    BY <1>0, <1>2, <2>2, ScheduleRetryShape
  <2>4. ~published => KeepsDue(u.change[d])
    BY <2>3, RetryKeeps DEF Session, Change
  <2>5. \A x \in v.rows : x # d => u.change[x] = v.change[x]
    BY <2>3 DEF Session
  <2>6. u.resolve = "OPEN" /\ "waiting" \in {"queue", "waiting"} /\ v.pc \in {"retry", "work"}
    BY <1>0, <2>2, <2>3 DEF InOrder
  <2>7. ~published => u.resolve # "RETRIED" /\ (letters[d] # <<>> \/ KeepsDue(u.change[d]))
    BY <2>4, <2>6
  <2>8. QED
    BY <1>0, <2>1, <2>2, <2>3, <2>5, <2>6, <2>7, PublishStep
<1>3. CASE DlqCommit(h)
  <2>1. UNCHANGED <<target, consumed, dropped>>
    BY <1>3 DEF DlqCommit, broker
  <2>2. PICK v \in Session : v = session[h]
    BY <1>0 DEF TypeOK, SessionsTyped
  <2>3. PICK u \in Session :
          /\ session' = [session EXCEPT ![h] = u] /\ v.pc = "work" /\ Commit(v)
          /\ u.pc = "ack" /\ u.rows = {} /\ u.copy = v.copy
    BY <1>0, <1>3, <2>2, DlqCommitShape
  <2>4. QED
    BY <1>0, <2>1, <2>2, <2>3, CommitStep
<1>4. CASE DlqAck(h)
  <2>1. /\ TakeOut(h) /\ session' = [session EXCEPT ![h] = Idle] /\ session[h].pc = "ack"
        /\ UNCHANGED <<row, letters, consumed, dropped>>
    BY <1>4 DEF DlqAck, database
  <2>2. \A c \in Copies : session[h].copy = c => Replaced(c)
    BY <2>1 DEF Replaced
  <2>3. QED
    BY <2>1, <2>2, TakeOutStep
<1>5. CASE DlqCrash(h)
  <2>1. /\ session' = [session EXCEPT ![h] = Idle]
        /\ UNCHANGED <<row, letters, place, target, consumed, dropped>>
    BY <1>5 DEF DlqCrash, database, broker
  <2>2. QED
    BY <1>0, <2>1, ReleaseStep
<1>6. CASE DlqFail(h)
  <2>1. /\ TakeOut(h) /\ session' = [session EXCEPT ![h] = Idle]
        /\ session[h].pc \in {"retry", "work"}
        /\ UNCHANGED <<row, letters, consumed>>
        /\ dropped' = [d \in Deliveries |->
                         dropped[d] \/ (session[h].copy \in Copies /\ d \in session[h].rows)]
    BY <1>6 DEF DlqFail, database
  <2>2. PICK v \in Session : v = session[h] /\ InOrder(h, v)
    BY <1>0, OrderKnown
  <2>3. \A d \in Deliveries : dropped[d] => dropped'[d]
    BY <2>1
  <2>4. \A c \in Copies : session[h].copy = c => \A d \in Deliveries : target[c] = d => dropped'[d]
    BY <2>1, <2>2 DEF InOrder
  <2>5. QED
    BY <2>1, <2>3, <2>4, TakeOutStep
<1>7. QED
  BY <1>1, <1>2, <1>3, <1>4, <1>5, <1>6 DEF Handler

-----------------------------------------------------------------------------
(* The due scans.                                                          *)

LEMMA ScanKeeps ==
  ASSUME CustodyInv, "refusal" \notin FaultKinds, NEW s \in Scans, Scan(s)
  PROVE  RowsKept'
<1>0. s \in Sessions /\ s \notin Operators /\ TypeOK /\ OrderInv
  BY KindsDisjoint DEF CustodyInv, OrderInv
<1>1. CASE DueRead(s)
  <2>1. UNCHANGED <<row, letters, place, target, consumed, dropped>>
    BY <1>1 DEF DueRead, database, broker
  <2>2. PICK u \in Session :
          /\ session' = [session EXCEPT ![s] = u]
          /\ u.pc = "work" /\ u.copy = NoCopy /\ u.resolve = "OPEN"
          /\ \A x \in Deliveries : u.change[x] = Loaded(IF x \in u.rows THEN row[x] ELSE NoRow)
    BY <1>0, <1>1, DueReadShape
  <2>3. ASSUME NEW d \in u.rows
        PROVE  KeepsDue(u.change[d])
    <3>1. d \in Deliveries /\ row[d] \in Row
      BY <1>0, <2>3 DEF Session, TypeOK, DatabaseTyped
    <3>2. u.change[d] = Loaded(row[d])
      BY <2>2, <3>1
    <3>3. QED
      BY <3>1, <3>2, LoadedKeeps
  <2>4. QED
    BY <1>0, <2>1, <2>2, <2>3, DeliveryCycleAssumption, LoadStep
<1>2. ASSUME NEW d \in Deliveries, DuePublish(s, d)
      PROVE  RowsKept'
  <2>1. UNCHANGED <<row, letters, consumed, dropped>>
    BY <1>2 DEF DuePublish, database
  <2>2. PICK v \in Session : v = session[s] /\ InOrder(s, v)
    BY <1>0, OrderKnown
  <2>3. PICK u \in Session, published \in BOOLEAN :
          /\ Publish(d, "queue", published) /\ session' = [session EXCEPT ![s] = u]
          /\ v.pc = "work" /\ d \in v.todo /\ u.pc = "work" /\ u.rows = v.rows /\ u.copy = v.copy
          /\ u.letter = v.letter /\ u.resolve = v.resolve
          /\ u.change[d] = due_attempt(v.change[d].seen, published)
          /\ \A x \in Deliveries : x # d => u.change[x] = v.change[x]
    BY <1>0, <1>2, <2>2, DuePublishShape
  <2>4. d \in v.rows /\ \A x \in v.rows : x # d => u.change[x] = v.change[x]
    BY <2>2, <2>3 DEF InOrder, Session
  <2>5. ~published => KeepsDue(u.change[d])
    BY <2>3, DueKeeps DEF Session, Change
  <2>6. u.resolve = "OPEN" /\ "queue" \in {"queue", "waiting"} /\ v.pc \in {"retry", "work"}
    BY <1>0, <2>2, <2>3 DEF InOrder
  <2>7. ~published => u.resolve # "RETRIED" /\ (letters[d] # <<>> \/ KeepsDue(u.change[d]))
    BY <2>5, <2>6
  <2>8. /\ v = session[s] /\ session' = [session EXCEPT ![s] = u]
        /\ v.pc \in {"retry", "work"} /\ u.pc = "work"
        /\ u.rows = v.rows /\ u.copy = v.copy /\ u.letter = v.letter
        /\ s \notin Operators => u.resolve = "OPEN"
    BY <2>2, <2>3, <2>6
  <2>9. d \in v.rows /\ Publish(d, "queue", published)
    BY <2>3, <2>4
  <2>10. QED
    BY <1>0, <2>1, <2>4, <2>6, <2>7, <2>8, <2>9, PublishStep
<1>3. CASE DueCommit(s)
  <2>1. /\ session' = [session EXCEPT ![s] = Idle] /\ session[s].pc = "work"
        /\ Commit(session[s]) /\ UNCHANGED <<target, consumed, dropped>>
    BY <1>3 DEF DueCommit, broker
  <2>2. session[s] \in Session
    BY <1>0 DEF TypeOK, SessionsTyped
  <2>3. QED
    BY <1>0, <2>1, <2>2, IdleShape, CommitStep
<1>4. CASE Rollback(s)
  <2>1. /\ session' = [session EXCEPT ![s] = Idle]
        /\ UNCHANGED <<row, letters, place, target, consumed, dropped>>
    BY <1>4 DEF Rollback, database, broker
  <2>2. QED
    BY <1>0, <2>1, ReleaseStep
<1>5. QED
  BY <1>1, <1>2, <1>3, <1>4 DEF Scan

-----------------------------------------------------------------------------
(* The operators.                                                          *)

LEMMA OperatorKeeps ==
  ASSUME CustodyInv, "refusal" \notin FaultKinds, NEW o \in Operators, Operator(o)
  PROVE  RowsKept'
<1>0. o \in Sessions /\ o \notin DlqHandlers /\ TypeOK /\ OrderInv /\ NoCopy \notin Copies
  BY KindsDisjoint, DeliveryCycleAssumption DEF CustodyInv, OrderInv
<1>1. ASSUME NEW d \in Deliveries, NEW i \in DOMAIN letters[d], NEW request \in {"retry", "discard"},
             OpenRequest(o, d, i, request)
      PROVE  RowsKept'
  <2>1. UNCHANGED <<row, letters, place, target, consumed, dropped>>
    BY <1>1 DEF OpenRequest, database, broker
  <2>typed. TypeOK
    BY <1>0
  <2>opened. Opened(o, d, i, request)
    BY <1>1, <2>typed, OpenRequestShape
  <2>2. PICK u \in Session :
          /\ session' = [session EXCEPT ![o] = u] /\ u.pc = request /\ u.rows = {d}
          /\ u.todo = {} /\ u.copy = NoCopy /\ u.letter = i /\ u.resolve = "OPEN"
          /\ \A x \in Deliveries : u.change[x] = Loaded(NoRow)
    BY <2>opened DEF Opened
  <2>3. letters[d] # <<>>
    BY <1>1
  <2>4. QED
    BY <1>0, <2>1, <2>2, <2>3, LoadStep
<1>2. ASSUME NEW d \in Deliveries, RetryPublish(o, d)
      PROVE  RowsKept'
  <2>1. UNCHANGED <<row, letters, consumed, dropped>>
    BY <1>2 DEF RetryPublish, database
  <2>2. PICK v \in Session : v = session[o] /\ InOrder(o, v)
    BY <1>0, OrderKnown
  <2>3. PICK u \in Session, published \in BOOLEAN :
          /\ Publish(d, "queue", published) /\ session' = [session EXCEPT ![o] = u]
          /\ v.pc = "retry" /\ d \in v.rows /\ u.pc = "work" /\ u.rows = v.rows /\ u.copy = v.copy
          /\ u.letter = v.letter /\ u.resolve = IF published THEN "RETRIED" ELSE "OPEN"
          /\ \A x \in Deliveries : x # d => u.change[x] = v.change[x]
    BY <1>0, <1>2, <2>2, RetryPublishShape
  <2>4. letters[d] # <<>>
    BY <1>0, <2>2, <2>3 DEF InOrder
  <2>5. \A x \in v.rows : x # d => u.change[x] = v.change[x]
    BY <2>3 DEF Session
  <2>6. /\ "queue" \in {"queue", "waiting"} /\ v.pc \in {"retry", "work"}
        /\ ~published => u.resolve # "RETRIED" /\ (letters[d] # <<>> \/ KeepsDue(u.change[d]))
    BY <2>3, <2>4
  <2>7. QED
    BY <1>0, <2>1, <2>2, <2>3, <2>5, <2>6, PublishStep
<1>3. ASSUME NEW d \in Deliveries, DiscardLoad(o, d)
      PROVE  RowsKept'
  <2>1. UNCHANGED <<row, letters, place, target, consumed, dropped>>
    BY <1>3 DEF DiscardLoad, database, broker
  <2>2. PICK v \in Session : v = session[o] /\ InOrder(o, v)
    BY <1>0, OrderKnown
  <2>3. PICK u \in Session :
          /\ session' = [session EXCEPT ![o] = u] /\ d \in v.rows
          /\ u.rows = v.rows /\ u.copy = v.copy /\ u.resolve = "DISCARDED"
    BY <1>0, <1>3, <2>2, DiscardLoadShape
  <2>4. u.copy \notin Copies /\ \A x \in u.rows : letters[x] # <<>>
    BY <1>0, <2>2, <2>3 DEF InOrder
  <2>5. QED
    BY <1>0, <2>1, <2>3, <2>4, LoadStep
<1>4. CASE RequestCommit(o)
  <2>1. /\ session' = [session EXCEPT ![o] = Idle] /\ session[o].pc = "work"
        /\ Commit(session[o]) /\ UNCHANGED <<target, consumed, dropped>>
    BY <1>4 DEF RequestCommit, broker
  <2>2. session[o] \in Session
    BY <1>0 DEF TypeOK, SessionsTyped
  <2>3. QED
    BY <1>0, <2>1, <2>2, IdleShape, CommitStep
<1>5. CASE Rollback(o)
  <2>1. /\ session' = [session EXCEPT ![o] = Idle]
        /\ UNCHANGED <<row, letters, place, target, consumed, dropped>>
    BY <1>5 DEF Rollback, database, broker
  <2>2. QED
    BY <1>0, <2>1, ReleaseStep
<1>6. QED
  BY <1>1, <1>2, <1>3, <1>4, <1>5 DEF Operator

-----------------------------------------------------------------------------
(* Routing, RabbitMQ and the steps that change nothing.                    *)

LEMMA RouteKeeps ==
  ASSUME CustodyInv, "refusal" \notin FaultKinds, NEW d \in Deliveries, Route(d)
  PROVE  RowsKept'
<1>1. PICK published \in BOOLEAN :
        Publish(d, "queue", published) /\ row' = [row EXCEPT ![d] = first_attempt(published)]
  BY DEF Route
<1>2. row[d] = NoRow /\ UNCHANGED <<letters, session, consumed, dropped>>
  BY DEF Route
<1>3. row'[d] = first_attempt(published) /\ \A x \in Deliveries : x # d => row'[x] = row[x]
  BY <1>1 DEF CustodyInv, OrderInv, TypeOK, DatabaseTyped
<1>4. ~published => first_attempt(published).status = "RETRYING" /\ first_attempt(published).next
  BY DEF first_attempt
<1>5. Unrouted(d)
  BY <1>2 DEF CustodyInv, OrderInv, RowsRouted, NoRow
<1>6. ASSUME NEW x \in Deliveries, NEW i, Retried(x, i)'
      PROVE  Retried(x, i)
  BY <1>2, <1>6 DEF Retried
<1>7. \A x \in Deliveries : x # d /\ Scheduled(x) => Scheduled(x)'
  BY <1>2, <1>3 DEF Scheduled, Due, KeepsDue
<1>8. \A x \in Deliveries : Filed(x) => Filed(x)'
  BY <1>2, <1>6 DEF Filed
<1>9. CASE PutCopy(d, "queue")
  <2>1. PICK n \in Copies :
          /\ place[n] = "free" /\ target[n] = NoDelivery /\ target'[n] = d
          /\ \A o \in Sessions : session[o].copy # n
          /\ \A c \in Copies : c # n => place'[c] = place[c] /\ target'[c] = target[c]
    BY <1>9, PutCopyStep DEF CustodyInv
  <2>2. Custody(d)'
    <3>1. ~Replaced(n)'
      BY <1>2, <2>1 DEF Replaced, Sessions
    <3>2. QED
      BY <2>1, <3>1 DEF Custody, Carried
  <2>3. ASSUME NEW x \in Deliveries, x # d, Custody(x)
        PROVE  Custody(x)'
    <3>1. \A c \in Copies : c # n => (Replaced(c)' => Replaced(c))
      <4>1. ASSUME NEW c \in Copies, c # n, Replaced(c)'
            PROVE  Replaced(c)
        BY <1>2, <2>1, <4>1 DEF Replaced
      <4>2. QED
        BY <4>1
    <3>2. \A c \in Copies : target[c] = x => c # n
      BY <2>1, DeliveryCycleAssumption
    <3>3. Carried(x) => Carried(x)'
      BY <2>1, <3>1, <3>2 DEF Carried
    <3>4. QED
      BY <1>2, <1>7, <1>8, <2>3, <3>3 DEF Custody
  <2>4. QED
    BY <1>3, <2>2, <2>3 DEF CustodyInv, RowsKept
<1>10. CASE ~published /\ UNCHANGED <<place, target>>
  <2>1. Custody(d)'
    <3>1. \A o \in Sessions : d \notin session'[o].rows
      BY <1>2, <1>5 DEF Unrouted
    <3>2. letters'[d] = <<>> /\ row'[d].status = "RETRYING" /\ row'[d].next
      BY <1>2, <1>3, <1>4, <1>5, <1>10 DEF Unrouted
    <3>3. QED
      BY <3>1, <3>2 DEF Custody, Scheduled, Due
  <2>2. ASSUME NEW x \in Deliveries, x # d, Custody(x)
        PROVE  Custody(x)'
    <3>1. Carried(x) => Carried(x)'
      BY <1>2, <1>10 DEF Carried, Replaced
    <3>2. QED
      BY <1>2, <1>7, <1>8, <2>2, <3>1 DEF Custody
  <2>3. QED
    BY <1>3, <2>1, <2>2 DEF CustodyInv, RowsKept
<1>11. QED
  BY <1>1, <1>9, <1>10, PublishCases

\* RabbitMQ removes or moves a copy that is not in q.dlq, so no handler has it.
LEMMA CopyStep ==
  ASSUME CustodyInv, NEW c \in Copies, place[c] # "dlq",
         \A x \in Copies : x # c => target'[x] = target[x],
         target'[c] = target[c] \/ (target'[c] = NoDelivery /\ consumed'[target[c]]),
         \A d \in Deliveries : consumed[d] => consumed'[d],
         UNCHANGED <<row, letters, session, dropped>>
  PROVE  RowsKept'
<1>1. \A s \in Sessions : session[s].copy # c
  BY DEF CustodyInv, OrderInv, UnitsInOrder, InOrder
<1>2. ASSUME NEW x \in Copies, Replaced(x)'
      PROVE  Replaced(x)
  <2>1. x # c
    BY <1>1, <1>2 DEF Replaced, Sessions
  <2>2. target'[x] = target[x]
    BY <2>1
  <2>3. QED
    BY <1>2, <2>2 DEF Replaced
<1>3. ASSUME NEW d \in Deliveries, Custody(d)
      PROVE  Custody(d)'
  <2>1. CASE Carried(d)
    <3>1. PICK x \in Copies : target[x] = d /\ ~Replaced(x)
      BY <2>1 DEF Carried
    <3>2. CASE target'[x] = d
      BY <1>2, <3>1, <3>2 DEF Custody, Carried
    <3>3. CASE target'[x] # d
      BY <3>1, <3>3 DEF Custody
    <3>4. QED
      BY <3>2, <3>3
  <2>2. CASE Filed(d)
    BY <2>2 DEF Custody, Filed, Retried
  <2>3. CASE Scheduled(d)
    BY <2>3 DEF Custody, Scheduled, Due, KeepsDue
  <2>4. QED
    BY <1>3, <2>1, <2>2, <2>3 DEF Custody
<1>4. QED
  BY <1>3 DEF CustodyInv, RowsKept

LEMMA RabbitMQKeeps ==
  ASSUME CustodyInv, RabbitMQ \/ UNCHANGED vars
  PROVE  RowsKept'
<1>1. ASSUME NEW c \in Copies, ConsumerAck(c) \/ ConsumerNack(c) \/ TtlExpire(c)
      PROVE  RowsKept'
  <2>1. /\ UNCHANGED <<row, letters, session, dropped>> /\ place[c] # "dlq"
        /\ \A x \in Copies : x # c => target'[x] = target[x]
        /\ target'[c] = target[c] \/ (target'[c] = NoDelivery /\ consumed'[target[c]])
        /\ \A d \in Deliveries : consumed[d] => consumed'[d]
    BY <1>1 DEF ConsumerAck, ConsumerNack, TtlExpire, Move, database, CustodyInv, OrderInv, TypeOK,
                BrokerTyped
  <2>2. QED
    BY <2>1, CopyStep
<1>2. CASE BrokerDown
  <2>1. UNCHANGED <<row, letters, target, consumed, dropped>>
    BY <1>2 DEF BrokerDown, database
  <2>2. \A s \in Sessions : session'[s].copy \notin Copies /\ SameButCopy(s)
    BY <1>2, OutageFrame DEF CustodyInv, OrderInv
  <2>3. \A c \in Copies : ~Replaced(c)'
    BY <2>2 DEF Replaced, Sessions
  <2>4. ASSUME NEW d \in Deliveries, NEW i, Retried(d, i)'
        PROVE  Retried(d, i)
    BY <2>2, <2>4 DEF Retried, Sessions, SameButCopy
  <2>5. ASSUME NEW d \in Deliveries, Custody(d)
        PROVE  Custody(d)'
    <3>1. Carried(d) => Carried(d)'
      BY <2>1, <2>3 DEF Carried
    <3>2. Filed(d) => Filed(d)'
      BY <2>1, <2>4 DEF Filed
    <3>3. Scheduled(d) => Scheduled(d)'
      BY <2>1, <2>2 DEF Scheduled, Due, KeepsDue, SameButCopy
    <3>4. QED
      BY <2>1, <2>5, <3>1, <3>2, <3>3 DEF Custody
  <2>6. QED
    BY <2>1, <2>5 DEF CustodyInv, RowsKept
<1>3. CASE BrokerUp \/ UNCHANGED vars
  <2>1. UNCHANGED <<row, letters, target, consumed, dropped, session>>
    BY <1>3 DEF BrokerUp, vars, database, broker
  <2>2. QED
    BY <2>1 DEF CustodyInv, RowsKept, Custody, Carried, Replaced, Filed, Retried, Scheduled, Due,
                KeepsDue
<1>4. QED
  BY <1>1, <1>2, <1>3 DEF RabbitMQ

-----------------------------------------------------------------------------
(* The invariant, and what it says.                                        *)

LEMMA InitKept == Init => CustodyInv
<1> SUFFICES ASSUME Init PROVE \A d \in Deliveries : row[d].status = "NONE"
  BY InitOrdered DEF CustodyInv, RowsKept
<1>1. QED
  BY DEF Init, NoRow

LEMMA StepKeeps ==
  ASSUME "refusal" \notin FaultKinds, CustodyInv, [Next]_vars
  PROVE  CustodyInv'
<1>1. OrderInv'
  BY StepOrdered DEF CustodyInv
<1>2. RowsKept'
  BY RouteKeeps, RabbitMQKeeps, HandlerKeeps, ScanKeeps, OperatorKeeps DEF Next
<1>3. QED
  BY <1>1, <1>2 DEF CustodyInv

LEMMA KeptNotForgotten == CustodyInv => NeverForgotten
<1> SUFFICES ASSUME CustodyInv, NEW d \in Deliveries, row[d] # NoRow
             PROVE  InCustody(d) \/ dropped[d]
  BY DEF NeverForgotten
<1>1. Custody(d)
  BY DEF CustodyInv, OrderInv, RowsRouted, RowsKept, Unrouted
<1>2. CASE Carried(d)
  <2>1. PICK c \in Copies : target[c] = d /\ ~Replaced(c)
    BY <1>2 DEF Carried
  <2>2. place[c] # "free"
    BY <2>1, DeliveryCycleAssumption DEF CustodyInv, OrderInv, TypeOK, BrokerTyped
  <2>3. ~Spent(c)
    BY <2>1 DEF Spent, Replaced
  <2>4. QED
    BY <2>1, <2>2, <2>3 DEF InCustody, Live
<1>3. CASE Filed(d)
  BY <1>3 DEF Filed, InCustody, Parked, OpenLetters, Discarded
<1>4. CASE Scheduled(d)
  BY <1>4 DEF Scheduled, InCustody
<1>5. QED
  BY <1>1, <1>2, <1>3, <1>4 DEF Custody, InCustody

\* A routed delivery is always consumed, in RabbitMQ, due, before an operator
\* or discarded by one, unless a handler of q.dlq raised: crashes, outages,
\* lost confirms, failed transactions and overwritten rows forget no message.
\* Refusals are excluded: with them, and overlapping sessions, it is false.
THEOREM NothingForgotten ==
  ASSUME "refusal" \notin FaultKinds
  PROVE  Spec => []NeverForgotten
<1>1. CustodyInv /\ [Next]_vars => CustodyInv'
  BY StepKeeps
<1>2. QED
  BY <1>1, InitKept, KeptNotForgotten, PTL DEF Spec

-----------------------------------------------------------------------------
(* The audit.  Audits are only added and failed publishes only counted, so *)
(* what holds of a change goes on holding until it is committed.           *)

LEMMA PublishCounted ==
  ASSUME TypeOK, NEW d, NEW where, NEW ok \in BOOLEAN, Publish(d, where, ok)
  PROVE  faults' <= faults /\ (brokerUp /\ ~ok => faults' <= faults - 1)
BY DEF Publish, Fault, TypeOK, BudgetsTyped

LEMMA StillAudited ==
  ASSUME TypeOK, TypeOK', \A d \in Deliveries : audits[d] <= audits'[d], faults' <= faults,
         NEW d \in Deliveries, NEW ch \in Change, ChangeAudited(d, ch)
  PROVE  ChangeAudited(d, ch)'
<1>1. /\ audits[d] \in Nat /\ audits'[d] \in Nat /\ faults \in Int /\ faults' \in Int
      /\ MaxFaults \in Nat
  BY DeliveryCycleAssumption DEF TypeOK, DatabaseTyped, BudgetsTyped
<1>2. ch.seen.attempts \in Nat /\ ch.new.attempts \in Nat
  BY DEF Change, Row
<1>3. audits[d] <= audits'[d]
  OBVIOUS
<1>4. QED
  BY <1>1, <1>2, <1>3 DEF ChangeAudited, Failed

\* A step of one session that leaves the database alone.
LEMMA AuditStep ==
  ASSUME AuditInv, TypeOK', NEW s \in Sessions, NEW u \in Session,
         session' = [session EXCEPT ![s] = u], UNCHANGED <<row, audits, brokerUp>>,
         faults' <= faults, \A d \in Deliveries : ChangeAudited(d, u.change[d])',
         s \in Scans /\ u.pc # "idle" => brokerUp
  PROVE  AuditInv'
<1>1. session'[s] = u /\ \A t \in Sessions : t # s => session'[t] = session[t]
  BY DEF AuditInv, TypeOK, SessionsTyped
<1>2. \A d \in Deliveries : audits[d] \in Nat /\ row[d].attempts \in Nat
  BY DEF AuditInv, TypeOK, DatabaseTyped, Row
<1>3. AttemptsAudited'
  <2>1. ASSUME NEW d \in Deliveries
        PROVE  row'[d].attempts <= audits'[d] + 1 + (MaxFaults - faults')
    <3>1. row[d].attempts <= audits[d] + 1 + (MaxFaults - faults) /\ row'[d] = row[d] /\ audits'[d] = audits[d]
      BY DEF AuditInv, AttemptsAudited
    <3>2. faults \in Int /\ faults' \in Int /\ MaxFaults \in Nat
      BY DeliveryCycleAssumption DEF AuditInv, TypeOK, BudgetsTyped
    <3>3. QED
      BY <1>2, <3>1, <3>2
  <2>2. QED
    BY <2>1 DEF AttemptsAudited
<1>4. ASSUME NEW t \in Sessions, NEW d \in Deliveries
      PROVE  ChangeAudited(d, session[t].change[d])'
  <2>1. CASE t = s
    BY <1>1, <2>1 DEF ChangeAudited
  <2>2. CASE t # s
    <3>1. PICK ch \in Change : ch = session[t].change[d] /\ ChangeAudited(d, ch)
      BY DEF AuditInv, TypeOK, SessionsTyped, Session
    <3>2. session'[t].change[d] = ch
      BY <1>1, <2>2, <3>1
    <3>3. \A x \in Deliveries : audits[x] <= audits'[x]
      BY <1>2
    <3>4. ChangeAudited(d, ch)'
      BY <3>1, <3>3, StillAudited DEF AuditInv
    <3>5. QED
      BY <3>2, <3>4 DEF ChangeAudited
  <2>3. QED
    BY <2>1, <2>2
<1>5. \A t \in Scans : session'[t].pc # "idle" => brokerUp'
  BY <1>1 DEF AuditInv, Sessions
<1>6. QED
  BY <1>3, <1>4, <1>5 DEF AuditInv

LEMMA UntouchedAudited ==
  ASSUME TypeOK, NEW d \in Deliveries
  PROVE  ChangeAudited(d, Loaded(NoRow))
<1>1. audits[d] \in Nat /\ MaxFaults - faults \in Nat
  BY DeliveryCycleAssumption DEF TypeOK, DatabaseTyped, BudgetsTyped
<1>2. QED
  BY <1>1 DEF ChangeAudited, Failed, Loaded, Write, NoRow

LEMMA RowAudited ==
  ASSUME AuditInv, NEW d \in Deliveries
  PROVE  /\ ChangeAudited(d, Loaded(row[d])) /\ ChangeAudited(d, exhaust(row[d], row[d].attempts))
         /\ ChangeAudited(d, republish(row[d])) /\ ChangeAudited(d, discard(row[d]))
<1>1. audits[d] \in Nat /\ MaxFaults - faults \in Nat /\ row[d] \in Row /\ row[d].attempts \in Nat
  BY DeliveryCycleAssumption DEF AuditInv, TypeOK, DatabaseTyped, BudgetsTyped, Row
<1>2. row[d].attempts <= audits[d] + 1 + (MaxFaults - faults)
  BY DEF AuditInv, AttemptsAudited
<1>3. QED
  BY <1>1, <1>2 DEF ChangeAudited, Failed, Loaded, exhaust, republish, discard, Write

LEMMA ScheduleAudited ==
  ASSUME TypeOK, NEW d \in Deliveries, NEW ch \in Change, ChangeAudited(d, ch),
         NEW published \in BOOLEAN
  PROVE  ChangeAudited(d, schedule_retry(ch.seen, published))
<1>1. audits[d] \in Nat /\ MaxFaults - faults \in Nat /\ ch.seen.attempts \in Nat
  BY DeliveryCycleAssumption DEF TypeOK, DatabaseTyped, BudgetsTyped, Change, Row
<1>2. QED
  BY <1>1 DEF ChangeAudited, Failed, schedule_retry, Write

\* The counter of a scan is ahead only when the publish failed.
LEMMA DueAudited ==
  ASSUME TypeOK, TypeOK', UNCHANGED audits, NEW d \in Deliveries, NEW ch \in Change,
         ChangeAudited(d, ch), NEW published \in BOOLEAN,
         faults' <= faults, ~published => faults' <= faults - 1
  PROVE  ChangeAudited(d, due_attempt(ch.seen, published))'
<1>1. /\ audits[d] \in Nat /\ audits'[d] = audits[d] /\ faults \in Int /\ faults' \in Int
      /\ MaxFaults \in Nat /\ ch.seen.attempts \in Nat
  BY DeliveryCycleAssumption DEF TypeOK, DatabaseTyped, BudgetsTyped, Change, Row
<1>2. ch.seen.attempts <= audits[d] + 1 + (MaxFaults - faults)
  BY DEF ChangeAudited, Failed
<1>3. CASE published
  BY <1>1, <1>2, <1>3 DEF ChangeAudited, Failed, due_attempt, Write
<1>4. CASE ~published /\ attempts_exhausted(ch.seen.attempts + 1)
  BY <1>1, <1>2, <1>4 DEF ChangeAudited, Failed, due_attempt, exhaust, Write
<1>5. CASE ~published /\ ~attempts_exhausted(ch.seen.attempts + 1)
  BY <1>1, <1>2, <1>5 DEF ChangeAudited, Failed, due_attempt, Write
<1>6. QED
  BY <1>3, <1>4, <1>5

\* A commit, and a session that ends with nothing in hand.
LEMMA AuditCommit ==
  ASSUME AuditInv, TypeOK', NEW s \in Sessions, Commit(session[s]),
         NEW u \in Session, session' = [session EXCEPT ![s] = u],
         \A x \in Deliveries : u.change[x] = Loaded(NoRow),
         s \in Scans => u.pc = "idle", UNCHANGED <<brokerUp, faults>>
  PROVE  AuditInv'
<1>1. session'[s] = u /\ \A t \in Sessions : t # s => session'[t] = session[t]
  BY DEF AuditInv, TypeOK, SessionsTyped
<1>2. PICK v \in Session : v = session[s]
  BY DEF AuditInv, TypeOK, SessionsTyped
<1>3. \A d \in Deliveries :
        /\ audits[d] \in Nat
        /\ row'[d] = IF d \in v.rows THEN Flush(row[d], v.change[d]) ELSE row[d]
        /\ audits'[d] = IF d \in v.rows /\ v.change[d].audits THEN audits[d] + 1 ELSE audits[d]
  BY <1>2 DEF Commit, AuditInv, TypeOK, DatabaseTyped
<1>4. \A d \in Deliveries : audits[d] <= audits'[d]
  BY <1>3
<1>5. faults' <= faults /\ faults \in Int /\ MaxFaults - faults \in Nat
  BY DeliveryCycleAssumption DEF AuditInv, TypeOK, BudgetsTyped
<1>6. AttemptsAudited'
  <2>1. ASSUME NEW d \in Deliveries
        PROVE  row'[d].attempts <= audits'[d] + 1 + (MaxFaults - faults)
    <3>1. PICK ch \in Change, r \in Row :
            /\ ch = v.change[d] /\ r = row[d] /\ ChangeAudited(d, ch)
            /\ r.attempts <= audits[d] + 1 + (MaxFaults - faults)
      BY <1>2 DEF AuditInv, AttemptsAudited, TypeOK, DatabaseTyped, SessionsTyped, Session
    <3>2. r.attempts \in Nat /\ ch.new.attempts \in Nat
      BY DEF Change, Row
    <3>3. CASE d \notin v.rows
      BY <1>3, <1>5, <3>1, <3>2, <3>3
    <3>4. CASE d \in v.rows
      <4>1. row'[d].attempts = IF ch.new.attempts # ch.seen.attempts THEN ch.new.attempts
                               ELSE r.attempts
        <5>1. row'[d] = Flush(r, ch)
          BY <1>3, <3>1, <3>4
        <5>2. Flush(r, ch).attempts = IF ch.new.attempts # ch.seen.attempts THEN ch.new.attempts
                                      ELSE r.attempts
          BY DEF Flush
        <5>3. QED
          BY <5>1, <5>2
      <4>2. audits'[d] = IF ch.audits THEN audits[d] + 1 ELSE audits[d]
        BY <1>3, <3>1, <3>4
      <4>3. ch.new.attempts <= audits[d] + 1 + (IF ch.audits THEN 1 ELSE 0) + (MaxFaults - faults)
        BY <3>1 DEF ChangeAudited, Failed
      <4>4. QED
        BY <1>3, <1>5, <3>1, <3>2, <4>1, <4>2, <4>3
    <3>5. QED
      BY <3>3, <3>4
  <2>2. QED
    BY <2>1 DEF AttemptsAudited
<1>7. ASSUME NEW t \in Sessions, NEW d \in Deliveries
      PROVE  ChangeAudited(d, session[t].change[d])'
  <2>1. CASE t = s
    <3>1. ChangeAudited(d, Loaded(NoRow)) /\ Loaded(NoRow) \in Change
      BY UntouchedAudited, IdleTyped, LoadedTyped DEF AuditInv
    <3>2. ChangeAudited(d, Loaded(NoRow))'
      BY <1>4, <1>5, <3>1, StillAudited DEF AuditInv
    <3>3. session'[t].change[d] = Loaded(NoRow)
      BY <1>1, <2>1
    <3>4. QED
      BY <3>2, <3>3 DEF ChangeAudited
  <2>2. CASE t # s
    <3>1. PICK ch \in Change : ch = session[t].change[d] /\ ChangeAudited(d, ch)
      BY DEF AuditInv, TypeOK, SessionsTyped, Session
    <3>2. session'[t].change[d] = ch
      BY <1>1, <2>2, <3>1
    <3>3. ChangeAudited(d, ch)'
      BY <1>4, <1>5, <3>1, StillAudited DEF AuditInv
    <3>4. QED
      BY <3>2, <3>3 DEF ChangeAudited
  <2>3. QED
    BY <2>1, <2>2
<1>8. \A t \in Scans : session'[t].pc # "idle" => brokerUp'
  BY <1>1 DEF AuditInv, Sessions
<1>9. QED
  BY <1>6, <1>7, <1>8 DEF AuditInv

LEMMA AuditRelease ==
  ASSUME AuditInv, TypeOK', NEW s \in Sessions, session' = [session EXCEPT ![s] = Idle],
         UNCHANGED <<row, audits, brokerUp>>, faults' <= faults
  PROVE  AuditInv'
<1>1. Idle \in Session /\ Idle.pc = "idle" /\ \A x \in Deliveries : Idle.change[x] = Loaded(NoRow)
  BY IdleTyped DEF Idle
<1>2. ASSUME NEW d \in Deliveries
      PROVE  ChangeAudited(d, Idle.change[d])'
  <2>1. ChangeAudited(d, Idle.change[d]) /\ Idle.change[d] \in Change
    BY <1>1, UntouchedAudited, IdleTyped, LoadedTyped DEF AuditInv
  <2>2. \A x \in Deliveries : audits[x] <= audits'[x]
    BY DEF AuditInv, TypeOK, DatabaseTyped
  <2>3. QED
    BY <2>1, <2>2, StillAudited DEF AuditInv
<1>3. QED
  BY <1>1, <1>2, AuditStep

LEMMA AuditHandler ==
  ASSUME AuditInv, TypeOK', NEW h \in DlqHandlers, Handler(h)
  PROVE  AuditInv'
<1>0. /\ h \in Sessions /\ h \notin Scans /\ TypeOK /\ \A d \in Deliveries : audits[d] \in Nat
      /\ faults \in Int /\ \A d \in Deliveries : row[d] \in Row
  BY KindsDisjoint DEF AuditInv, TypeOK, DatabaseTyped, BudgetsTyped
<1>1. ASSUME NEW c \in Copies, HandleDlqMessage(h, c)
      PROVE  AuditInv'
  <2>1. UNCHANGED <<row, audits, brokerUp, faults>>
    BY <1>1 DEF HandleDlqMessage, database, broker
  <2>2. PICK u \in Session :
          /\ session' = [session EXCEPT ![h] = u]
          /\ \A x \in Deliveries : u.change[x] \in {Loaded(NoRow), Loaded(row[x]),
                                                    exhaust(row[x], row[x].attempts)}
    BY <1>0, <1>1, TakeInShape
  <2>3. \A x \in Deliveries : ChangeAudited(x, u.change[x])
    BY <1>0, <2>2, UntouchedAudited, RowAudited
  <2>4. \A x \in Deliveries : ChangeAudited(x, u.change[x])'
    BY <2>1, <2>3 DEF ChangeAudited, Failed
  <2>5. faults' <= faults
    BY <1>0, <2>1
  <2>6. QED
    BY <1>0, <2>1, <2>2, <2>4, <2>5, AuditStep
<1>2. ASSUME NEW d \in Deliveries, ScheduleRetry(h, d)
      PROVE  AuditInv'
  <2>1. UNCHANGED <<row, audits, brokerUp>>
    BY <1>2 DEF ScheduleRetry, database
  <2>2. PICK v \in Session : v = session[h] /\ \A x \in Deliveries : ChangeAudited(x, v.change[x])
    BY <1>0 DEF AuditInv, TypeOK, SessionsTyped
  <2>3. PICK u \in Session, published \in BOOLEAN :
          /\ Publish(d, "waiting", published) /\ session' = [session EXCEPT ![h] = u]
          /\ u.change[d] = schedule_retry(v.change[d].seen, published)
          /\ \A x \in Deliveries : x # d => u.change[x] = v.change[x]
    BY <1>0, <1>2, <2>2, ScheduleRetryShape
  <2>4. faults' <= faults
    BY <1>0, <2>3, PublishCounted
  <2>5. \A x \in Deliveries : v.change[x] \in Change
    BY DEF Session
  <2>6. ASSUME NEW x \in Deliveries
        PROVE  ChangeAudited(x, u.change[x])'
    <3>1. u.change[x] \in Change
      BY DEF Session
    <3>2. ChangeAudited(x, u.change[x])
      BY <1>0, <2>2, <2>3, <2>5, ScheduleAudited
    <3>3. \A y \in Deliveries : audits[y] <= audits'[y]
      BY <1>0, <2>1
    <3>4. QED
      BY <1>0, <2>4, <3>1, <3>2, <3>3, StillAudited
  <2>7. QED
    BY <1>0, <2>1, <2>3, <2>4, <2>6, AuditStep
<1>3. CASE DlqCommit(h)
  <2>1. UNCHANGED <<brokerUp, faults>>
    BY <1>3 DEF DlqCommit, broker
  <2>2. QED
    BY <1>0, <1>3, <2>1, DlqCommitShape, AuditCommit
<1>4. CASE DlqAck(h) \/ DlqCrash(h) \/ DlqFail(h)
  <2>1. UNCHANGED <<row, audits, brokerUp>> /\ session' = [session EXCEPT ![h] = Idle]
        /\ faults' <= faults
    BY <1>0, <1>4 DEF DlqAck, DlqCrash, DlqFail, Fault, database, broker
  <2>2. QED
    BY <1>0, <2>1, AuditRelease
<1>5. QED
  BY <1>1, <1>2, <1>3, <1>4 DEF Handler

LEMMA AuditScan ==
  ASSUME AuditInv, TypeOK', NEW s \in Scans, Scan(s)
  PROVE  AuditInv'
<1>0. /\ s \in Sessions /\ TypeOK /\ \A d \in Deliveries : audits[d] \in Nat
      /\ faults \in Int /\ \A d \in Deliveries : row[d] \in Row
  BY KindsDisjoint DEF AuditInv, TypeOK, DatabaseTyped, BudgetsTyped
<1>1. CASE DueRead(s)
  <2>1. UNCHANGED <<row, audits, brokerUp, faults>> /\ brokerUp
    BY <1>1 DEF DueRead, database, broker
  <2>2. PICK u \in Session :
          /\ session' = [session EXCEPT ![s] = u]
          /\ \A x \in Deliveries : u.change[x] \in {Loaded(NoRow), Loaded(row[x])}
    BY <1>0, <1>1, DueReadShape
  <2>3. \A x \in Deliveries : ChangeAudited(x, u.change[x])
    BY <1>0, <2>2, UntouchedAudited, RowAudited
  <2>4. \A x \in Deliveries : ChangeAudited(x, u.change[x])'
    BY <2>1, <2>3 DEF ChangeAudited, Failed
  <2>5. faults' <= faults
    BY <1>0, <2>1
  <2>6. QED
    BY <1>0, <2>1, <2>2, <2>4, <2>5, AuditStep
<1>2. ASSUME NEW d \in Deliveries, DuePublish(s, d)
      PROVE  AuditInv'
  <2>1. UNCHANGED <<row, audits, brokerUp>>
    BY <1>2 DEF DuePublish, database
  <2>2. PICK v \in Session : v = session[s] /\ \A x \in Deliveries : ChangeAudited(x, v.change[x])
    BY <1>0 DEF AuditInv, TypeOK, SessionsTyped
  <2>3. PICK u \in Session, published \in BOOLEAN :
          /\ Publish(d, "queue", published) /\ session' = [session EXCEPT ![s] = u]
          /\ v.pc = "work"
          /\ u.change[d] = due_attempt(v.change[d].seen, published)
          /\ \A x \in Deliveries : x # d => u.change[x] = v.change[x]
    BY <1>0, <1>2, <2>2, DuePublishShape
  <2>4. brokerUp
    BY <2>2, <2>3 DEF AuditInv
  <2>5. faults' <= faults /\ (~published => faults' <= faults - 1)
    BY <1>0, <2>3, <2>4, PublishCounted
  <2>6. \A x \in Deliveries : v.change[x] \in Change
    BY DEF Session
  <2>7. ASSUME NEW x \in Deliveries
        PROVE  ChangeAudited(x, u.change[x])'
    <3>1. CASE x = d
      <4>1. ChangeAudited(d, due_attempt(v.change[d].seen, published))'
        BY <1>0, <2>1, <2>2, <2>5, <2>6, DueAudited
      <4>2. QED
        BY <2>3, <3>1, <4>1 DEF ChangeAudited
    <3>2. CASE x # d
      <4>1. ChangeAudited(x, u.change[x]) /\ u.change[x] \in Change
        BY <2>2, <2>3, <2>6, <3>2
      <4>2. \A y \in Deliveries : audits[y] <= audits'[y]
        BY <1>0, <2>1
      <4>3. QED
        BY <1>0, <2>5, <4>1, <4>2, StillAudited
    <3>3. QED
      BY <3>1, <3>2
  <2>8. QED
    BY <1>0, <2>1, <2>3, <2>4, <2>5, <2>7, AuditStep
<1>3. CASE DueCommit(s)
  <2>1. UNCHANGED <<brokerUp, faults>> /\ session' = [session EXCEPT ![s] = Idle] /\ Commit(session[s])
    BY <1>3 DEF DueCommit, broker
  <2>2. Idle \in Session /\ Idle.pc = "idle" /\ \A x \in Deliveries : Idle.change[x] = Loaded(NoRow)
    BY IdleTyped DEF Idle
  <2>3. QED
    BY <1>0, <2>1, <2>2, AuditCommit
<1>4. CASE Rollback(s)
  <2>1. UNCHANGED <<row, audits, brokerUp>> /\ session' = [session EXCEPT ![s] = Idle]
        /\ faults' <= faults
    BY <1>0, <1>4 DEF Rollback, Fault, database, broker
  <2>2. QED
    BY <1>0, <2>1, AuditRelease
<1>5. QED
  BY <1>1, <1>2, <1>3, <1>4 DEF Scan

LEMMA AuditOperator ==
  ASSUME AuditInv, TypeOK', NEW o \in Operators, Operator(o)
  PROVE  AuditInv'
<1>0. /\ o \in Sessions /\ o \notin Scans /\ TypeOK /\ \A d \in Deliveries : audits[d] \in Nat
      /\ faults \in Int /\ \A d \in Deliveries : row[d] \in Row
  BY KindsDisjoint, DeliveryCycleAssumption DEF AuditInv, TypeOK, DatabaseTyped, BudgetsTyped
<1>1. ASSUME NEW d \in Deliveries, NEW i \in DOMAIN letters[d], NEW request \in {"retry", "discard"},
             OpenRequest(o, d, i, request)
      PROVE  AuditInv'
  <2>1. UNCHANGED <<row, audits, brokerUp, faults>>
    BY <1>1 DEF OpenRequest, database, broker
  <2>typed. TypeOK
    BY <1>0
  <2>opened. Opened(o, d, i, request)
    BY <1>1, <2>typed, OpenRequestShape
  <2>2. PICK u \in Session :
          /\ session' = [session EXCEPT ![o] = u] /\ u.pc = request /\ u.rows = {d}
          /\ u.todo = {} /\ u.copy = NoCopy /\ u.letter = i /\ u.resolve = "OPEN"
          /\ \A x \in Deliveries : u.change[x] = Loaded(NoRow)
    BY <2>opened DEF Opened
  <2>3. \A x \in Deliveries : ChangeAudited(x, u.change[x])
    BY <1>0, <2>2, UntouchedAudited
  <2>4. \A x \in Deliveries : ChangeAudited(x, u.change[x])'
    BY <2>1, <2>3 DEF ChangeAudited, Failed
  <2>5. faults' <= faults
    BY <1>0, <2>1
  <2>6. QED
    BY <1>0, <2>1, <2>2, <2>4, <2>5, AuditStep
<1>2. ASSUME NEW d \in Deliveries, RetryPublish(o, d) \/ DiscardLoad(o, d)
      PROVE  AuditInv'
  <2>1. UNCHANGED <<row, audits, brokerUp>>
    BY <1>2 DEF RetryPublish, DiscardLoad, database, broker
  <2>2. PICK v \in Session : v = session[o] /\ \A x \in Deliveries : ChangeAudited(x, v.change[x])
    BY <1>0 DEF AuditInv, TypeOK, SessionsTyped
  <2>3. /\ faults' <= faults
        /\ \E u \in Session :
             /\ session' = [session EXCEPT ![o] = u]
             /\ u.change[d] \in {v.change[d], republish(row[d]), discard(row[d])}
             /\ \A x \in Deliveries : x # d => u.change[x] = v.change[x]
    <3>1. CASE RetryPublish(o, d)
      BY <1>0, <2>2, <3>1, RetryPublishShape, PublishCounted
    <3>2. CASE DiscardLoad(o, d)
      <4>1. faults' <= faults
        BY <1>0, <3>2 DEF DiscardLoad
      <4>2. QED
        BY <1>0, <2>2, <3>2, <4>1, DiscardLoadShape
    <3>3. QED
      BY <1>2, <3>1, <3>2
  <2>4. PICK u \in Session :
          /\ session' = [session EXCEPT ![o] = u]
          /\ u.change[d] \in {v.change[d], republish(row[d]), discard(row[d])}
          /\ \A x \in Deliveries : x # d => u.change[x] = v.change[x]
    BY <2>3
  <2>5. ASSUME NEW x \in Deliveries
        PROVE  ChangeAudited(x, u.change[x])'
    <3>1. u.change[x] \in Change
      BY DEF Session
    <3>2. ChangeAudited(x, u.change[x])
      BY <1>0, <2>2, <2>4, RowAudited
    <3>3. \A y \in Deliveries : audits[y] <= audits'[y]
      BY <1>0, <2>1
    <3>4. QED
      BY <1>0, <2>3, <3>1, <3>2, <3>3, StillAudited
  <2>6. QED
    BY <1>0, <2>1, <2>3, <2>4, <2>5, AuditStep
<1>3. CASE RequestCommit(o)
  <2>1. UNCHANGED <<brokerUp, faults>> /\ session' = [session EXCEPT ![o] = Idle] /\ Commit(session[o])
    BY <1>3 DEF RequestCommit, broker
  <2>2. Idle \in Session /\ Idle.pc = "idle" /\ \A x \in Deliveries : Idle.change[x] = Loaded(NoRow)
    BY IdleTyped DEF Idle
  <2>3. QED
    BY <1>0, <2>1, <2>2, AuditCommit
<1>4. CASE Rollback(o)
  <2>1. UNCHANGED <<row, audits, brokerUp>> /\ session' = [session EXCEPT ![o] = Idle]
        /\ faults' <= faults
    BY <1>0, <1>4 DEF Rollback, Fault, database, broker
  <2>2. QED
    BY <1>0, <2>1, AuditRelease
<1>5. QED
  BY <1>1, <1>2, <1>3, <1>4 DEF Operator

\* Routing and the broker do not touch what the sessions have in hand.
LEMMA AuditRest ==
  ASSUME AuditInv, TypeOK', UNCHANGED audits, faults' <= faults,
         \A d \in Deliveries : row'[d].attempts <= row[d].attempts \/ row'[d].attempts <= 1,
         \A s \in Sessions : session'[s].pc = session[s].pc /\ session'[s].change = session[s].change,
         brokerUp => brokerUp'
  PROVE  AuditInv'
<1>1. \A d \in Deliveries : /\ audits[d] \in Nat /\ row[d].attempts \in Nat /\ row'[d].attempts \in Nat
                            /\ row[d].attempts <= audits[d] + 1 + (MaxFaults - faults)
  BY DEF AuditInv, AttemptsAudited, TypeOK, DatabaseTyped, Row
<1>2. /\ faults \in Int /\ faults' \in Int /\ MaxFaults \in Nat
      /\ faults <= MaxFaults /\ faults' <= MaxFaults
  BY DeliveryCycleAssumption DEF AuditInv, TypeOK, BudgetsTyped
<1>3. AttemptsAudited'
  <2>1. ASSUME NEW d \in Deliveries
        PROVE  row'[d].attempts <= audits'[d] + 1 + (MaxFaults - faults')
    <3>1. audits'[d] = audits[d]
      OBVIOUS
    <3>2. row'[d].attempts <= row[d].attempts \/ row'[d].attempts <= 1
      OBVIOUS
    <3>3. QED
      BY <1>1, <1>2, <3>1, <3>2
  <2>2. QED
    BY <2>1 DEF AttemptsAudited
<1>4. ASSUME NEW t \in Sessions, NEW d \in Deliveries
      PROVE  ChangeAudited(d, session[t].change[d])'
  <2>1. PICK ch \in Change : ch = session[t].change[d] /\ ChangeAudited(d, ch)
    BY DEF AuditInv, TypeOK, SessionsTyped, Session
  <2>2. session'[t].change[d] = ch
    BY <2>1
  <2>3. \A x \in Deliveries : audits[x] <= audits'[x]
    BY <1>1
  <2>4. ChangeAudited(d, ch)'
    BY <2>1, <2>3, StillAudited DEF AuditInv
  <2>5. QED
    BY <2>2, <2>4 DEF ChangeAudited
<1>5. \A t \in Scans : session'[t].pc # "idle" => brokerUp'
  BY DEF AuditInv, Sessions
<1>6. QED
  BY <1>3, <1>4, <1>5 DEF AuditInv

LEMMA StepAudited ==
  ASSUME "outage" \notin FaultKinds, AuditInv, [Next]_vars
  PROVE  AuditInv'
<1>1. TypeOK'
  BY StepTyped DEF AuditInv
<1>2. \A d \in Deliveries : row[d] \in Row /\ row[d].attempts \in Nat
  BY DEF AuditInv, TypeOK, DatabaseTyped, Row
<1>3. faults \in Int
  BY DEF AuditInv, TypeOK, BudgetsTyped
<1>4. ASSUME NEW d \in Deliveries, Route(d)
      PROVE  AuditInv'
  <2>1. PICK published \in BOOLEAN :
          Publish(d, "queue", published) /\ row' = [row EXCEPT ![d] = first_attempt(published)]
    BY <1>4 DEF Route
  <2>2. faults' <= faults
    BY <2>1, PublishCounted DEF AuditInv
  <2>3. \A x \in Deliveries : row'[x].attempts <= row[x].attempts \/ row'[x].attempts <= 1
    <3>1. first_attempt(published).attempts = 1
      BY DEF first_attempt
    <3>2. \A x \in Deliveries : row'[x] = IF x = d THEN first_attempt(published) ELSE row[x]
      BY <2>1 DEF AuditInv, TypeOK, DatabaseTyped
    <3>3. QED
      BY <1>2, <3>1, <3>2
  <2>4. UNCHANGED <<audits, session, brokerUp>>
    BY <1>4 DEF Route
  <2>5. QED
    BY <1>1, <2>2, <2>3, <2>4, AuditRest
<1>5. CASE RabbitMQ \/ UNCHANGED vars
  <2>1. UNCHANGED <<row, audits, session>> /\ faults' <= faults /\ (brokerUp => brokerUp')
    <3>1. ~BrokerDown
      BY DEF BrokerDown, Fault
    <3>2. UNCHANGED <<row, audits, session, faults>> /\ (brokerUp => brokerUp')
      BY <1>5, <3>1 DEF RabbitMQ, ConsumerAck, ConsumerNack, TtlExpire, Move, BrokerUp, vars,
                        database, broker
    <3>3. QED
      BY <1>3, <3>2
  <2>2. QED
    BY <1>1, <1>2, <2>1, AuditRest
<1>6. QED
  BY <1>1, <1>4, <1>5, AuditHandler, AuditScan, AuditOperator DEF Next

LEMMA InitAudited == Init => AuditInv
<1> SUFFICES ASSUME Init PROVE AuditInv
  OBVIOUS
<1>1. TypeOK
  BY InitTyped
<1>2. AttemptsAudited
  BY DeliveryCycleAssumption DEF Init, AttemptsAudited, NoRow
<1>3. \A s \in Sessions, d \in Deliveries : session[s].change[d] = Loaded(NoRow)
  BY DEF Init, Idle
<1>4. \A s \in Scans : session[s].pc = "idle"
  BY DEF Init, Idle, Sessions
<1>5. QED
  BY <1>1, <1>2, <1>3, <1>4, UntouchedAudited DEF AuditInv

\* Without outages the counter of attempts is ahead of retry_audit by no more
\* than the publishes that failed, whatever the sessions overlap, crash or
\* overwrite: no lost update separates the two tables.
THEOREM AttemptsStayAudited ==
  ASSUME "outage" \notin FaultKinds
  PROVE  Spec => []AttemptsAudited
<1>1. AuditInv /\ [Next]_vars => AuditInv'
  BY StepAudited
<1>2. AuditInv => AttemptsAudited
  BY DEF AuditInv
<1>3. QED
  BY <1>1, <1>2, InitAudited, PTL DEF Spec

-----------------------------------------------------------------------------
(* Who answers for a delivery.  A refused publish is the only fault here:  *)
(* after a crash or a lost confirm two copies of one delivery may travel.  *)

LEMMA FewerCopies ==
  ASSUME NEW r, NEW states, NEW C, NEW D, D \subseteq C, OneKeeper(r, states, C)
  PROVE  OneKeeper(r, states, D)
<1>1. PICK open : open = {i \in DOMAIN states : states[i] = "OPEN"}
  OBVIOUS
<1>2. QED
  BY <1>1 DEF OneKeeper

LEMMA KeptByLetter ==
  ASSUME NEW r, NEW states, r.status = "DEAD",
         \E i \in DOMAIN states : /\ states[i] = "OPEN"
                                  /\ \A j \in DOMAIN states : states[j] = "OPEN" => j = i
  PROVE  OneKeeper(r, states, {})
<1>1. PICK open : open = {i \in DOMAIN states : states[i] = "OPEN"}
  OBVIOUS
<1>2. QED
  BY <1>1 DEF OneKeeper

LEMMA KeptByCopy ==
  ASSUME NEW r, NEW states, NEW C, r.status \notin {"NONE", "DEAD"},
         \A i \in DOMAIN states : states[i] # "OPEN", \A c, x \in C : c = x,
         C = {} \/ r.status # "RETRYING" \/ ~r.next
  PROVE  OneKeeper(r, states, C)
<1>1. PICK open : open = {i \in DOMAIN states : states[i] = "OPEN"}
  OBVIOUS
<1>2. QED
  BY <1>1 DEF OneKeeper

LEMMA KeeperSays ==
  ASSUME NEW r, NEW states, NEW C, OneKeeper(r, states, C)
  PROVE  /\ r.status # "NONE" /\ \A c, x \in C : c = x
         /\ \A i, j \in DOMAIN states : states[i] = "OPEN" /\ states[j] = "OPEN" => i = j
         /\ r.status = "DEAD" <=> \E i \in DOMAIN states : states[i] = "OPEN"
         /\ r.status = "DEAD" \/ (r.status = "RETRYING" /\ r.next) => C = {}
<1>1. PICK open : open = {i \in DOMAIN states : states[i] = "OPEN"}
  OBVIOUS
<1>2. QED
  BY <1>1 DEF OneKeeper

\* A session that loaded the committed row overwrites it.
LEMMA FlushSeen ==
  ASSUME NEW r \in Row, NEW ch \in Change, ch.seen = r
  PROVE  Flush(r, ch).status = ch.new.status /\ (Flush(r, ch).next <=> ch.new.next)
<1>1. ch.new.next \in BOOLEAN /\ r.next \in BOOLEAN
  BY DEF Change, Row
<1>2. QED
  BY <1>1, FlushFields

\* The dead letters a commit leaves open.
LEMMA OpenFlushed ==
  ASSUME DatabaseTyped, NEW w \in Session, NEW d \in Deliveries
  PROVE  /\ w.resolve = "OPEN" /\ ~w.change[d].opens => FlushLetters(d, w) = letters[d]
         /\ w.resolve # "OPEN" /\ ~w.change[d].opens =>
              \A i \in DOMAIN FlushLetters(d, w) :
                FlushLetters(d, w)[i] = "OPEN" => i \in OpenLetters(d) /\ i # w.letter
         /\ w.resolve = "OPEN" /\ w.change[d].opens /\ OpenLetters(d) = {} =>
              \E i \in DOMAIN FlushLetters(d, w) :
                /\ FlushLetters(d, w)[i] = "OPEN"
                /\ \A j \in DOMAIN FlushLetters(d, w) : FlushLetters(d, w)[j] = "OPEN" => j = i
<1>1. PICK old \in Seq(LetterStatus) : old = letters[d]
  BY DEF DatabaseTyped
<1>2. CASE w.resolve = "OPEN" /\ ~w.change[d].opens
  BY <1>2 DEF FlushLetters
<1>3. CASE w.resolve # "OPEN" /\ ~w.change[d].opens
  <2>1. FlushLetters(d, w) = IF w.letter \in DOMAIN old THEN [old EXCEPT ![w.letter] = w.resolve]
                             ELSE old
    BY <1>1, <1>3 DEF FlushLetters
  <2>2. \A i \in DOMAIN FlushLetters(d, w) :
          i \in DOMAIN old /\ FlushLetters(d, w)[i] = IF i = w.letter THEN w.resolve ELSE old[i]
    BY <2>1
  <2>3. QED
    BY <1>1, <1>3, <2>2 DEF OpenLetters
<1>4. CASE w.resolve = "OPEN" /\ w.change[d].opens /\ OpenLetters(d) = {}
  <2>1. FlushLetters(d, w) = Append(old, "OPEN")
    BY <1>1, <1>4 DEF FlushLetters
  <2>2. /\ DOMAIN Append(old, "OPEN") = 1 .. Len(old) + 1 /\ Len(old) \in Nat
        /\ DOMAIN old = 1 .. Len(old)
        /\ \A i \in DOMAIN old : Append(old, "OPEN")[i] = old[i]
        /\ Append(old, "OPEN")[Len(old) + 1] = "OPEN"
    BY DEF LetterStatus
  <2>3. \A i \in DOMAIN old : old[i] # "OPEN"
    BY <1>1, <1>4 DEF OpenLetters
  <2>4. /\ Len(old) + 1 \in DOMAIN Append(old, "OPEN")
        /\ \A j \in DOMAIN Append(old, "OPEN") : Append(old, "OPEN")[j] = "OPEN" => j = Len(old) + 1
    BY <2>2, <2>3
  <2>5. QED
    BY <1>4, <2>1, <2>2, <2>4
<1>5. QED
  BY <1>2, <1>3, <1>4

-----------------------------------------------------------------------------
(* The copies that live after a step.                                      *)

LEMMA LivesLoad ==
  ASSUME TypeOK, NEW s \in Sessions, NEW u, session' = [session EXCEPT ![s] = u],
         session[s].pc # "ack", u.pc # "ack", UNCHANGED <<place, target>>, NEW x
  PROVE  Lives(x)' = Lives(x)
<1>1. session'[s] = u /\ \A t \in Sessions : t # s => session'[t] = session[t]
  BY DEF TypeOK, SessionsTyped
<1>2. \A c : Spent(c)' <=> Spent(c)
  BY <1>1 DEF Spent, Sessions
<1>3. QED
  BY <1>2 DEF Lives, Live

\* A new copy; no handler has it.
LEMMA LivesPut ==
  ASSUME TypeOK, HandlersHold, NEW d \in Deliveries, NEW where \in {"queue", "waiting"},
         PutCopy(d, where),
         \A h \in DlqHandlers : session'[h].pc = "ack" =>
            session[h].pc = "ack" /\ session'[h].copy = session[h].copy,
         \A h \in DlqHandlers : session[h].pc = "ack" => session'[h] = session[h]
  PROVE  \E n \in Copies :
           /\ n \notin Lives(d) /\ Lives(d)' = Lives(d) \cup {n}
           /\ \A x \in Deliveries : x # d => Lives(x)' = Lives(x)
           /\ place[n] = "free"
           /\ \A c \in Copies : c # n => place'[c] = place[c] /\ target'[c] = target[c]
           /\ target'[n] = d
<1>1. PICK n \in Copies : /\ place[n] = "free"
                          /\ place' = [place EXCEPT ![n] = where]
                          /\ target' = [target EXCEPT ![n] = d]
  BY DEF PutCopy
<1>2. /\ place'[n] = where /\ target'[n] = d /\ where # "free"
      /\ \A c \in Copies : c # n => place'[c] = place[c] /\ target'[c] = target[c]
  BY <1>1 DEF TypeOK, BrokerTyped
<1>3. \A c : Spent(c)' <=> Spent(c)
  BY DEF Spent
<1>4. ~Spent(n)
  BY <1>1 DEF Spent, HandlersHold
<1>5. ASSUME NEW x \in Deliveries, NEW c \in Copies
      PROVE  Live(c, x)' <=> Live(c, x) \/ (c = n /\ x = d)
  <2>1. CASE c = n
    BY <1>1, <1>2, <1>3, <1>4, <2>1 DEF Live
  <2>2. CASE c # n
    BY <1>2, <1>3, <2>2 DEF Live
  <2>3. QED
    BY <2>1, <2>2
<1>6. ~Live(n, d)
  BY <1>1 DEF Live
<1>7. QED
  BY <1>1, <1>2, <1>5, <1>6 DEF Lives

-----------------------------------------------------------------------------
(* The steps of a session.                                                 *)

\* What a session has in hand stays ready when others take copies away from
\* its delivery, but not the one it holds.
LEMMA ReadyKept ==
  ASSUME NEW s, NEW w, NEW x, Ready(s, w, x),
         row'[x] = row[x], letters'[x] = letters[x], Lives(x)' \subseteq Lives(x),
         s \in DlqHandlers /\ w.copy \in Lives(x) => w.copy \in Lives(x)'
  PROVE  Ready(s, w, x)'
<1>1. FlushLetters(x, w)' = FlushLetters(x, w) /\ (s \in Scans => Due(x)' = Due(x))
  BY DEF FlushLetters, Due
<1>2. row'[x].status # "NONE"
  BY DEF Ready
<1>3. CASE w.pc = "work" /\ x \notin w.todo
  <2>1. OneKeeper(Flush(row[x], w.change[x]), FlushLetters(x, w), Lives(x) \ {w.copy})
    BY <1>3 DEF Ready
  <2>2. Lives(x)' \ {w.copy} \subseteq Lives(x) \ {w.copy}
    OBVIOUS
  <2>3. OneKeeper(Flush(row[x], w.change[x]), FlushLetters(x, w), Lives(x)' \ {w.copy})
    BY <2>1, <2>2, FewerCopies
  <2>4. OneKeeper(Flush(row'[x], w.change[x]), FlushLetters(x, w)', Lives(x)' \ {w.copy})
    BY <1>1, <2>3
  <2>5. QED
    BY <1>2, <1>3, <2>4 DEF Ready
<1>4. CASE ~(w.pc = "work" /\ x \notin w.todo)
  <2>1. /\ OneKeeper(row[x], letters[x], Lives(x))
        /\ s \notin Operators => w.change[x].seen = row[x]
        /\ s \in DlqHandlers => w.copy \in Lives(x)
        /\ s \in Scans => Due(x)
        /\ s \in Operators => w.change[x] = Loaded(NoRow)
    BY <1>4 DEF Ready
  <2>2. OneKeeper(row'[x], letters'[x], Lives(x)')
    BY <2>1, FewerCopies
  <2>3. QED
    BY <1>1, <1>2, <1>4, <2>1, <2>2 DEF Ready
<1>5. QED
  BY <1>3, <1>4

LEMMA KeeperStep ==
  ASSUME KeeperInv, ApartInv', HandlersHold',
         NEW s \in Sessions, NEW v \in Session, v = session[s],
         NEW u \in Session, session' = [session EXCEPT ![s] = u],
         \A x \in Deliveries : x \notin v.rows /\ x \notin u.rows =>
            row'[x] = row[x] /\ letters'[x] = letters[x] /\ Lives(x)' \subseteq Lives(x)
            /\ \A c \in Copies : target'[c] = x => target[c] = x,
         \A x \in Deliveries : x \notin v.rows => Lives(x) \ {v.copy} \subseteq Lives(x)',
         \A x \in u.rows : Ready(s, u, x)',
         \A x \in v.rows : x \notin u.rows => OneKeeper(row'[x], letters'[x], Lives(x)'),
         \A x \in u.rows : row'[x] = row[x] /\ letters'[x] = letters[x]
  PROVE  KeeperInv'
<1>1. session'[s] = u /\ \A t \in Sessions : t # s => session'[t] = session[t]
  BY DEF KeeperInv, ApartInv, TypeOK, SessionsTyped
<1>2. \A t \in Sessions : t # s => session[t].rows \cap v.rows = {}
  BY DEF KeeperInv, ApartInv, RowsApart
<1>3. \A t \in Sessions : t # s => session[t].rows \cap u.rows = {}
  <2>1. RowsApart'
    BY DEF ApartInv
  <2>2. QED
    BY <1>1, <2>1 DEF RowsApart
<1>4. v.rows \subseteq Deliveries /\ u.rows \subseteq Deliveries
  BY DEF Session
<1>5. OpenLettersAreDead'
  <2>1. ASSUME NEW x \in Deliveries
        PROVE  Parked(x)' <=> row'[x].status = "DEAD"
    <3>1. CASE x \in v.rows /\ x \notin u.rows
      <4>1. OneKeeper(row'[x], letters'[x], Lives(x)')
        BY <3>1
      <4>2. row'[x].status = "DEAD" <=> \E i \in DOMAIN letters'[x] : letters'[x][i] = "OPEN"
        BY <4>1, KeeperSays
      <4>3. QED
        BY <4>2 DEF Parked, OpenLetters
    <3>2. CASE ~(x \in v.rows /\ x \notin u.rows)
      <4>1. row'[x] = row[x] /\ letters'[x] = letters[x]
        BY <3>2
      <4>2. Parked(x) <=> row[x].status = "DEAD"
        BY DEF KeeperInv, OpenLettersAreDead
      <4>3. QED
        BY <4>1, <4>2 DEF Parked, OpenLetters
    <3>3. QED
      BY <3>1, <3>2
  <2>2. QED
    BY <2>1 DEF OpenLettersAreDead
<1>6. ASSUME NEW x \in Deliveries, \A t \in Sessions : x \notin session'[t].rows
      PROVE  Unrouted(x)' \/ OneKeeper(row'[x], letters'[x], Lives(x)')
  <2>1. x \notin u.rows /\ \A t \in Sessions : t # s => x \notin session[t].rows
    BY <1>1, <1>6
  <2>2. CASE x \in v.rows
    BY <2>1, <2>2
  <2>3. CASE x \notin v.rows
    <3>1. \A t \in Sessions : x \notin session[t].rows
      BY <2>1, <2>3
    <3>2. /\ row'[x] = row[x] /\ letters'[x] = letters[x] /\ Lives(x)' \subseteq Lives(x)
          /\ \A c \in Copies : target'[c] = x => target[c] = x
      BY <2>1, <2>3
    <3>3. CASE Unrouted(x)
      BY <1>6, <3>2, <3>3 DEF Unrouted
    <3>4. CASE OneKeeper(row[x], letters[x], Lives(x))
      BY <3>2, <3>4, FewerCopies
    <3>5. QED
      BY <3>1, <3>3, <3>4 DEF KeeperInv, AtRest
  <2>4. QED
    BY <2>2, <2>3
<1>7. ASSUME NEW t \in Sessions, NEW x \in session'[t].rows
      PROVE  Ready(t, session[t], x)'
  <2>1. CASE t = s
    <3>1. Ready(s, u, x)'
      BY <1>1, <1>7, <2>1
    <3>2. QED
      BY <1>1, <2>1, <3>1 DEF Ready, FlushLetters
  <2>2. CASE t # s
    <3>1. PICK w \in Session : w = session[t] /\ Ready(t, w, x) /\ InHand(t, w)
      BY <1>1, <1>7, <2>2 DEF KeeperInv, ApartInv, TypeOK, SessionsTyped
    <3>2. x \in Deliveries /\ x \notin v.rows /\ x \notin u.rows
      BY <1>1, <1>2, <1>3, <1>7, <2>2, <3>1 DEF Session
    <3>3. /\ row'[x] = row[x] /\ letters'[x] = letters[x] /\ Lives(x)' \subseteq Lives(x)
          /\ Lives(x) \ {v.copy} \subseteq Lives(x)'
      BY <3>2
    <3>4. t \in DlqHandlers /\ w.copy \in Copies => w.copy # v.copy
      <4>1. CASE s \in DlqHandlers
        BY <2>2, <3>1, <4>1 DEF KeeperInv, HandlersHold
      <4>2. CASE s \notin DlqHandlers
        BY <4>2, InHandKept DEF KeeperInv, InHand
      <4>3. QED
        BY <4>1, <4>2
    <3>5. Ready(t, w, x)'
      <4>1. t \in DlqHandlers /\ w.copy \in Lives(x) => w.copy \in Lives(x)'
        BY <3>3, <3>4 DEF Lives
      <4>2. QED
        BY <3>1, <3>3, <4>1, ReadyKept
    <3>6. session'[t] = w
      BY <1>1, <2>2, <3>1
    <3>7. FlushLetters(x, session[t])' = FlushLetters(x, w)'
      BY <3>6 DEF FlushLetters
    <3>8. QED
      BY <3>5, <3>6, <3>7 DEF Ready
  <2>3. QED
    BY <2>1, <2>2
<1>8. QED
  BY <1>5, <1>6, <1>7 DEF KeeperInv, AtRest

\* A step of a session that leaves the rows and the letters alone.
LEMMA KeeperSame ==
  ASSUME KeeperInv, ApartInv', HandlersHold',
         NEW s \in Sessions, NEW v \in Session, v = session[s],
         NEW u \in Session, session' = [session EXCEPT ![s] = u],
         v.rows = u.rows, UNCHANGED <<row, letters>>,
         \A x \in Deliveries : x \notin v.rows =>
            Lives(x)' = Lives(x) /\ \A c \in Copies : target'[c] = x => target[c] = x,
         \A x \in u.rows : Ready(s, u, x)'
  PROVE  KeeperInv'
<1>1. /\ \A x \in Deliveries : x \notin v.rows /\ x \notin u.rows =>
            row'[x] = row[x] /\ letters'[x] = letters[x] /\ Lives(x)' \subseteq Lives(x)
            /\ \A c \in Copies : target'[c] = x => target[c] = x
      /\ \A x \in Deliveries : x \notin v.rows => Lives(x) \ {v.copy} \subseteq Lives(x)'
  OBVIOUS
<1>2. /\ \A x \in v.rows : x \notin u.rows => OneKeeper(row'[x], letters'[x], Lives(x)')
      /\ \A x \in u.rows : row'[x] = row[x] /\ letters'[x] = letters[x]
  OBVIOUS
<1>3. QED
  BY <1>1, <1>2, KeeperStep

\* A session loads: what it has in hand afterwards is ready.
LEMMA KeeperLoad ==
  ASSUME KeeperInv, ApartInv', NEW s \in Sessions, NEW v \in Session, v = session[s],
         NEW u \in Session, session' = [session EXCEPT ![s] = u], v.pc # "ack", u.pc # "ack",
         UNCHANGED <<row, letters, place, target>>, v.rows \subseteq u.rows,
         s \in DlqHandlers => u.copy \in Copies /\ place[u.copy] = "dlq" /\ ~Held(u.copy),
         \A x \in u.rows : Ready(s, u, x)
  PROVE  KeeperInv'
<1>1. session'[s] = u /\ \A t \in Sessions : t # s => session'[t] = session[t]
  BY DEF KeeperInv, ApartInv, TypeOK, SessionsTyped
<1>2. \A x \in Deliveries : Lives(x)' = Lives(x)
  BY LivesLoad DEF KeeperInv, ApartInv
<1>3. HandlersHold'
  <2>1. ASSUME NEW h \in DlqHandlers
        PROVE  /\ session'[h].pc # "idle" =>
                    session'[h].copy \in Copies /\ place'[session'[h].copy] = "dlq"
               /\ \A k \in DlqHandlers :
                    session'[h].copy \in Copies /\ session'[k].copy = session'[h].copy => h = k
    <3>1. \A k \in DlqHandlers : k # s => session'[k] = session[k]
      BY <1>1, KindsDisjoint
    <3>2. CASE s \notin DlqHandlers
      BY <3>1, <3>2 DEF KeeperInv, HandlersHold
    <3>3. CASE s \in DlqHandlers
      BY <1>1, <3>1, <3>3 DEF KeeperInv, HandlersHold, Held
    <3>4. QED
      BY <3>2, <3>3
  <2>2. QED
    BY <2>1 DEF HandlersHold
<1>4. ASSUME NEW x \in u.rows
      PROVE  Ready(s, u, x)'
  <2>1. x \in Deliveries
    BY DEF Session
  <2>2. FlushLetters(x, u)' = FlushLetters(x, u) /\ Due(x)' = Due(x) /\ Lives(x)' = Lives(x)
    BY <1>2, <2>1 DEF FlushLetters, Due
  <2>3. Ready(s, u, x)
    OBVIOUS
  <2>4. QED
    BY <2>2, <2>3 DEF Ready
<1>5. QED
  BY <1>2, <1>3, <1>4, KeeperStep

\* A session publishes for one of its rows: the new copy, or what the session
\* writes instead of it, is the keeper the commit will leave.
LEMMA KeeperPublish ==
  ASSUME FaultKinds \subseteq {"refusal"}, KeeperInv, ApartInv',
         NEW s \in Sessions, NEW v \in Session, v = session[s],
         NEW u \in Session, session' = [session EXCEPT ![s] = u],
         NEW d \in v.rows, NEW where \in {"queue", "waiting"}, NEW ok \in BOOLEAN,
         Publish(d, where, ok), UNCHANGED <<row, letters>>,
         v.pc \in {"retry", "work"}, u.pc = "work", s \in Scans => v.pc = "work",
         u.rows = v.rows, u.copy = v.copy, u.letter = v.letter,
         d \notin u.todo, \A x \in v.rows : x # d => (x \in u.todo <=> x \in v.todo),
         \A x \in v.rows : x # d => u.change[x] = v.change[x],
         s \notin Operators => u.resolve = v.resolve,
         Lives(d) \subseteq {v.copy}, row[d].status # "NONE",
         ok => \A n : OneKeeper(Flush(row[d], u.change[d]), FlushLetters(d, u), {n}),
         ~ok => OneKeeper(Flush(row[d], u.change[d]), FlushLetters(d, u), {})
  PROVE  KeeperInv'
<1>1. session'[s] = u /\ \A t \in Sessions : t # s => session'[t] = session[t]
  BY DEF KeeperInv, ApartInv, TypeOK, SessionsTyped
<1>2. d \in Deliveries /\ TypeOK /\ HandlersHold /\ InHand(s, v)
  BY DEF KeeperInv, ApartInv, Session
<1>3. \A x \in Deliveries : x \in v.rows /\ x # d => s \in Scans
  BY <1>2 DEF InHand
<1>4. \A x \in Deliveries : FlushLetters(x, u)' = FlushLetters(x, u) /\ Due(x)' = Due(x)
  BY DEF FlushLetters, Due
<1>5. ASSUME NEW x \in v.rows, x # d, Lives(x)' = Lives(x)
      PROVE  Ready(s, u, x)'
  <2>1. s \in Scans /\ s \notin Operators /\ x \in Deliveries
    BY <1>3, <1>5, KindsDisjoint DEF Session
  <2>2. Ready(s, v, x)
    BY DEF KeeperInv
  <2>3. FlushLetters(x, u) = FlushLetters(x, v)
    BY <1>5, <2>1 DEF FlushLetters
  <2>4. /\ u.change[x] = v.change[x] /\ u.copy = v.copy /\ u.pc = v.pc
        /\ x \in u.todo <=> x \in v.todo
    BY <1>5, <2>1
  <2>5. Ready(s, u, x)
    BY <2>2, <2>3, <2>4 DEF Ready
  <2>6. FlushLetters(x, u)' = FlushLetters(x, u) /\ Due(x)' = Due(x)
    BY <1>4, <2>1
  <2>7. QED
    BY <1>5, <2>5, <2>6 DEF Ready
<1>6. CASE ok /\ PutCopy(d, where)
  <2>1. \A h \in DlqHandlers :
          /\ session'[h].pc = "ack" => session[h].pc = "ack" /\ session'[h].copy = session[h].copy
          /\ session[h].pc = "ack" => session'[h] = session[h]
    BY <1>1, KindsDisjoint
  <2>2. PICK n \in Copies :
          /\ n \notin Lives(d) /\ Lives(d)' = Lives(d) \cup {n}
          /\ \A x \in Deliveries : x # d => Lives(x)' = Lives(x)
          /\ place[n] = "free"
          /\ \A c \in Copies : c # n => place'[c] = place[c] /\ target'[c] = target[c]
          /\ target'[n] = d
    BY <1>2, <1>6, <2>1, LivesPut
  <2>3. HandlersHold'
    <3>1. \A h \in DlqHandlers : /\ session'[h].copy = session[h].copy
                                 /\ session'[h].pc # "idle" => session[h].pc # "idle"
      BY <1>1, KindsDisjoint
    <3>2. \A c \in Copies : place[c] = "dlq" => place'[c] = "dlq"
      BY <2>2
    <3>3. QED
      BY <1>2, <3>1, <3>2 DEF HandlersHold
  <2>4. Ready(s, u, d)'
    <3>1. OneKeeper(Flush(row[d], u.change[d]), FlushLetters(d, u), {n})
      BY <1>6
    <3>2. Lives(d)' \ {u.copy} \subseteq {n}
      BY <2>2
    <3>3. OneKeeper(Flush(row[d], u.change[d]), FlushLetters(d, u), Lives(d)' \ {u.copy})
      BY <3>1, <3>2, FewerCopies
    <3>4. QED
      BY <1>2, <1>4, <3>3 DEF Ready
  <2>5. \A x \in u.rows : Ready(s, u, x)'
    <3>1. ASSUME NEW x \in u.rows
          PROVE  Ready(s, u, x)'
      <4>1. CASE x = d
        BY <2>4, <4>1
      <4>2. CASE x # d
        <5>1. x \in v.rows /\ Lives(x)' = Lives(x)
          BY <2>2, <4>2 DEF Session
        <5>2. QED
          BY <1>5, <4>2, <5>1
      <4>3. QED
        BY <4>1, <4>2
    <3>2. QED
      BY <3>1
  <2>6. \A x \in Deliveries : x # d => \A c \in Copies : target'[c] = x => target[c] = x
    BY <2>2
  <2>7. \A x \in Deliveries : x \notin v.rows =>
           Lives(x)' = Lives(x) /\ \A c \in Copies : target'[c] = x => target[c] = x
    BY <2>2, <2>6
  <2>8. QED
    BY <2>3, <2>5, <2>7, KeeperSame
<1>7. CASE ~ok /\ UNCHANGED <<place, target>>
  <2>1. \A x \in Deliveries : Lives(x)' = Lives(x)
    BY <1>2, <1>7, LivesLoad
  <2>2. HandlersHold'
    <3>1. \A h \in DlqHandlers : /\ session'[h].copy = session[h].copy
                                 /\ session'[h].pc # "idle" => session[h].pc # "idle"
      BY <1>1, KindsDisjoint
    <3>2. QED
      BY <1>2, <1>7, <3>1 DEF HandlersHold
  <2>3. Ready(s, u, d)'
    <3>1. Lives(d)' \ {u.copy} = {}
      BY <1>2, <2>1
    <3>2. OneKeeper(Flush(row[d], u.change[d]), FlushLetters(d, u), Lives(d)' \ {u.copy})
      BY <1>7, <3>1
    <3>3. QED
      BY <1>2, <1>4, <3>2 DEF Ready
  <2>4. ASSUME NEW x \in u.rows
        PROVE  Ready(s, u, x)'
    <3>1. CASE x = d
      BY <2>3, <3>1
    <3>2. CASE x # d
      <4>1. x \in v.rows /\ Lives(x)' = Lives(x)
        BY <2>1, <3>2 DEF Session
      <4>2. QED
        BY <1>5, <3>2, <4>1
    <3>3. QED
      BY <3>1, <3>2
  <2>5. \A x \in Deliveries : x \notin v.rows =>
           Lives(x)' = Lives(x) /\ \A c \in Copies : target'[c] = x => target[c] = x
    BY <1>7, <2>1
  <2>6. QED
    BY <2>2, <2>4, <2>5, KeeperSame
<1>8. QED
  BY <1>6, <1>7 DEF Publish, Fault

\* The commit of a session that has published all its rows: a handler's copy is
\* spent from then on.
LEMMA KeeperCommit ==
  ASSUME KeeperInv, ApartInv', NEW s \in Sessions, NEW v \in Session, v = session[s],
         v.pc = "work", v.todo = {}, Commit(v), UNCHANGED <<place, target>>,
         NEW u \in Session, session' = [session EXCEPT ![s] = u], u.rows = {},
         s \in DlqHandlers => u.pc = "ack" /\ u.copy = v.copy
  PROVE  KeeperInv'
<1>1. session'[s] = u /\ \A t \in Sessions : t # s => session'[t] = session[t]
  BY DEF KeeperInv, ApartInv, TypeOK, SessionsTyped
<1>2. InHand(s, v) /\ HandlersHold
  BY DEF KeeperInv, ApartInv
<1>3. HandlersHold'
  <2>1. \A h \in DlqHandlers : /\ session'[h].copy = session[h].copy
                               /\ session'[h].pc # "idle" => session[h].pc # "idle"
    BY <1>1, KindsDisjoint
  <2>2. QED
    BY <1>2, <2>1 DEF HandlersHold
<1>4. ASSUME NEW x \in Deliveries
      PROVE  Lives(x)' = Lives(x) \ {v.copy}
  <2>1. \A c \in Copies : Spent(c)' <=> Spent(c) \/ c = v.copy
    <3>1. CASE s \in DlqHandlers
      BY <1>1, <3>1, KindsDisjoint DEF Spent
    <3>2. CASE s \notin DlqHandlers
      <4>1. v.copy \notin Copies
        BY <1>2, <3>2 DEF InHand
      <4>2. \A h \in DlqHandlers : session'[h] = session[h]
        BY <1>1, <3>2, KindsDisjoint
      <4>3. QED
        BY <4>1, <4>2 DEF Spent
    <3>3. QED
      BY <3>1, <3>2
  <2>2. QED
    BY <2>1 DEF Lives, Live
<1>5. ASSUME NEW x \in v.rows
      PROVE  OneKeeper(row'[x], letters'[x], Lives(x)')
  <2>1. x \in Deliveries
    BY DEF Session
  <2>2. Ready(s, v, x)
    BY DEF KeeperInv
  <2>3. OneKeeper(Flush(row[x], v.change[x]), FlushLetters(x, v), Lives(x) \ {v.copy})
    BY <2>2 DEF Ready
  <2>4. row'[x] = Flush(row[x], v.change[x]) /\ letters'[x] = FlushLetters(x, v)
    BY <2>1, CommitFrame
  <2>5. QED
    BY <1>4, <2>1, <2>3, <2>4
<1>6. \A x \in Deliveries : x \notin v.rows => row'[x] = row[x] /\ letters'[x] = letters[x]
  BY CommitFrame
<1>7. /\ \A x \in Deliveries : x \notin v.rows /\ x \notin u.rows =>
            row'[x] = row[x] /\ letters'[x] = letters[x] /\ Lives(x)' \subseteq Lives(x)
            /\ \A c \in Copies : target'[c] = x => target[c] = x
      /\ \A x \in Deliveries : x \notin v.rows => Lives(x) \ {v.copy} \subseteq Lives(x)'
  BY <1>4, <1>6
<1>8. /\ \A x \in v.rows : x \notin u.rows => OneKeeper(row'[x], letters'[x], Lives(x)')
      /\ \A x \in u.rows : Ready(s, u, x)' /\ row'[x] = row[x] /\ letters'[x] = letters[x]
  BY <1>5
<1>9. QED
  BY <1>3, <1>7, <1>8, KeeperStep

\* The acknowledgement removes a copy that is spent.
LEMMA KeeperAck ==
  ASSUME KeeperInv, ApartInv', NEW h \in DlqHandlers, DlqAck(h)
  PROVE  KeeperInv'
<1>1. h \in Sessions /\ HandlersHold /\ TypeOK
  BY KindsDisjoint DEF KeeperInv, ApartInv
<1>2. PICK v \in Session : v = session[h] /\ InHand(h, v)
  BY <1>1, InHandKept DEF KeeperInv
<1>3. v.pc = "ack" /\ v.rows = {} /\ v.copy \in Copies /\ session' = [session EXCEPT ![h] = Idle]
      /\ UNCHANGED <<row, letters>>
  BY <1>1, <1>2 DEF DlqAck, InHand, HandlersHold, database
<1>4. \A c \in Copies : IF c = v.copy THEN place'[c] = "free" /\ target'[c] = NoDelivery
                        ELSE place'[c] = place[c] /\ target'[c] = target[c]
  BY <1>2 DEF DlqAck, TakeOut
<1>5. session'[h] = Idle /\ \A t \in Sessions : t # h => session'[t] = session[t]
  BY <1>1, <1>3 DEF TypeOK, SessionsTyped
<1>6. HandlersHold'
  <2>1. ASSUME NEW k \in DlqHandlers, k # h
        PROVE  /\ session'[k] = session[k] /\ session[k].copy # v.copy
               /\ session[k].pc # "idle" =>
                    session[k].copy \in Copies /\ place'[session[k].copy] = "dlq"
    <3>1. session'[k] = session[k] /\ session[k].copy # v.copy
      BY <1>1, <1>2, <1>3, <1>5, <2>1, KindsDisjoint DEF HandlersHold
    <3>2. QED
      BY <1>1, <1>4, <3>1 DEF HandlersHold
  <2>2. session'[h].pc = "idle" /\ session'[h].copy \notin Copies
    BY <1>5, IdleShape
  <2>3. QED
    BY <1>1, <2>1, <2>2 DEF HandlersHold
<1>7. ASSUME NEW x \in Deliveries
      PROVE  Lives(x)' = Lives(x)
  <2>1. \A c \in Copies : c # v.copy => (Spent(c)' <=> Spent(c))
    BY <1>2, <1>5, IdleShape, KindsDisjoint DEF Spent
  <2>2. Spent(v.copy)
    BY <1>2, <1>3 DEF Spent
  <2>3. ASSUME NEW c \in Copies
        PROVE  Live(c, x)' <=> Live(c, x)
    <3>1. CASE c = v.copy
      BY <1>4, <2>2, <3>1 DEF Live
    <3>2. CASE c # v.copy
      BY <1>4, <2>1, <3>2 DEF Live
    <3>3. QED
      BY <3>1, <3>2
  <2>4. QED
    BY <2>3 DEF Lives
<1>8. \A x \in Deliveries : \A c \in Copies : target'[c] = x => target[c] = x
  BY <1>4, DeliveryCycleAssumption
<1>9. Idle \in Session /\ Idle.rows = {}
  BY IdleShape
<1>10. PICK u : u = Idle
  OBVIOUS
<1>11. /\ h \in Sessions /\ v = session[h] /\ u \in Session
       /\ session' = [session EXCEPT ![h] = u] /\ v.rows = u.rows
       /\ \A x \in u.rows : Ready(h, u, x)'
  BY <1>1, <1>2, <1>3, <1>9, <1>10
<1>12. \A x \in Deliveries : x \notin v.rows =>
         Lives(x)' = Lives(x) /\ \A c \in Copies : target'[c] = x => target[c] = x
  BY <1>7, <1>8
<1>13. UNCHANGED <<row, letters>>
  BY <1>3
<1>14. QED
  BY <1>6, <1>11, <1>12, <1>13, KeeperSame

-----------------------------------------------------------------------------
(* The keeper that each change leaves.                                     *)

\* Nobody works on a delivery that a session without rows loads.
LEMMA LoadedAtRest ==
  ASSUME ApartInv, ApartInv', NEW s \in Sessions, session[s].rows = {}, NEW u \in Session,
         session' = [session EXCEPT ![s] = u], NEW d \in u.rows
  PROVE  \A t \in Sessions : d \notin session[t].rows
<1>1. session'[s] = u /\ \A t \in Sessions : t # s => session'[t] = session[t]
  BY DEF ApartInv, TypeOK, SessionsTyped
<1>2. QED
  BY <1>1 DEF ApartInv, RowsApart

\* Between two sessions one keeper answers for a delivery that has a copy, a
\* row or a letter.
LEMMA KeptAtRest ==
  ASSUME KeeperInv, NEW d \in Deliveries, \A t \in Sessions : d \notin session[t].rows,
         row[d] # NoRow \/ letters[d] # <<>> \/ \E c \in Copies : target[c] = d
  PROVE  OneKeeper(row[d], letters[d], Lives(d))
BY DEF KeeperInv, AtRest, Unrouted

\* An exhausted delivery, which had no open letter, is kept by the new one.
LEMMA KeptExhausted ==
  ASSUME TypeOK, NEW d \in Deliveries, NEW u \in Session, OpenLetters(d) = {}, u.resolve = "OPEN",
         u.change[d].seen = row[d], u.change[d].new.status = "DEAD", u.change[d].opens
  PROVE  OneKeeper(Flush(row[d], u.change[d]), FlushLetters(d, u), {})
<1>1. PICK r \in Row, ch \in Change : r = row[d] /\ ch = u.change[d]
  BY DEF TypeOK, DatabaseTyped, Session
<1>2. Flush(r, ch).status = "DEAD"
  BY <1>1, FlushSeen
<1>3. \E i \in DOMAIN FlushLetters(d, u) :
        /\ FlushLetters(d, u)[i] = "OPEN"
        /\ \A j \in DOMAIN FlushLetters(d, u) : FlushLetters(d, u)[j] = "OPEN" => j = i
  BY OpenFlushed DEF TypeOK
<1>4. QED
  BY <1>1, <1>2, <1>3, KeptByLetter

\* A delivery whose letters are not or no longer open is kept by its copy, or
\* by the scans when there is none.
LEMMA KeptTravelling ==
  ASSUME TypeOK, NEW d \in Deliveries, NEW u \in Session,
         IF u.resolve = "OPEN" THEN OpenLetters(d) = {} ELSE OpenLetters(d) \subseteq {u.letter},
         u.change[d].seen = row[d], u.change[d].new.status \notin {"NONE", "DEAD"},
         ~u.change[d].opens, NEW C, \A c, x \in C : c = x,
         C = {} \/ u.change[d].new.status # "RETRYING" \/ ~u.change[d].new.next
  PROVE  OneKeeper(Flush(row[d], u.change[d]), FlushLetters(d, u), C)
<1>1. PICK r \in Row, ch \in Change : r = row[d] /\ ch = u.change[d]
  BY DEF TypeOK, DatabaseTyped, Session
<1>2. Flush(r, ch).status = ch.new.status /\ (Flush(r, ch).next <=> ch.new.next)
  BY <1>1, FlushSeen
<1>3. \A i \in DOMAIN FlushLetters(d, u) : FlushLetters(d, u)[i] # "OPEN"
  BY OpenFlushed DEF TypeOK, OpenLetters
<1>4. /\ Flush(r, ch).status \notin {"NONE", "DEAD"}
      /\ C = {} \/ Flush(r, ch).status # "RETRYING" \/ ~Flush(r, ch).next
  BY <1>1, <1>2
<1>5. OneKeeper(Flush(r, ch), FlushLetters(d, u), C)
  BY <1>3, <1>4, KeptByCopy
<1>6. QED
  BY <1>1, <1>5

-----------------------------------------------------------------------------
(* The handlers of q.dlq.                                                  *)

LEMMA KeeperTakeIn ==
  ASSUME KeeperInv, ApartInv', NEW h \in DlqHandlers, NEW c \in Copies,
         HandleDlqMessage(h, c)
  PROVE  KeeperInv'
<1>1. h \in Sessions /\ h \notin Operators /\ h \notin Scans /\ TypeOK
  BY KindsDisjoint, DeliveryCycleAssumption DEF KeeperInv, ApartInv
<1>2. PICK v \in Session : v = session[h] /\ InHand(h, v)
  BY <1>1, InHandKept DEF KeeperInv
<1>3. PICK d \in Deliveries : d = target[c]
  BY <1>1, TakeInShape
<1>4. /\ v.pc = "idle" /\ place[c] = "dlq" /\ ~Held(c) /\ \A t \in Sessions : d \notin session[t].rows
      /\ UNCHANGED <<row, letters, place, target>>
  <2>1. /\ v.pc = "idle" /\ v.rows = {} /\ place[c] = "dlq" /\ ~Held(c)
        /\ UNCHANGED <<row, letters, place, target>>
    BY <1>2 DEF HandleDlqMessage, InHand, database, broker
  <2>2. PICK u \in Session : session' = [session EXCEPT ![h] = u] /\ u.rows = {d}
    BY <1>1, <1>3, TakeInShape
  <2>3. \A t \in Sessions : d \notin session[t].rows
    BY <1>1, <1>2, <2>1, <2>2, LoadedAtRest DEF KeeperInv
  <2>4. QED
    BY <2>1, <2>3
<1>5. c \in Lives(d)
  BY <1>3, <1>4 DEF Lives, Live, Spent, Held
<1>6. OneKeeper(row[d], letters[d], Lives(d))
  BY <1>3, <1>4, KeptAtRest
<1>7. /\ row[d].status \notin {"NONE", "DEAD"} /\ OpenLetters(d) = {} /\ Lives(d) = {c}
  BY <1>5, <1>6, KeeperSays DEF OpenLetters
<1>8. PICK exhausted \in BOOLEAN : exhausted <=> attempts_exhausted(row[d].attempts)
  OBVIOUS
<1>9. PICK u \in Session :
        /\ session' = [session EXCEPT ![h] = u]
        /\ u.pc = IF exhausted THEN "work" ELSE "retry"
        /\ u.rows = {d} /\ u.todo = {} /\ u.copy = c /\ u.resolve = "OPEN"
        /\ u.change[d] = IF exhausted THEN exhaust(row[d], row[d].attempts) ELSE Loaded(row[d])
  BY <1>1, <1>3, <1>8, TakeInShape
<1>10. Ready(h, u, d)
  <2>1. CASE exhausted
    <3>1. u.change[d].seen = row[d] /\ u.change[d].new.status = "DEAD" /\ u.change[d].opens
      BY <1>9, <2>1, ExhaustFields
    <3>2. OneKeeper(Flush(row[d], u.change[d]), FlushLetters(d, u), {})
      BY <1>1, <1>7, <1>9, <3>1, KeptExhausted
    <3>3. Lives(d) \ {u.copy} = {}
      BY <1>7, <1>9
    <3>4. OneKeeper(Flush(row[d], u.change[d]), FlushLetters(d, u), Lives(d) \ {u.copy})
      BY <3>2, <3>3
    <3>5. u.pc = "work" /\ d \notin u.todo
      BY <1>9, <2>1
    <3>6. QED
      BY <1>7, <3>4, <3>5 DEF Ready
  <2>2. CASE ~exhausted
    <3>1. u.change[d].seen = row[d] /\ u.copy \in Lives(d) /\ u.pc = "retry"
      BY <1>5, <1>9, <2>2, LoadedFields
    <3>2. QED
      BY <1>1, <1>6, <1>7, <3>1 DEF Ready
  <2>3. QED
    BY <2>1, <2>2
<1>11. v.rows = {} /\ v.pc # "ack" /\ u.pc # "ack"
  BY <1>2, <1>4, <1>9 DEF InHand
<1>12. /\ v.rows \subseteq u.rows /\ \A x \in u.rows : Ready(h, u, x)
       /\ u.copy \in Copies /\ place[u.copy] = "dlq" /\ ~Held(u.copy)
  BY <1>4, <1>9, <1>10, <1>11
<1>13. QED
  BY <1>1, <1>2, <1>4, <1>9, <1>11, <1>12, KeeperLoad

LEMMA KeeperSchedule ==
  ASSUME FaultKinds \subseteq {"refusal"}, KeeperInv, ApartInv', NEW h \in DlqHandlers,
         NEW d \in Deliveries, ScheduleRetry(h, d)
  PROVE  KeeperInv'
<1>1. h \in Sessions /\ h \notin Operators /\ h \notin Scans /\ TypeOK
  BY KindsDisjoint, DeliveryCycleAssumption DEF KeeperInv, ApartInv
<1>2. PICK v \in Session : v = session[h] /\ InHand(h, v)
  BY <1>1, InHandKept DEF KeeperInv
<1>3. PICK u \in Session, published \in BOOLEAN :
        /\ Publish(d, "waiting", published) /\ session' = [session EXCEPT ![h] = u]
        /\ v.pc = "retry" /\ d \in v.rows /\ u.pc = "work"
        /\ u.rows = v.rows /\ u.todo = v.todo /\ u.copy = v.copy
        /\ u.letter = v.letter /\ u.resolve = v.resolve
        /\ u.change[d] = schedule_retry(v.change[d].seen, published)
        /\ \A x \in Deliveries : x # d => u.change[x] = v.change[x]
  BY <1>1, <1>2, ScheduleRetryShape
<1>4. UNCHANGED <<row, letters>>
  BY DEF ScheduleRetry, database
<1>5. Ready(h, v, d)
  BY <1>1, <1>2, <1>3 DEF KeeperInv
<1>6. /\ row[d].status # "NONE" /\ OneKeeper(row[d], letters[d], Lives(d))
      /\ v.change[d].seen = row[d] /\ v.copy \in Lives(d)
  BY <1>1, <1>3, <1>5 DEF Ready
<1>7. OpenLetters(d) = {} /\ Lives(d) \subseteq {v.copy}
  BY <1>6, KeeperSays DEF OpenLetters
<1>8. u.todo = {} /\ v.todo = {} /\ u.resolve = "OPEN"
  BY <1>1, <1>2, <1>3 DEF InHand
<1>9. /\ u.change[d].seen = row[d] /\ u.change[d].new.status = "RETRYING" /\ ~u.change[d].opens
      /\ u.change[d].new.next <=> ~published
  BY <1>3, <1>6, ScheduleFields
<1>10. ASSUME NEW C, \A c, x \in C : c = x, published \/ C = {}
       PROVE  OneKeeper(Flush(row[d], u.change[d]), FlushLetters(d, u), C)
  BY <1>1, <1>7, <1>8, <1>9, <1>10, KeptTravelling
<1>11. /\ published => \A n : OneKeeper(Flush(row[d], u.change[d]), FlushLetters(d, u), {n})
       /\ ~published => OneKeeper(Flush(row[d], u.change[d]), FlushLetters(d, u), {})
  BY <1>10
<1>12. /\ d \notin u.todo /\ \A x \in v.rows : x # d => (x \in u.todo <=> x \in v.todo)
       /\ \A x \in v.rows : x # d => u.change[x] = v.change[x]
  BY <1>3, <1>8 DEF Session
<1>13. v.pc \in {"retry", "work"} /\ (h \in Scans => v.pc = "work")
       /\ "waiting" \in {"queue", "waiting"} /\ (h \notin Operators => u.resolve = v.resolve)
  BY <1>1, <1>3
<1>14. QED
  BY <1>1, <1>2, <1>3, <1>4, <1>6, <1>7, <1>11, <1>12, <1>13, KeeperPublish

LEMMA KeeperHandler ==
  ASSUME FaultKinds \subseteq {"refusal"}, KeeperInv, ApartInv',
         NEW h \in DlqHandlers, Handler(h)
  PROVE  KeeperInv'
<1>1. h \in Sessions /\ h \notin Scans /\ TypeOK
  BY KindsDisjoint, DeliveryCycleAssumption DEF KeeperInv, ApartInv
<1>2. CASE DlqCommit(h)
  <2>1. PICK v \in Session : v = session[h] /\ InHand(h, v)
    BY <1>1, InHandKept DEF KeeperInv
  <2>2. PICK u \in Session :
          /\ session' = [session EXCEPT ![h] = u] /\ v.pc = "work" /\ Commit(v)
          /\ u.pc = "ack" /\ u.rows = {} /\ u.copy = v.copy
    BY <1>1, <1>2, <2>1, DlqCommitShape
  <2>3. v.todo = {} /\ UNCHANGED <<place, target>>
    BY <1>1, <1>2, <2>1 DEF InHand, DlqCommit, broker
  <2>4. QED
    BY <1>1, <2>1, <2>2, <2>3, KeeperCommit
<1>3. ~DlqCrash(h) /\ ~DlqFail(h)
  BY DEF DlqCrash, DlqFail, Fault
<1>4. QED
  BY <1>2, <1>3, KeeperTakeIn, KeeperSchedule, KeeperAck DEF Handler

-----------------------------------------------------------------------------
(* The due scans.                                                          *)

LEMMA KeeperDueRead ==
  ASSUME KeeperInv, ApartInv', NEW s \in Scans, DueRead(s)
  PROVE  KeeperInv'
<1>1. s \in Sessions /\ s \notin Operators /\ s \notin DlqHandlers /\ TypeOK
  BY KindsDisjoint DEF KeeperInv, ApartInv
<1>2. PICK v \in Session : v = session[s] /\ InHand(s, v)
  BY <1>1, InHandKept DEF KeeperInv
<1>3. v.pc = "idle" /\ v.rows = {} /\ UNCHANGED <<row, letters, place, target>>
  BY <1>2 DEF DueRead, InHand, database, broker
<1>4. PICK u \in Session :
        /\ session' = [session EXCEPT ![s] = u]
        /\ u.rows \subseteq {d \in Deliveries : Due(d) /\ MayLoad(d)}
        /\ u.pc = "work" /\ u.todo = u.rows
        /\ \A x \in Deliveries : u.change[x] = Loaded(IF x \in u.rows THEN row[x] ELSE NoRow)
  BY <1>1, DueReadShape
<1>5. ASSUME NEW x \in u.rows
      PROVE  Ready(s, u, x)
  <2>1. x \in Deliveries /\ Due(x) /\ (\A t \in Sessions : x \notin session[t].rows) /\ x \in u.todo
    BY <1>1, <1>2, <1>3, <1>4, LoadedAtRest DEF KeeperInv
  <2>2. row[x].status = "RETRYING" /\ row[x] \in Row
    BY <1>1, <2>1 DEF Due, TypeOK, DatabaseTyped
  <2>3. row[x] # NoRow
    BY <2>2 DEF NoRow
  <2>4. OneKeeper(row[x], letters[x], Lives(x))
    BY <2>1, <2>3, KeptAtRest
  <2>5. u.change[x].seen = row[x]
    BY <1>4, <2>1, LoadedFields
  <2>6. QED
    BY <1>1, <2>1, <2>2, <2>4, <2>5 DEF Ready
<1>6. v.pc # "ack" /\ u.pc # "ack" /\ v.rows \subseteq u.rows
  BY <1>3, <1>4
<1>7. QED
  BY <1>1, <1>2, <1>3, <1>4, <1>5, <1>6, KeeperLoad

LEMMA KeeperDuePublish ==
  ASSUME FaultKinds \subseteq {"refusal"}, KeeperInv, ApartInv', NEW s \in Scans,
         NEW d \in Deliveries, DuePublish(s, d)
  PROVE  KeeperInv'
<1>1. s \in Sessions /\ s \notin Operators /\ s \notin DlqHandlers /\ TypeOK
  BY KindsDisjoint DEF KeeperInv, ApartInv
<1>2. PICK v \in Session : v = session[s] /\ InHand(s, v)
  BY <1>1, InHandKept DEF KeeperInv
<1>3. PICK u \in Session, published \in BOOLEAN :
        /\ Publish(d, "queue", published) /\ session' = [session EXCEPT ![s] = u]
        /\ v.pc = "work" /\ d \in v.todo /\ u.pc = "work"
        /\ u.rows = v.rows /\ u.todo = v.todo \ {d} /\ u.copy = v.copy
        /\ u.letter = v.letter /\ u.resolve = v.resolve
        /\ u.change[d] = due_attempt(v.change[d].seen, published)
        /\ \A x \in Deliveries : x # d => u.change[x] = v.change[x]
  BY <1>1, <1>2, DuePublishShape
<1>4. UNCHANGED <<row, letters>>
  BY DEF DuePublish, database
<1>5. d \in v.rows /\ u.resolve = "OPEN"
  BY <1>1, <1>2, <1>3 DEF InHand
<1>6. Ready(s, v, d)
  BY <1>1, <1>2, <1>5 DEF KeeperInv
<1>7. /\ row[d].status # "NONE" /\ OneKeeper(row[d], letters[d], Lives(d))
      /\ v.change[d].seen = row[d] /\ row[d].status = "RETRYING" /\ row[d].next
  BY <1>1, <1>3, <1>6 DEF Ready, Due
<1>8. OpenLetters(d) = {} /\ Lives(d) = {}
  BY <1>7, KeeperSays DEF OpenLetters
<1>9. /\ u.change[d].seen = row[d]
      /\ published => u.change[d].new.status = "DELIVERED" /\ ~u.change[d].opens
      /\ ~published => \/ u.change[d].new.status = "DEAD" /\ u.change[d].opens
                       \/ u.change[d].new.status = "RETRYING" /\ ~u.change[d].opens
  BY <1>3, <1>7, DueFields
<1>10. ASSUME published, NEW n
       PROVE  OneKeeper(Flush(row[d], u.change[d]), FlushLetters(d, u), {n})
  BY <1>1, <1>5, <1>8, <1>9, <1>10, KeptTravelling
<1>11. ASSUME ~published
       PROVE  OneKeeper(Flush(row[d], u.change[d]), FlushLetters(d, u), {})
  <2>1. CASE u.change[d].opens
    BY <1>1, <1>5, <1>8, <1>9, <1>11, <2>1, KeptExhausted
  <2>2. CASE ~u.change[d].opens
    BY <1>1, <1>5, <1>8, <1>9, <1>11, <2>2, KeptTravelling
  <2>3. QED
    BY <2>1, <2>2
<1>12. /\ s \in Sessions /\ v = session[s] /\ session' = [session EXCEPT ![s] = u]
       /\ d \in v.rows /\ Publish(d, "queue", published)
       /\ v.pc \in {"retry", "work"} /\ u.pc = "work" /\ (s \in Scans => v.pc = "work")
       /\ u.rows = v.rows /\ u.copy = v.copy /\ u.letter = v.letter
       /\ (s \notin Operators => u.resolve = v.resolve)
       /\ Lives(d) \subseteq {v.copy} /\ row[d].status # "NONE"
  BY <1>1, <1>2, <1>3, <1>5, <1>7, <1>8
<1>13. /\ d \notin u.todo /\ \A x \in v.rows : x # d => (x \in u.todo <=> x \in v.todo)
       /\ \A x \in v.rows : x # d => u.change[x] = v.change[x]
  BY <1>3 DEF Session
<1>14. /\ published => \A n : OneKeeper(Flush(row[d], u.change[d]), FlushLetters(d, u), {n})
       /\ ~published => OneKeeper(Flush(row[d], u.change[d]), FlushLetters(d, u), {})
  BY <1>10, <1>11
<1>15. "queue" \in {"queue", "waiting"} /\ UNCHANGED <<row, letters>>
  BY <1>4
<1>16. QED
  BY <1>12, <1>13, <1>14, <1>15, KeeperPublish

LEMMA KeeperScan ==
  ASSUME FaultKinds \subseteq {"refusal"}, KeeperInv, ApartInv',
         NEW s \in Scans, Scan(s)
  PROVE  KeeperInv'
<1>1. s \in Sessions /\ s \notin DlqHandlers /\ TypeOK
  BY KindsDisjoint DEF KeeperInv, ApartInv
<1>2. CASE DueCommit(s)
  <2>1. PICK v \in Session : v = session[s]
    BY <1>1 DEF TypeOK, SessionsTyped
  <2>2. /\ session' = [session EXCEPT ![s] = Idle] /\ v.pc = "work" /\ v.todo = {} /\ Commit(v)
        /\ UNCHANGED <<place, target>>
    BY <1>2, <2>1 DEF DueCommit, broker
  <2>3. QED
    BY <1>1, <2>1, <2>2, IdleShape, KeeperCommit
<1>3. ~Rollback(s)
  BY DEF Rollback, Fault
<1>4. QED
  BY <1>2, <1>3, KeeperDueRead, KeeperDuePublish DEF Scan

-----------------------------------------------------------------------------
(* The operators.                                                          *)

LEMMA KeeperOpenRequest ==
  ASSUME KeeperInv, ApartInv', NEW o \in Operators, NEW d \in Deliveries,
         NEW i \in DOMAIN letters[d], NEW request \in {"retry", "discard"},
         OpenRequest(o, d, i, request)
  PROVE  KeeperInv'
<1>1. o \in Sessions /\ o \notin Scans /\ o \notin DlqHandlers /\ TypeOK
  BY KindsDisjoint, DeliveryCycleAssumption DEF KeeperInv, ApartInv
<1>2. PICK v \in Session : v = session[o] /\ InHand(o, v)
  BY <1>1, InHandKept DEF KeeperInv
<1>3. /\ v.pc = "idle" /\ v.rows = {} /\ letters[d][i] = "OPEN"
      /\ UNCHANGED <<row, letters, place, target>>
  BY <1>2 DEF OpenRequest, Resolvable, InHand, database, broker
<1>opened. Opened(o, d, i, request)
  BY <1>1, OpenRequestShape
<1>4. PICK u \in Session :
        /\ session' = [session EXCEPT ![o] = u] /\ u.pc = request /\ u.rows = {d}
        /\ u.todo = {} /\ u.copy = NoCopy /\ u.letter = i /\ u.resolve = "OPEN"
        /\ \A x \in Deliveries : u.change[x] = Loaded(NoRow)
  BY <1>opened DEF Opened
<1>5. letters[d] # <<>>
  OBVIOUS
<1>6. OneKeeper(row[d], letters[d], Lives(d))
  <2>1. \A t \in Sessions : d \notin session[t].rows
    BY <1>1, <1>2, <1>3, <1>4, LoadedAtRest DEF KeeperInv
  <2>2. QED
    BY <1>5, <2>1, KeptAtRest
<1>7. row[d].status # "NONE"
  BY <1>6, KeeperSays
<1>8. Ready(o, u, d)
  BY <1>1, <1>4, <1>6, <1>7 DEF Ready
<1>9. v.pc # "ack" /\ u.pc # "ack" /\ v.rows \subseteq u.rows /\ \A x \in u.rows : Ready(o, u, x)
  BY <1>3, <1>4, <1>8
<1>10. QED
  BY <1>1, <1>2, <1>3, <1>4, <1>9, KeeperLoad

\* What an operator who has not published yet has in hand.
LEMMA KeeperLetter ==
  ASSUME KeeperInv, NEW o \in Operators, NEW v \in Session, v = session[o],
         v.pc \in {"retry", "discard"}, NEW d \in v.rows
  PROVE  /\ OneKeeper(row[d], letters[d], Lives(d)) /\ row[d].status = "DEAD" /\ Lives(d) = {}
         /\ OpenLetters(d) = {v.letter} /\ v.change[d] = Loaded(NoRow) /\ v.resolve \in LetterStatus
<1>1. o \in Sessions /\ o \notin Scans /\ o \notin DlqHandlers
  BY KindsDisjoint, DeliveryCycleAssumption
<1>2. v.letter \in OpenLetters(d)
  BY <1>1 DEF KeeperInv, ApartInv, InHand
<1>3. Ready(o, v, d)
  BY <1>1 DEF KeeperInv
<1>4. OneKeeper(row[d], letters[d], Lives(d)) /\ v.change[d] = Loaded(NoRow)
  BY <1>3 DEF Ready
<1>5. OpenLetters(d) = {v.letter} /\ row[d].status = "DEAD" /\ Lives(d) = {}
  BY <1>2, <1>4, KeeperSays DEF OpenLetters
<1>6. QED
  BY <1>4, <1>5 DEF Session

LEMMA KeeperRetryPublish ==
  ASSUME FaultKinds \subseteq {"refusal"}, KeeperInv, ApartInv', NEW o \in Operators,
         NEW d \in Deliveries, RetryPublish(o, d)
  PROVE  KeeperInv'
<1>1. o \in Sessions /\ o \notin Scans /\ o \notin DlqHandlers /\ TypeOK
  BY KindsDisjoint, DeliveryCycleAssumption DEF KeeperInv, ApartInv
<1>2. PICK v \in Session : v = session[o] /\ InHand(o, v)
  BY <1>1, InHandKept DEF KeeperInv
<1>3. PICK u \in Session, published \in BOOLEAN :
        /\ Publish(d, "queue", published) /\ session' = [session EXCEPT ![o] = u]
        /\ v.pc = "retry" /\ d \in v.rows /\ u.pc = "work"
        /\ u.rows = v.rows /\ u.todo = v.todo /\ u.copy = v.copy
        /\ u.letter = v.letter /\ u.resolve = IF published THEN "RETRIED" ELSE "OPEN"
        /\ u.change[d] = IF published THEN republish(row[d]) ELSE v.change[d]
        /\ \A x \in Deliveries : x # d => u.change[x] = v.change[x]
  BY <1>1, <1>2, RetryPublishShape
<1>4. UNCHANGED <<row, letters>>
  BY DEF RetryPublish, database
<1>5. /\ OneKeeper(row[d], letters[d], Lives(d)) /\ row[d].status = "DEAD" /\ Lives(d) = {}
      /\ OpenLetters(d) = {v.letter} /\ v.change[d] = Loaded(NoRow)
  BY <1>2, <1>3, KeeperLetter
<1>6. u.todo = {} /\ v.todo = {}
  BY <1>1, <1>2, <1>3 DEF InHand
<1>7. ASSUME published, NEW n
      PROVE  OneKeeper(Flush(row[d], u.change[d]), FlushLetters(d, u), {n})
  <2>1. /\ u.change[d].seen = row[d] /\ u.change[d].new.status = "DELIVERED" /\ ~u.change[d].opens
        /\ u.resolve = "RETRIED" /\ OpenLetters(d) \subseteq {u.letter}
    BY <1>3, <1>5, <1>7, ManualFields
  <2>2. QED
    BY <1>1, <2>1, KeptTravelling
<1>8. ASSUME ~published
      PROVE  OneKeeper(Flush(row[d], u.change[d]), FlushLetters(d, u), {})
  <2>1. u.change[d] = Loaded(NoRow) /\ u.resolve = "OPEN" /\ ~u.change[d].opens
    BY <1>3, <1>5, <1>8, LoadedFields
  <2>2. FlushLetters(d, u) = letters[d]
    BY <1>1, <2>1, OpenFlushed DEF TypeOK
  <2>3. Flush(row[d], u.change[d]).status = "DEAD"
    BY <1>5, <2>1 DEF Flush, Loaded, Write
  <2>4. \E i \in DOMAIN letters[d] : /\ letters[d][i] = "OPEN"
                                     /\ \A j \in DOMAIN letters[d] : letters[d][j] = "OPEN" => j = i
    BY <1>5 DEF OpenLetters
  <2>5. QED
    BY <2>2, <2>3, <2>4, KeptByLetter
<1>9. /\ d \notin u.todo /\ \A x \in v.rows : x # d => (x \in u.todo <=> x \in v.todo)
      /\ \A x \in v.rows : x # d => u.change[x] = v.change[x]
  BY <1>3, <1>6 DEF Session
<1>10. /\ v.pc \in {"retry", "work"} /\ "queue" \in {"queue", "waiting"}
       /\ Lives(d) \subseteq {v.copy} /\ row[d].status # "NONE"
  BY <1>3, <1>5
<1>11. QED
  BY <1>1, <1>2, <1>3, <1>4, <1>7, <1>8, <1>9, <1>10, KeeperPublish

LEMMA KeeperDiscardLoad ==
  ASSUME KeeperInv, ApartInv', NEW o \in Operators, NEW d \in Deliveries, DiscardLoad(o, d)
  PROVE  KeeperInv'
<1>1. o \in Sessions /\ o \notin Scans /\ o \notin DlqHandlers /\ TypeOK
  BY KindsDisjoint, DeliveryCycleAssumption DEF KeeperInv, ApartInv
<1>2. PICK v \in Session : v = session[o] /\ InHand(o, v)
  BY <1>1, InHandKept DEF KeeperInv
<1>3. PICK u \in Session :
        /\ session' = [session EXCEPT ![o] = u]
        /\ v.pc = "discard" /\ d \in v.rows /\ u.pc = "work"
        /\ u.rows = v.rows /\ u.todo = v.todo /\ u.copy = v.copy
        /\ u.letter = v.letter /\ u.resolve = "DISCARDED" /\ u.change[d] = discard(row[d])
  BY <1>1, <1>2, DiscardLoadShape
<1>4. UNCHANGED <<row, letters, place, target>>
  BY DEF DiscardLoad, database, broker
<1>5. row[d].status = "DEAD" /\ Lives(d) = {} /\ OpenLetters(d) = {v.letter}
  BY <1>2, <1>3, KeeperLetter
<1>6. u.rows = {d} /\ u.todo = {}
  BY <1>1, <1>2, <1>3 DEF InHand
<1>7. /\ u.change[d].seen = row[d] /\ u.change[d].new.status = "DISCARDED" /\ ~u.change[d].opens
      /\ u.resolve = "DISCARDED" /\ OpenLetters(d) \subseteq {u.letter}
  BY <1>3, <1>5, ManualFields
<1>8. OneKeeper(Flush(row[d], u.change[d]), FlushLetters(d, u), {})
  BY <1>1, <1>7, KeptTravelling
<1>9. Lives(d) \ {u.copy} = {}
  BY <1>5
<1>10. OneKeeper(Flush(row[d], u.change[d]), FlushLetters(d, u), Lives(d) \ {u.copy})
  BY <1>8, <1>9
<1>11. Ready(o, u, d)
  BY <1>3, <1>5, <1>6, <1>10 DEF Ready
<1>12. v.pc # "ack" /\ u.pc # "ack" /\ v.rows \subseteq u.rows /\ \A x \in u.rows : Ready(o, u, x)
  BY <1>3, <1>6, <1>11
<1>13. QED
  BY <1>1, <1>2, <1>3, <1>4, <1>12, KeeperLoad

LEMMA KeeperOperator ==
  ASSUME FaultKinds \subseteq {"refusal"}, KeeperInv, ApartInv',
         NEW o \in Operators, Operator(o)
  PROVE  KeeperInv'
<1>1. o \in Sessions /\ o \notin Scans /\ o \notin DlqHandlers /\ TypeOK
  BY KindsDisjoint, DeliveryCycleAssumption DEF KeeperInv, ApartInv
<1>2. CASE RequestCommit(o)
  <2>1. PICK v \in Session : v = session[o] /\ InHand(o, v)
    BY <1>1, InHandKept DEF KeeperInv
  <2>2. /\ session' = [session EXCEPT ![o] = Idle] /\ v.pc = "work" /\ v.todo = {} /\ Commit(v)
        /\ UNCHANGED <<place, target>>
    BY <1>1, <1>2, <2>1 DEF RequestCommit, InHand, broker
  <2>3. QED
    BY <1>1, <2>1, <2>2, IdleShape, KeeperCommit
<1>3. ~Rollback(o)
  BY DEF Rollback, Fault
<1>4. QED
  BY <1>2, <1>3, KeeperOpenRequest, KeeperRetryPublish, KeeperDiscardLoad DEF Operator

-----------------------------------------------------------------------------
(* The steps of RabbitMQ and the routing, which move no session.           *)

LEMMA KeeperOutside ==
  ASSUME KeeperInv, ApartInv', HandlersHold', UNCHANGED session,
         \A x \in Deliveries :
           \/ /\ row'[x] = row[x] /\ letters'[x] = letters[x] /\ Lives(x)' \subseteq Lives(x)
              /\ \A c \in Copies : target'[c] = x => target[c] = x
              /\ \A c \in Lives(x) : place[c] = "dlq" => c \in Lives(x)'
           \/ /\ \A t \in Sessions : x \notin session[t].rows
              /\ OneKeeper(row'[x], letters'[x], Lives(x)')
  PROVE  KeeperInv'
<1>1. ASSUME NEW x \in Deliveries
      PROVE  /\ Parked(x)' <=> row'[x].status = "DEAD"
             /\ (\A t \in Sessions : x \notin session[t].rows)
                  => Unrouted(x)' \/ OneKeeper(row'[x], letters'[x], Lives(x)')
  <2>1. CASE /\ row'[x] = row[x] /\ letters'[x] = letters[x] /\ Lives(x)' \subseteq Lives(x)
             /\ \A c \in Copies : target'[c] = x => target[c] = x
    <3>1. Parked(x)' <=> row'[x].status = "DEAD"
      BY <2>1 DEF KeeperInv, OpenLettersAreDead, Parked, OpenLetters
    <3>2. Unrouted(x) => Unrouted(x)'
      BY <2>1 DEF Unrouted
    <3>3. OneKeeper(row[x], letters[x], Lives(x)) => OneKeeper(row'[x], letters'[x], Lives(x)')
      BY <2>1, FewerCopies
    <3>4. QED
      BY <3>1, <3>2, <3>3 DEF KeeperInv, AtRest
  <2>2. CASE OneKeeper(row'[x], letters'[x], Lives(x)')
    <3>1. row'[x].status = "DEAD" <=> \E i \in DOMAIN letters'[x] : letters'[x][i] = "OPEN"
      BY <2>2, KeeperSays
    <3>2. QED
      BY <2>2, <3>1 DEF Parked, OpenLetters
  <2>3. QED
    BY <2>1, <2>2
<1>2. ASSUME NEW t \in Sessions, NEW x \in session[t].rows
      PROVE  Ready(t, session[t], x)'
  <2>1. PICK w \in Session : w = session[t] /\ Ready(t, w, x) /\ InHand(t, w)
    BY InHandKept DEF KeeperInv
  <2>2. x \in Deliveries
    BY <2>1 DEF Session
  <2>3. /\ row'[x] = row[x] /\ letters'[x] = letters[x] /\ Lives(x)' \subseteq Lives(x)
        /\ \A c \in Lives(x) : place[c] = "dlq" => c \in Lives(x)'
    BY <2>2
  <2>4. t \in DlqHandlers => place[w.copy] = "dlq"
    BY <2>1 DEF KeeperInv, HandlersHold, InHand
  <2>5. Ready(t, w, x)'
    BY <2>1, <2>3, <2>4, ReadyKept
  <2>6. FlushLetters(x, session[t])' = FlushLetters(x, w)' /\ session'[t] = w
    BY <2>1 DEF FlushLetters
  <2>7. QED
    BY <2>5, <2>6 DEF Ready
<1>3. QED
  BY <1>1, <1>2 DEF KeeperInv, OpenLettersAreDead, AtRest

\* A copy leaves RabbitMQ, or moves, out of the hands of the handlers.
LEMMA KeeperMove ==
  ASSUME KeeperInv, ApartInv', UNCHANGED <<row, letters, session>>,
         \A c \in Copies : /\ place[c] = "dlq" => place'[c] = "dlq" /\ target'[c] = target[c]
                           /\ place[c] = "free" => place'[c] = "free"
                           /\ target'[c] \in {target[c], NoDelivery}
  PROVE  KeeperInv'
<1>1. \A c : Spent(c)' <=> Spent(c)
  BY DEF Spent
<1>2. HandlersHold'
  BY DEF KeeperInv, HandlersHold
<1>3. ASSUME NEW x \in Deliveries
      PROVE  /\ Lives(x)' \subseteq Lives(x)
             /\ \A c \in Copies : target'[c] = x => target[c] = x
             /\ \A c \in Lives(x) : place[c] = "dlq" => c \in Lives(x)'
  BY <1>1, DeliveryCycleAssumption DEF Lives, Live
<1>4. \A x \in Deliveries : row'[x] = row[x] /\ letters'[x] = letters[x]
  OBVIOUS
<1>5. QED
  BY <1>2, <1>3, <1>4, KeeperOutside

LEMMA KeeperRabbitMQ ==
  ASSUME FaultKinds \subseteq {"refusal"}, KeeperInv, ApartInv', RabbitMQ
  PROVE  KeeperInv'
<1>1. TypeOK
  BY DEF KeeperInv, ApartInv
<1>2. ASSUME NEW c \in Copies, ConsumerAck(c)
      PROVE  KeeperInv'
  <2>1. UNCHANGED <<row, letters, session>>
    BY <1>2 DEF ConsumerAck, database
  <2>2. \A k \in Copies : /\ place[k] = "dlq" => place'[k] = "dlq" /\ target'[k] = target[k]
                          /\ place[k] = "free" => place'[k] = "free"
                          /\ target'[k] \in {target[k], NoDelivery}
    BY <1>1, <1>2 DEF ConsumerAck, TypeOK, BrokerTyped
  <2>3. QED
    BY <2>1, <2>2, KeeperMove
<1>3. ASSUME NEW c \in Copies, NEW from \in {"queue", "waiting"}, NEW to \in Places, Move(c, from, to)
      PROVE  KeeperInv'
  <2>1. UNCHANGED <<row, letters, session>>
    BY <1>3 DEF Move, database
  <2>2. \A k \in Copies : /\ place[k] = "dlq" => place'[k] = "dlq" /\ target'[k] = target[k]
                          /\ place[k] = "free" => place'[k] = "free"
                          /\ target'[k] \in {target[k], NoDelivery}
    BY <1>1, <1>3 DEF Move, TypeOK, BrokerTyped
  <2>3. QED
    BY <2>1, <2>2, KeeperMove
<1>4. ASSUME NEW c \in Copies, ConsumerNack(c) \/ TtlExpire(c)
      PROVE  KeeperInv'
  BY <1>3, <1>4 DEF ConsumerNack, TtlExpire, Places
<1>5. CASE BrokerUp
  BY <1>5, KeeperMove DEF BrokerUp, database
<1>6. ~BrokerDown
  BY DEF BrokerDown, Fault
<1>7. QED
  BY <1>2, <1>4, <1>5, <1>6 DEF RabbitMQ

LEMMA KeeperRoute ==
  ASSUME FaultKinds \subseteq {"refusal"}, KeeperInv, ApartInv', NEW d \in Deliveries, Route(d)
  PROVE  KeeperInv'
<1>1. TypeOK /\ HandlersHold /\ UNCHANGED <<letters, session>>
  BY DEF KeeperInv, ApartInv, Route
<1>2. \A t \in Sessions : d \notin session[t].rows
  <2>1. row[d].status = "NONE"
    BY DEF Route, NoRow
  <2>2. QED
    BY <2>1 DEF KeeperInv, Ready
<1>3. letters[d] = <<>> /\ \A c \in Copies : target[c] # d
  <2>1. ~OneKeeper(row[d], letters[d], Lives(d))
    BY KeeperSays DEF Route, NoRow
  <2>2. QED
    BY <1>2, <2>1 DEF KeeperInv, AtRest, Unrouted
<1>4. Lives(d) = {} /\ \A i \in DOMAIN letters'[d] : letters'[d][i] # "OPEN"
  BY <1>1, <1>3 DEF Lives, Live
<1>5. PICK published \in BOOLEAN :
        Publish(d, "queue", published) /\ row' = [row EXCEPT ![d] = first_attempt(published)]
  BY DEF Route
<1>6. PICK r : r = row'[d]
  OBVIOUS
<1>7. /\ r.status = IF published THEN "DELIVERED" ELSE "RETRYING"
      /\ \A x \in Deliveries : x # d => row'[x] = row[x]
  BY <1>1, <1>5, <1>6 DEF first_attempt, TypeOK, DatabaseTyped
<1>8. CASE published /\ PutCopy(d, "queue")
  <2>1. PICK n \in Copies :
          /\ n \notin Lives(d) /\ Lives(d)' = Lives(d) \cup {n}
          /\ \A x \in Deliveries : x # d => Lives(x)' = Lives(x)
          /\ place[n] = "free"
          /\ \A c \in Copies : c # n => place'[c] = place[c] /\ target'[c] = target[c]
          /\ target'[n] = d
    BY <1>1, <1>8, LivesPut
  <2>2. OneKeeper(r, letters'[d], Lives(d)')
    <3>1. \A c, x \in Lives(d)' : c = x
      BY <1>4, <2>1
    <3>2. r.status \notin {"NONE", "DEAD", "RETRYING"}
      BY <1>7, <1>8
    <3>3. QED
      BY <1>4, <3>1, <3>2, KeptByCopy
  <2>3. HandlersHold'
    BY <1>1, <2>1 DEF HandlersHold
  <2>4. \A x \in Deliveries : x # d =>
          /\ row'[x] = row[x] /\ letters'[x] = letters[x] /\ Lives(x)' \subseteq Lives(x)
          /\ \A c \in Copies : target'[c] = x => target[c] = x
          /\ \A c \in Lives(x) : place[c] = "dlq" => c \in Lives(x)'
    BY <1>1, <1>7, <2>1
  <2>5. QED
    BY <1>1, <1>2, <1>6, <2>2, <2>3, <2>4, KeeperOutside
<1>9. CASE ~published /\ UNCHANGED <<place, target>>
  <2>1. \A c : Spent(c)' <=> Spent(c)
    BY <1>1 DEF Spent
  <2>2. \A x \in Deliveries : Lives(x)' = Lives(x)
    BY <1>9, <2>1 DEF Lives, Live
  <2>3. OneKeeper(r, letters'[d], Lives(d)')
    <3>1. Lives(d)' = {} /\ r.status \notin {"NONE", "DEAD"}
      BY <1>4, <1>7, <1>9, <2>2
    <3>2. QED
      BY <1>4, <3>1, KeptByCopy
  <2>4. HandlersHold'
    BY <1>1, <1>9 DEF HandlersHold
  <2>5. \A x \in Deliveries : x # d =>
          /\ row'[x] = row[x] /\ letters'[x] = letters[x] /\ Lives(x)' \subseteq Lives(x)
          /\ \A c \in Copies : target'[c] = x => target[c] = x
          /\ \A c \in Lives(x) : place[c] = "dlq" => c \in Lives(x)'
    BY <1>1, <1>7, <1>9, <2>2
  <2>6. QED
    BY <1>1, <1>2, <1>6, <2>3, <2>4, <2>5, KeeperOutside
<1>10. QED
  BY <1>5, <1>8, <1>9 DEF Publish, Fault

-----------------------------------------------------------------------------
LEMMA StepKeeper ==
  ASSUME FaultKinds \subseteq {"refusal"}, KeeperInv, RowsApart', [Next]_vars
  PROVE  KeeperInv'
<1>1. ApartInv'
  BY StepApart DEF KeeperInv
<1>2. CASE UNCHANGED vars
  BY <1>1, <1>2, KeeperMove DEF vars, database, broker
<1>3. QED
  BY <1>1, <1>2, KeeperRoute, KeeperRabbitMQ, KeeperHandler, KeeperScan, KeeperOperator DEF Next

LEMMA InitKeeper == Init => KeeperInv
<1> SUFFICES ASSUME Init PROVE KeeperInv
  OBVIOUS
<1>1. \A s \in Sessions : session[s] = Idle
  BY DEF Init
<1>2. HandlersHold
  BY <1>1, IdleShape, KindsDisjoint DEF HandlersHold
<1>3. \A d \in Deliveries : Unrouted(d)
  BY <1>1, IdleShape, DeliveryCycleAssumption DEF Init, Unrouted
<1>4. \A d \in Deliveries : OpenLetters(d) = {} /\ row[d].status # "DEAD"
  BY DEF Init, OpenLetters, NoRow
<1>5. QED
  BY <1>1, <1>2, <1>3, <1>4, InitApart, IdleShape DEF KeeperInv, AtRest, OpenLettersAreDead, Parked

\* What the invariant says of a delivery no session works on.
LEMMA KeeperIsOne ==
  ASSUME KeeperInv
  PROVE  OneCustodian
<1> SUFFICES ASSUME NEW d \in Deliveries, \A s \in Sessions : d \notin session[s].rows
             PROVE  Custodians(d) <= 1
  BY DEF OneCustodian
<1>1. PICK C : C = {c \in Copies : target[c] = d /\ ~Held(c)}
  OBVIOUS
<1>2. C \subseteq Lives(d)
  BY <1>1, DeliveryCycleAssumption DEF Lives, Live, Spent, Held, KeeperInv, ApartInv, TypeOK, BrokerTyped
<1>3. CASE Unrouted(d)
  <2>1. C = {} /\ OpenLetters(d) = {} /\ ~Due(d)
    BY <1>1, <1>3 DEF Unrouted, OpenLetters, Due, NoRow
  <2>2. QED
    BY <1>1, <2>1, FS_EmptySet DEF Custodians
<1>4. CASE OneKeeper(row[d], letters[d], Lives(d))
  <2>1. /\ \A c, x \in Lives(d) : c = x
        /\ \A i, j \in OpenLetters(d) : i = j
        /\ row[d].status = "DEAD" <=> OpenLetters(d) # {}
        /\ row[d].status = "DEAD" \/ Due(d) => Lives(d) = {}
    BY <1>4, KeeperSays DEF OpenLetters, Due
  <2>2. Due(d) => row[d].status # "DEAD"
    BY DEF Due
  <2>3. ASSUME NEW S, \A x, y \in S : x = y
        PROVE  Cardinality(S) = IF S = {} THEN 0 ELSE 1
    <3>1. CASE S = {}
      BY <3>1, FS_EmptySet
    <3>2. CASE S # {}
      <4>1. PICK x : S = {x}
        BY <2>3, <3>2
      <4>2. QED
        BY <4>1, FS_Singleton
    <3>3. QED
      BY <3>1, <3>2
  <2>4. \A c, x \in C : c = x
    BY <1>2, <2>1
  <2>5. /\ Cardinality(C) = IF C = {} THEN 0 ELSE 1
        /\ Cardinality(OpenLetters(d)) = IF OpenLetters(d) = {} THEN 0 ELSE 1
    BY <2>1, <2>3, <2>4
  <2>6. Custodians(d) = Cardinality(C) + (IF Due(d) THEN 1 ELSE 0) + Cardinality(OpenLetters(d))
    BY <1>1 DEF Custodians
  <2>7. /\ C # {} => ~Due(d) /\ OpenLetters(d) = {}
        /\ Due(d) => C = {} /\ OpenLetters(d) = {}
    BY <1>2, <2>1, <2>2
  <2>8. QED
    BY <2>5, <2>6, <2>7
<1>5. QED
  BY <1>3, <1>4 DEF KeeperInv, AtRest

\* While sessions do not overlap on a delivery and the broker may refuse any
\* publish, one copy, due row or open letter at most answers for a delivery no
\* session works on: a delivery is not retried by RabbitMQ and by the scheduler.
THEOREM OneCustodianAlways ==
  ASSUME FaultKinds \subseteq {"refusal"}
  PROVE  Spec /\ []RowsApart => []OneCustodian
<1>1. KeeperInv /\ RowsApart' /\ [Next]_vars => KeeperInv'
  BY StepKeeper
<1>2. KeeperInv => OneCustodian
  BY KeeperIsOne
<1>3. QED
  BY <1>1, <1>2, InitKeeper, PTL DEF Spec

\* Under the same assumptions the open dead letters are those of the DEAD
\* deliveries: no letter is left behind, none is missing.
THEOREM LettersStayDead ==
  ASSUME FaultKinds \subseteq {"refusal"}
  PROVE  Spec /\ []RowsApart => []OpenLettersAreDead
<1>1. KeeperInv /\ RowsApart' /\ [Next]_vars => KeeperInv'
  BY StepKeeper
<1>2. KeeperInv => OpenLettersAreDead
  BY DEF KeeperInv
<1>3. QED
  BY <1>1, <1>2, InitKeeper, PTL DEF Spec

-----------------------------------------------------------------------------
(* Who will answer for a delivery once the sessions at work have           *)
(* committed, while none overlap on it and anything may fail.              *)

LEMMA AnsweredSays ==
  ASSUME NEW d
  PROVE  /\ InCustody(d) \/ dropped[d] <=> Over(d) \/ Answered(row[d], letters[d], Lives(d))
         /\ (InCustody(d) \/ dropped[d] <=> Over(d) \/ Answered(row[d], letters[d], Lives(d)))'
BY DEF InCustody, Over, Answered, Due, Parked, OpenLetters, Discarded, Lives

\* Who answers goes on answering with more copies.
LEMMA MoreCopies ==
  ASSUME NEW r, NEW states, NEW C, NEW D, C \subseteq D, Answered(r, states, C)
  PROVE  Answered(r, states, D)
BY DEF Answered

\* The copies that exist stay, and no other handler commits.
LEMMA LivesKept ==
  ASSUME NEW x, \A c \in Copies : place[c] # "free" => place'[c] # "free" /\ target'[c] = target[c],
         \A c \in Copies : Spent(c)' => Spent(c)
  PROVE  Lives(x) \subseteq Lives(x)'
BY DEF Lives, Live

LEMMA AnswerKept ==
  ASSUME NEW s, NEW w, NEW x, Answerable(s, w, x),
         row'[x] = row[x], letters'[x] = letters[x],
         Over(x)' \/ (~Over(x) /\ Lives(x) \subseteq Lives(x)')
  PROVE  Answerable(s, w, x)'
<1>1. FlushLetters(x, w)' = FlushLetters(x, w) /\ (s \in Scans => Due(x)' = Due(x))
  BY DEF FlushLetters, Due
<1>2. CASE w.pc = "work" /\ x \notin w.todo /\ ~Over(x)'
  <2>1. Answered(Flush(row[x], w.change[x]), FlushLetters(x, w), Lives(x) \ {w.copy})
    BY <1>2 DEF Answerable
  <2>2. Lives(x) \ {w.copy} \subseteq Lives(x)' \ {w.copy}
    BY <1>2
  <2>3. Answered(Flush(row[x], w.change[x]), FlushLetters(x, w), Lives(x)' \ {w.copy})
    BY <2>1, <2>2, MoreCopies
  <2>4. QED
    BY <1>1, <1>2, <2>3 DEF Answerable
<1>3. CASE ~(w.pc = "work" /\ x \notin w.todo)
  BY <1>1, <1>3 DEF Answerable
<1>4. CASE w.pc = "work" /\ x \notin w.todo /\ Over(x)'
  BY <1>4 DEF Answerable
<1>5. QED
  BY <1>2, <1>3, <1>4

LEMMA AnswerKnown ==
  ASSUME AnswerInv, NEW s \in Sessions
  PROVE  \E v \in Session :
           /\ v = session[s] /\ InHand(s, v) /\ InOrder(s, v)
           /\ \A d \in v.rows : d \in Deliveries /\ row[d].status # "NONE" /\ Answerable(s, v, d)
<1>1. PICK v \in Session : /\ v = session[s] /\ InOrder(s, v)
                           /\ \A d \in v.rows : d \in Deliveries /\ row[d].status # "NONE"
  BY OrderKnown DEF AnswerInv
<1>2. QED
  BY <1>1 DEF AnswerInv, ApartInv

\* A step of one session: it may write its rows and take away their copies.
LEMMA AnswerStep ==
  ASSUME AnswerInv, OrderInv', ApartInv',
         NEW s \in Sessions, NEW v \in Session, v = session[s],
         NEW u \in Session, session' = [session EXCEPT ![s] = u],
         \A x \in Deliveries : Over(x) => Over(x)',
         \A x \in Deliveries : x \notin v.rows =>
           row'[x] = row[x] /\ letters'[x] = letters[x] /\ Lives(x) \subseteq Lives(x)',
         \A x \in v.rows : Over(x)' \/ Answered(row'[x], letters'[x], Lives(x)'),
         \A x \in u.rows : Answerable(s, u, x)'
  PROVE  AnswerInv'
<1>1. session'[s] = u /\ \A t \in Sessions : t # s => session'[t] = session[t]
  BY DEF AnswerInv, OrderInv, TypeOK, SessionsTyped
<1>2. \A t \in Sessions : t # s => session[t].rows \cap v.rows = {}
  BY DEF AnswerInv, ApartInv, RowsApart
<1>3. ASSUME NEW x \in Deliveries, row'[x] # NoRow
      PROVE  Over(x)' \/ Answered(row'[x], letters'[x], Lives(x)')
  <2>1. CASE x \in v.rows
    BY <2>1
  <2>2. CASE x \notin v.rows
    <3>1. row'[x] = row[x] /\ letters'[x] = letters[x] /\ Lives(x) \subseteq Lives(x)'
      BY <2>2
    <3>2. Over(x) \/ Answered(row[x], letters[x], Lives(x))
      BY <1>3, <3>1, AnsweredSays DEF AnswerInv, NeverForgotten
    <3>3. QED
      BY <3>1, <3>2, MoreCopies
  <2>3. QED
    BY <2>1, <2>2
<1>4. NeverForgotten'
  BY <1>3, AnsweredSays DEF NeverForgotten
<1>5. ASSUME NEW t \in Sessions, NEW x \in session'[t].rows
      PROVE  Answerable(t, session[t], x)'
  <2>1. CASE t = s
    <3>1. Answerable(s, u, x)'
      BY <1>1, <1>5, <2>1
    <3>2. QED
      BY <1>1, <2>1, <3>1 DEF Answerable, FlushLetters
  <2>2. CASE t # s
    <3>1. PICK w \in Session : /\ w = session[t]
                               /\ \A d \in w.rows : d \in Deliveries /\ Answerable(t, w, d)
      BY AnswerKnown
    <3>2. session'[t] = w /\ x \in Deliveries /\ x \notin v.rows /\ Answerable(t, w, x)
      BY <1>1, <1>2, <1>5, <2>2, <3>1
    <3>3. /\ row'[x] = row[x] /\ letters'[x] = letters[x] /\ Lives(x) \subseteq Lives(x)'
          /\ Over(x) => Over(x)'
      BY <3>2
    <3>4. Answerable(t, w, x)'
      BY <3>2, <3>3, AnswerKept
    <3>5. FlushLetters(x, session[t])' = FlushLetters(x, w)'
      BY <3>2 DEF FlushLetters
    <3>6. QED
      BY <3>2, <3>4, <3>5 DEF Answerable
  <2>3. QED
    BY <2>1, <2>2
<1>6. QED
  BY <1>4, <1>5 DEF AnswerInv

\* A session that leaves its rows as they are and as much in RabbitMQ.
LEMMA AnswerSame ==
  ASSUME AnswerInv, OrderInv', ApartInv',
         NEW s \in Sessions, NEW v \in Session, v = session[s],
         NEW u \in Session, session' = [session EXCEPT ![s] = u],
         UNCHANGED <<row, letters, consumed, dropped>>,
         \A x \in Deliveries : Lives(x) \subseteq Lives(x)',
         \A x \in u.rows : Answerable(s, u, x)'
  PROVE  AnswerInv'
<1>1. ASSUME NEW x \in v.rows
      PROVE  Over(x)' \/ Answered(row'[x], letters'[x], Lives(x)')
  <2>1. x \in Deliveries /\ row[x] # NoRow
    BY AnswerKnown DEF NoRow
  <2>2. Over(x) \/ Answered(row[x], letters[x], Lives(x))
    BY <2>1, AnsweredSays DEF AnswerInv, NeverForgotten
  <2>3. QED
    BY <2>1, <2>2, MoreCopies DEF Over
<1>2. \A x \in Deliveries : Over(x) => Over(x)'
  BY DEF Over
<1>3. QED
  BY <1>1, <1>2, AnswerStep

\* A session loads, or drops what it had in hand.
LEMMA AnswerLoad ==
  ASSUME AnswerInv, OrderInv', ApartInv', NEW s \in Sessions,
         NEW u \in Session, session' = [session EXCEPT ![s] = u], u.pc # "ack",
         UNCHANGED <<row, letters, place, target, consumed, dropped>>,
         \A x \in u.rows : Answerable(s, u, x) \/ Answerable(s, u, x)'
  PROVE  AnswerInv'
<1>1. session'[s] = u /\ \A t \in Sessions : t # s => session'[t] = session[t]
  BY DEF AnswerInv, OrderInv, TypeOK, SessionsTyped
<1>2. \A c \in Copies : Spent(c)' => Spent(c)
  BY <1>1, KindsDisjoint DEF Spent
<1>3. \A x \in Deliveries : Lives(x) \subseteq Lives(x)'
  BY <1>2, LivesKept
<1>4. ASSUME NEW x \in u.rows
      PROVE  Answerable(s, u, x)'
  <2>1. x \in Deliveries /\ (Over(x)' <=> Over(x)) /\ Lives(x) \subseteq Lives(x)'
    BY <1>3 DEF Session, Over
  <2>2. QED
    BY <2>1, AnswerKept
<1>5. PICK v \in Session : v = session[s]
  BY AnswerKnown
<1>6. QED
  BY <1>3, <1>4, <1>5, AnswerSame

LEMMA AnswerRelease ==
  ASSUME AnswerInv, OrderInv', ApartInv', NEW s \in Sessions, session' = [session EXCEPT ![s] = Idle],
         UNCHANGED <<row, letters, place, target, consumed, dropped>>
  PROVE  AnswerInv'
BY IdleShape, AnswerLoad

\* A publish adds a copy, or what the session writes instead of it answers.
LEMMA AnswerPublish ==
  ASSUME AnswerInv, OrderInv', ApartInv', NEW s \in Sessions, NEW v \in Session, v = session[s],
         NEW u \in Session, session' = [session EXCEPT ![s] = u],
         NEW d \in v.rows, NEW where \in {"queue", "waiting"}, NEW ok \in BOOLEAN,
         Publish(d, where, ok), UNCHANGED <<row, letters, consumed, dropped>>,
         u.pc = "work", s \in Scans => v.pc = "work",
         u.rows = v.rows, u.copy = v.copy, u.letter = v.letter,
         d \notin u.todo, \A x \in v.rows : x # d => (x \in u.todo <=> x \in v.todo),
         \A x \in v.rows : x # d => u.change[x] = v.change[x],
         s \notin Operators => u.resolve = v.resolve,
         ~ok => \A C : Answered(Flush(row[d], u.change[d]), FlushLetters(d, u), C)
  PROVE  AnswerInv'
<1>1. session'[s] = u /\ \A t \in Sessions : t # s => session'[t] = session[t]
  BY DEF AnswerInv, OrderInv, TypeOK, SessionsTyped
<1>2. /\ InHand(s, v) /\ \A x \in v.rows : x \in Deliveries /\ Answerable(s, v, x)
      /\ TypeOK /\ \A t \in Sessions : session[t].copy \in Copies => place[session[t].copy] = "dlq"
  BY AnswerKnown DEF AnswerInv, OrderInv, UnitsInOrder, InOrder
<1>3. \A c \in Copies : Spent(c)' => Spent(c)
  BY <1>1, KindsDisjoint DEF Spent
<1>4. \A c \in Copies : place[c] # "free" => place'[c] # "free" /\ target'[c] = target[c]
  BY <1>2 DEF Publish, PutCopy, TypeOK, BrokerTyped
<1>5. \A x \in Deliveries : Lives(x) \subseteq Lives(x)'
  BY <1>3, <1>4, LivesKept
<1>6. ASSUME NEW x \in u.rows, x # d
      PROVE  Answerable(s, u, x)'
  <2>1. s \in Scans /\ s \notin Operators /\ x \in Deliveries
    BY <1>2, <1>6, KindsDisjoint DEF InHand
  <2>2. FlushLetters(x, u) = FlushLetters(x, v)
    BY <1>6, <2>1 DEF FlushLetters
  <2>3. /\ u.change[x] = v.change[x] /\ u.copy = v.copy /\ u.pc = v.pc
        /\ x \in u.todo <=> x \in v.todo
    BY <1>6, <2>1
  <2>4. Answerable(s, v, x)
    BY <1>2, <1>6
  <2>5. Answerable(s, u, x)
    BY <2>2, <2>3, <2>4 DEF Answerable
  <2>6. (Over(x)' <=> Over(x)) /\ Lives(x) \subseteq Lives(x)'
    BY <1>5, <2>1 DEF Over
  <2>7. QED
    BY <2>5, <2>6, AnswerKept
<1>7. Answerable(s, u, d)'
  <2>1. Answered(Flush(row[d], u.change[d]), FlushLetters(d, u), Lives(d)' \ {u.copy})
    <3>1. CASE ok
      <4>1. PICK n \in Copies : /\ place[n] = "free" /\ place' = [place EXCEPT ![n] = where]
                                /\ target' = [target EXCEPT ![n] = d]
        BY <3>1 DEF Publish, PutCopy
      <4>2. place'[n] # "free" /\ target'[n] = d /\ n # u.copy /\ ~Spent(n)
        BY <1>1, <1>2, <4>1, KindsDisjoint DEF TypeOK, BrokerTyped, Spent
      <4>3. n \in Lives(d)' \ {u.copy}
        BY <1>3, <4>2 DEF Lives, Live
      <4>4. QED
        BY <4>3 DEF Answered
    <3>2. QED
      BY <3>1
  <2>2. FlushLetters(d, u)' = FlushLetters(d, u)
    BY DEF FlushLetters
  <2>3. QED
    BY <2>1, <2>2 DEF Answerable
<1>8. QED
  BY <1>5, <1>6, <1>7, AnswerSame

\* A commit leaves what was answerable; the copy of a handler is spent by it.
LEMMA AnswerCommit ==
  ASSUME AnswerInv, OrderInv', ApartInv', NEW s \in Sessions, NEW v \in Session, v = session[s],
         v.pc = "work", v.todo = {}, Commit(v),
         UNCHANGED <<place, target, consumed, dropped>>,
         NEW u \in Session, session' = [session EXCEPT ![s] = u], u.rows = {},
         u.copy \in Copies => u.copy = v.copy
  PROVE  AnswerInv'
<1>1. session'[s] = u /\ \A t \in Sessions : t # s => session'[t] = session[t]
  BY DEF AnswerInv, OrderInv, TypeOK, SessionsTyped
<1>2. /\ InOrder(s, v)
      /\ \A x \in v.rows : x \in Deliveries /\ Answerable(s, v, x)
  BY AnswerKnown
<1>3. \A c \in Copies : Spent(c)' => Spent(c) \/ c = v.copy
  BY <1>1, KindsDisjoint DEF Spent
<1>4. ASSUME NEW x \in Deliveries
      PROVE  /\ Lives(x) \ {v.copy} \subseteq Lives(x)'
             /\ x \notin v.rows => Lives(x) \subseteq Lives(x)'
  <2>1. Lives(x) \ {v.copy} \subseteq Lives(x)'
    BY <1>3 DEF Lives, Live
  <2>2. v.copy \in Lives(x) => x \in v.rows
    BY <1>2 DEF InOrder, Lives, Live
  <2>3. QED
    BY <2>1, <2>2
<1>5. ASSUME NEW x \in v.rows
      PROVE  Over(x)' \/ Answered(row'[x], letters'[x], Lives(x)')
  <2>1. Over(x) \/ Answered(Flush(row[x], v.change[x]), FlushLetters(x, v), Lives(x) \ {v.copy})
    BY <1>2 DEF Answerable
  <2>2. row'[x] = Flush(row[x], v.change[x]) /\ letters'[x] = FlushLetters(x, v)
    BY <1>2, CommitFrame
  <2>3. Lives(x) \ {v.copy} \subseteq Lives(x)' /\ (Over(x)' <=> Over(x))
    BY <1>2, <1>4 DEF Over
  <2>4. QED
    BY <2>1, <2>2, <2>3, MoreCopies
<1>6. \A x \in Deliveries : Over(x) => Over(x)'
  BY DEF Over
<1>7. \A x \in Deliveries : x \notin v.rows =>
        row'[x] = row[x] /\ letters'[x] = letters[x] /\ Lives(x) \subseteq Lives(x)'
  BY <1>4, CommitFrame
<1>8. \A x \in u.rows : Answerable(s, u, x)'
  OBVIOUS
<1>9. QED
  BY <1>5, <1>6, <1>7, <1>8, AnswerStep

\* A handler takes its copy out of q.dlq: the copy is spent, or its delivery is
\* dropped with it.
LEMMA AnswerTakeOut ==
  ASSUME AnswerInv, OrderInv', ApartInv', NEW h \in DlqHandlers, TakeOut(h),
         session' = [session EXCEPT ![h] = Idle], UNCHANGED <<row, letters, consumed>>,
         \A x \in Deliveries : dropped[x] => dropped'[x],
         session[h].copy \in Copies =>
           session[h].pc = "ack" \/ (/\ session[h].pc \in {"retry", "work"}
                                     /\ \A x \in session[h].rows : dropped'[x])
  PROVE  AnswerInv'
<1>1. h \in Sessions
  BY KindsDisjoint
<1>2. PICK v \in Session : /\ v = session[h] /\ InOrder(h, v)
                           /\ \A x \in v.rows : x \in Deliveries /\ row[x].status # "NONE"
  BY <1>1, AnswerKnown
<1>3. session'[h] = Idle /\ \A t \in Sessions : t # h => session'[t] = session[t]
  BY <1>1 DEF AnswerInv, OrderInv, TypeOK, SessionsTyped
<1>4. \A c \in Copies : c # v.copy => place'[c] = place[c] /\ target'[c] = target[c]
  BY <1>2 DEF TakeOut
<1>5. \A c \in Copies : Spent(c)' => Spent(c)
  BY <1>3, IdleShape, KindsDisjoint DEF Spent
<1>6. \A x \in Deliveries : Lives(x) \ {v.copy} \subseteq Lives(x)'
  BY <1>4, <1>5 DEF Lives, Live
<1>7. \A x \in Deliveries : v.copy \in Lives(x) => x \in v.rows /\ dropped'[x]
  BY <1>2 DEF InOrder, Lives, Live, Spent
<1>8. \A x \in Deliveries : Over(x) => Over(x)'
  BY DEF Over
<1>9. ASSUME NEW x \in v.rows
      PROVE  Over(x)' \/ Answered(row'[x], letters'[x], Lives(x)')
  <2>1. x \in Deliveries /\ row[x] # NoRow
    BY <1>2 DEF NoRow
  <2>2. Over(x) \/ Answered(row[x], letters[x], Lives(x))
    BY <2>1, AnsweredSays DEF AnswerInv, NeverForgotten
  <2>3. Over(x)' \/ Lives(x) \subseteq Lives(x)'
    BY <1>6, <1>7, <2>1 DEF Over
  <2>4. QED
    BY <1>8, <2>1, <2>2, <2>3, MoreCopies
<1>10. \A x \in Deliveries : x \notin v.rows =>
         row'[x] = row[x] /\ letters'[x] = letters[x] /\ Lives(x) \subseteq Lives(x)'
  BY <1>6, <1>7
<1>11. PICK u : u = Idle
  OBVIOUS
<1>12. u \in Session /\ u.rows = {} /\ session' = [session EXCEPT ![h] = u]
  BY <1>11, IdleShape
<1>13. QED
  BY <1>1, <1>2, <1>8, <1>9, <1>10, <1>12, AnswerStep

\* Who answers, whatever becomes of the copies: a letter that the commit opens,
\* or the scheduler.
LEMMA OpenedAnswers ==
  ASSUME TypeOK, NEW d \in Deliveries, NEW u \in Session, u.change[d].opens, NEW r, NEW C
  PROVE  Answered(r, FlushLetters(d, u), C)
<1>1. \E n \in DOMAIN FlushLetters(d, u) : FlushLetters(d, u)[n] = "OPEN"
  BY LettersFlushed DEF TypeOK
<1>2. QED
  BY <1>1 DEF Answered

LEMMA DueAnswers ==
  ASSUME TypeOK, NEW d \in Deliveries, NEW u \in Session, u.change[d].seen = row[d],
         u.change[d].new.status = "RETRYING", u.change[d].new.next, NEW states, NEW C
  PROVE  Answered(Flush(row[d], u.change[d]), states, C)
<1>1. PICK r \in Row, ch \in Change : r = row[d] /\ ch = u.change[d]
  BY DEF TypeOK, DatabaseTyped, Session
<1>2. Flush(r, ch).status = "RETRYING" /\ Flush(r, ch).next
  BY <1>1, FlushSeen
<1>3. QED
  BY <1>1, <1>2 DEF Answered

LEMMA AnswerHandler ==
  ASSUME AnswerInv, OrderInv', ApartInv', NEW h \in DlqHandlers, Handler(h)
  PROVE  AnswerInv'
<1>0. h \in Sessions /\ h \notin Operators /\ h \notin Scans /\ TypeOK
  BY KindsDisjoint, DeliveryCycleAssumption DEF AnswerInv, OrderInv
<1>1. ASSUME NEW c \in Copies, HandleDlqMessage(h, c)
      PROVE  AnswerInv'
  <2>1. UNCHANGED <<row, letters, place, target, consumed, dropped>>
    BY <1>1 DEF HandleDlqMessage, database, broker
  <2>2. PICK d \in Deliveries : d = target[c]
    BY <1>0, <1>1, TakeInShape
  <2>3. PICK exhausted \in BOOLEAN : exhausted <=> attempts_exhausted(row[d].attempts)
    OBVIOUS
  <2>4. PICK u \in Session :
          /\ session' = [session EXCEPT ![h] = u]
          /\ u.pc = IF exhausted THEN "work" ELSE "retry"
          /\ u.rows = {d}
          /\ u.change[d] = IF exhausted THEN exhaust(row[d], row[d].attempts) ELSE Loaded(row[d])
    BY <1>0, <1>1, <2>2, <2>3, TakeInShape
  <2>5. Answerable(h, u, d)
    <3>1. CASE exhausted
      <4>1. u.change[d].opens /\ u.change[d].seen = row[d]
        BY <2>4, <3>1, ExhaustFields
      <4>2. Answered(Flush(row[d], u.change[d]), FlushLetters(d, u), Lives(d) \ {u.copy})
        BY <1>0, <4>1, OpenedAnswers
      <4>3. QED
        BY <1>0, <4>1, <4>2 DEF Answerable
    <3>2. CASE ~exhausted
      BY <1>0, <2>4, <3>2, LoadedFields DEF Answerable
    <3>3. QED
      BY <3>1, <3>2
  <2>6. u.pc # "ack" /\ \A x \in u.rows : Answerable(h, u, x)
    BY <2>4, <2>5
  <2>7. QED
    BY <1>0, <2>1, <2>4, <2>6, AnswerLoad
<1>2. ASSUME NEW d \in Deliveries, ScheduleRetry(h, d)
      PROVE  AnswerInv'
  <2>1. UNCHANGED <<row, letters, consumed, dropped>>
    BY <1>2 DEF ScheduleRetry, database
  <2>2. PICK v \in Session : /\ v = session[h] /\ InHand(h, v)
                             /\ \A x \in v.rows : Answerable(h, v, x)
    BY <1>0, AnswerKnown
  <2>3. PICK u \in Session, published \in BOOLEAN :
          /\ Publish(d, "waiting", published) /\ session' = [session EXCEPT ![h] = u]
          /\ v.pc = "retry" /\ d \in v.rows /\ u.pc = "work"
          /\ u.rows = v.rows /\ u.todo = v.todo /\ u.copy = v.copy
          /\ u.letter = v.letter /\ u.resolve = v.resolve
          /\ u.change[d] = schedule_retry(v.change[d].seen, published)
          /\ \A x \in Deliveries : x # d => u.change[x] = v.change[x]
    BY <1>0, <1>2, <2>2, ScheduleRetryShape
  <2>4. v.change[d].seen = row[d]
    BY <2>2, <2>3 DEF Answerable
  <2>5. ASSUME ~published, NEW C
        PROVE  Answered(Flush(row[d], u.change[d]), FlushLetters(d, u), C)
    <3>1. /\ u.change[d].seen = row[d] /\ u.change[d].new.status = "RETRYING"
          /\ u.change[d].new.next
      BY <2>3, <2>4, <2>5, ScheduleFields
    <3>2. QED
      BY <1>0, <3>1, DueAnswers
  <2>6. /\ d \notin u.todo /\ \A x \in v.rows : x # d => (x \in u.todo <=> x \in v.todo)
        /\ \A x \in v.rows : x # d => u.change[x] = v.change[x]
    BY <1>0, <2>2, <2>3 DEF InHand, Session
  <2>7. /\ d \in v.rows /\ "waiting" \in {"queue", "waiting"} /\ (h \in Scans => v.pc = "work")
        /\ (h \notin Operators => u.resolve = v.resolve)
        /\ ~published => \A C : Answered(Flush(row[d], u.change[d]), FlushLetters(d, u), C)
    BY <1>0, <2>3, <2>5
  <2>8. QED
    BY <1>0, <2>1, <2>2, <2>3, <2>6, <2>7, AnswerPublish
<1>3. CASE DlqCommit(h)
  <2>1. UNCHANGED <<place, target, consumed, dropped>>
    BY <1>3 DEF DlqCommit, broker
  <2>2. PICK v \in Session : v = session[h] /\ InHand(h, v)
    BY <1>0, AnswerKnown
  <2>3. PICK u \in Session :
          /\ session' = [session EXCEPT ![h] = u] /\ v.pc = "work" /\ Commit(v)
          /\ u.rows = {} /\ u.copy = v.copy
    BY <1>0, <1>3, <2>2, DlqCommitShape
  <2>4. v.todo = {}
    BY <1>0, <2>2 DEF InHand
  <2>5. QED
    BY <1>0, <2>1, <2>2, <2>3, <2>4, AnswerCommit
<1>4. CASE DlqAck(h)
  <2>1. /\ TakeOut(h) /\ session' = [session EXCEPT ![h] = Idle]
        /\ UNCHANGED <<row, letters, consumed>> /\ \A x \in Deliveries : dropped[x] => dropped'[x]
        /\ session[h].pc = "ack"
    BY <1>4 DEF DlqAck, database
  <2>2. QED
    BY <2>1, AnswerTakeOut
<1>5. CASE DlqFail(h)
  <2>1. /\ TakeOut(h) /\ session' = [session EXCEPT ![h] = Idle]
        /\ UNCHANGED <<row, letters, consumed>> /\ session[h].pc \in {"retry", "work"}
    BY <1>5 DEF DlqFail, database
  <2>2. \A x \in Deliveries :
          dropped'[x] <=> dropped[x] \/ (session[h].copy \in Copies /\ x \in session[h].rows)
    BY <1>5 DEF DlqFail
  <2>3. PICK v \in Session : v = session[h] /\ \A x \in v.rows : x \in Deliveries
    BY <1>0, AnswerKnown
  <2>4. /\ \A x \in Deliveries : dropped[x] => dropped'[x]
        /\ session[h].copy \in Copies => \A x \in session[h].rows : dropped'[x]
    BY <2>2, <2>3
  <2>5. QED
    BY <2>1, <2>4, AnswerTakeOut
<1>6. CASE DlqCrash(h)
  <2>1. /\ session' = [session EXCEPT ![h] = Idle]
        /\ UNCHANGED <<row, letters, place, target, consumed, dropped>>
    BY <1>6 DEF DlqCrash, database, broker
  <2>2. QED
    BY <1>0, <2>1, AnswerRelease
<1>7. QED
  BY <1>1, <1>2, <1>3, <1>4, <1>5, <1>6 DEF Handler

LEMMA AnswerScan ==
  ASSUME AnswerInv, OrderInv', ApartInv', NEW s \in Scans, Scan(s)
  PROVE  AnswerInv'
<1>0. s \in Sessions /\ s \notin Operators /\ s \notin DlqHandlers /\ TypeOK
  BY KindsDisjoint DEF AnswerInv, OrderInv
<1>1. CASE DueRead(s)
  <2>1. UNCHANGED <<row, letters, place, target, consumed, dropped>>
    BY <1>1 DEF DueRead, database, broker
  <2>2. PICK u \in Session :
          /\ session' = [session EXCEPT ![s] = u]
          /\ u.rows \subseteq {d \in Deliveries : Due(d) /\ MayLoad(d)}
          /\ u.pc = "work" /\ u.todo = u.rows
    BY <1>0, <1>1, DueReadShape
  <2>3. u.pc # "ack" /\ \A x \in u.rows : Answerable(s, u, x)
    BY <1>0, <2>2 DEF Answerable
  <2>4. QED
    BY <1>0, <2>1, <2>2, <2>3, AnswerLoad
<1>2. ASSUME NEW d \in Deliveries, DuePublish(s, d)
      PROVE  AnswerInv'
  <2>1. UNCHANGED <<row, letters, consumed, dropped>>
    BY <1>2 DEF DuePublish, database
  <2>2. PICK v \in Session : /\ v = session[s] /\ InHand(s, v)
                             /\ \A x \in v.rows : Answerable(s, v, x)
    BY <1>0, AnswerKnown
  <2>3. PICK u \in Session, published \in BOOLEAN :
          /\ Publish(d, "queue", published) /\ session' = [session EXCEPT ![s] = u]
          /\ v.pc = "work" /\ d \in v.todo /\ u.pc = "work"
          /\ u.rows = v.rows /\ u.todo = v.todo \ {d} /\ u.copy = v.copy
          /\ u.letter = v.letter /\ u.resolve = v.resolve
          /\ u.change[d] = due_attempt(v.change[d].seen, published)
          /\ \A x \in Deliveries : x # d => u.change[x] = v.change[x]
    BY <1>0, <1>2, <2>2, DuePublishShape
  <2>4. d \in v.rows
    BY <2>2, <2>3 DEF InHand
  <2>5. row[d].status = "RETRYING" /\ row[d].next
    BY <1>0, <2>2, <2>3, <2>4 DEF Answerable, Due
  <2>6. ASSUME ~published, NEW C
        PROVE  Answered(Flush(row[d], u.change[d]), FlushLetters(d, u), C)
    <3>1. PICK r \in Row, old \in Row, ch \in Change :
            r = row[d] /\ old = v.change[d].seen /\ ch = u.change[d]
      BY <1>0 DEF TypeOK, DatabaseTyped, Session, Change
    <3>2. CASE ch.opens
      BY <1>0, <3>1, <3>2, OpenedAnswers
    <3>3. CASE ~ch.opens
      <4>1. ch = due_attempt(old, published)
        BY <2>3, <3>1
      <4>2. ~attempts_exhausted(old.attempts + 1)
        BY <2>6, <3>3, <4>1, ExhaustFields DEF due_attempt
      <4>3. ch = Write(old, old.status, old.attempts + 1, TRUE, FALSE, FALSE)
        BY <2>6, <4>1, <4>2 DEF due_attempt
      <4>4. ch.seen = old /\ ch.new.status = old.status /\ ch.new.next
        BY <4>3 DEF Write
      <4>5. Flush(r, ch).status = "RETRYING" /\ Flush(r, ch).next
        BY <2>5, <3>1, <4>4, FlushFields
      <4>6. QED
        BY <3>1, <4>5 DEF Answered
    <3>4. QED
      BY <3>2, <3>3
  <2>7. /\ d \notin u.todo /\ \A x \in v.rows : x # d => (x \in u.todo <=> x \in v.todo)
        /\ \A x \in v.rows : x # d => u.change[x] = v.change[x]
    BY <2>3 DEF Session
  <2>8. /\ "queue" \in {"queue", "waiting"} /\ (s \notin Operators => u.resolve = v.resolve)
        /\ (s \in Scans => v.pc = "work")
        /\ ~published => \A C : Answered(Flush(row[d], u.change[d]), FlushLetters(d, u), C)
    BY <2>3, <2>6
  <2>9. /\ s \in Sessions /\ v = session[s] /\ d \in v.rows /\ u.pc = "work"
        /\ Publish(d, "queue", published) /\ session' = [session EXCEPT ![s] = u]
        /\ u.rows = v.rows /\ u.copy = v.copy /\ u.letter = v.letter
    BY <1>0, <2>2, <2>3, <2>4
  <2>10. QED
    BY <2>1, <2>7, <2>8, <2>9, AnswerPublish
<1>3. CASE DueCommit(s)
  <2>1. PICK v \in Session : v = session[s]
    BY <1>0 DEF TypeOK, SessionsTyped
  <2>2. /\ session' = [session EXCEPT ![s] = Idle] /\ v.pc = "work" /\ v.todo = {} /\ Commit(v)
        /\ UNCHANGED <<place, target, consumed, dropped>>
    BY <1>3, <2>1 DEF DueCommit, broker
  <2>3. QED
    BY <1>0, <2>1, <2>2, IdleShape, AnswerCommit
<1>4. CASE Rollback(s)
  <2>1. /\ session' = [session EXCEPT ![s] = Idle]
        /\ UNCHANGED <<row, letters, place, target, consumed, dropped>>
    BY <1>4 DEF Rollback, database, broker
  <2>2. QED
    BY <1>0, <2>1, AnswerRelease
<1>5. QED
  BY <1>1, <1>2, <1>3, <1>4 DEF Scan

LEMMA AnswerOperator ==
  ASSUME AnswerInv, OrderInv', ApartInv', NEW o \in Operators, Operator(o)
  PROVE  AnswerInv'
<1>0. o \in Sessions /\ o \notin Scans /\ o \notin DlqHandlers /\ TypeOK
  BY KindsDisjoint, DeliveryCycleAssumption DEF AnswerInv, OrderInv
<1>1. ASSUME NEW d \in Deliveries, NEW i \in DOMAIN letters[d], NEW request \in {"retry", "discard"},
             OpenRequest(o, d, i, request)
      PROVE  AnswerInv'
  <2>1. UNCHANGED <<row, letters, place, target, consumed, dropped>>
    BY <1>1 DEF OpenRequest, database, broker
  <2>typed. TypeOK
    BY <1>0
  <2>opened. Opened(o, d, i, request)
    BY <1>1, <2>typed, OpenRequestShape
  <2>2. PICK u \in Session : session' = [session EXCEPT ![o] = u] /\ u.pc = request
    BY <2>opened DEF Opened
  <2>3. u.pc # "ack" /\ \A x \in u.rows : Answerable(o, u, x)
    BY <1>0, <2>2 DEF Answerable
  <2>4. QED
    BY <1>0, <2>1, <2>2, <2>3, AnswerLoad
<1>2. ASSUME NEW d \in Deliveries, RetryPublish(o, d)
      PROVE  AnswerInv'
  <2>1. UNCHANGED <<row, letters, consumed, dropped>>
    BY <1>2 DEF RetryPublish, database
  <2>2. PICK v \in Session : v = session[o] /\ InHand(o, v)
    BY <1>0, AnswerKnown
  <2>3. PICK u \in Session, published \in BOOLEAN :
          /\ Publish(d, "queue", published) /\ session' = [session EXCEPT ![o] = u]
          /\ d \in v.rows /\ u.pc = "work"
          /\ u.rows = v.rows /\ u.todo = v.todo /\ u.copy = v.copy /\ u.letter = v.letter
          /\ u.resolve = IF published THEN "RETRIED" ELSE "OPEN"
          /\ \A x \in Deliveries : x # d => u.change[x] = v.change[x]
    BY <1>0, <1>2, <2>2, RetryPublishShape
  <2>4. u.letter \in OpenLetters(d) /\ d \notin u.todo
    BY <1>0, <2>2, <2>3 DEF InHand
  <2>5. ASSUME ~published, NEW C
        PROVE  Answered(Flush(row[d], u.change[d]), FlushLetters(d, u), C)
    <3>1. /\ u.letter \in DOMAIN FlushLetters(d, u)
          /\ FlushLetters(d, u)[u.letter] = "OPEN"
      BY <1>0, <2>3, <2>4, <2>5, LettersFlushed DEF TypeOK, OpenLetters
    <3>2. QED
      BY <3>1 DEF Answered
  <2>6. /\ \A x \in v.rows : x # d => (x \in u.todo <=> x \in v.todo)
        /\ \A x \in v.rows : x # d => u.change[x] = v.change[x]
    BY <2>3 DEF Session
  <2>7. /\ d \in v.rows /\ "queue" \in {"queue", "waiting"} /\ (o \in Scans => v.pc = "work")
        /\ (o \notin Operators => u.resolve = v.resolve)
        /\ ~published => \A C : Answered(Flush(row[d], u.change[d]), FlushLetters(d, u), C)
    BY <1>0, <2>3, <2>5
  <2>8. QED
    BY <1>0, <2>1, <2>2, <2>3, <2>4, <2>6, <2>7, AnswerPublish
<1>3. ASSUME NEW d \in Deliveries, DiscardLoad(o, d)
      PROVE  AnswerInv'
  <2>1. UNCHANGED <<row, letters, place, target, consumed, dropped>>
    BY <1>3 DEF DiscardLoad, database, broker
  <2>2. PICK v \in Session : v = session[o] /\ InHand(o, v)
    BY <1>0, AnswerKnown
  <2>3. PICK u \in Session :
          /\ session' = [session EXCEPT ![o] = u] /\ d \in v.rows /\ u.pc = "work"
          /\ u.rows = v.rows /\ u.letter = v.letter /\ u.resolve = "DISCARDED"
    BY <1>0, <1>3, <2>2, DiscardLoadShape
  <2>4. v.rows = {d} /\ u.letter \in OpenLetters(d)
    BY <1>0, <2>2, <2>3 DEF InHand
  <2>5. u.letter \in DOMAIN FlushLetters(d, u) /\ FlushLetters(d, u)[u.letter] = "DISCARDED"
    BY <1>0, <2>3, <2>4, LettersFlushed DEF TypeOK, OpenLetters
  <2>6. u.pc # "ack" /\ \A x \in u.rows : Answerable(o, u, x)
    BY <1>0, <2>3, <2>4, <2>5 DEF Answerable, Answered
  <2>7. QED
    BY <1>0, <2>1, <2>3, <2>6, AnswerLoad
<1>4. CASE RequestCommit(o)
  <2>1. PICK v \in Session : v = session[o] /\ InHand(o, v)
    BY <1>0, AnswerKnown
  <2>2. /\ session' = [session EXCEPT ![o] = Idle] /\ v.pc = "work" /\ v.todo = {} /\ Commit(v)
        /\ UNCHANGED <<place, target, consumed, dropped>>
    BY <1>0, <1>4, <2>1 DEF RequestCommit, InHand, broker
  <2>3. QED
    BY <1>0, <2>1, <2>2, IdleShape, AnswerCommit
<1>5. CASE Rollback(o)
  <2>1. /\ session' = [session EXCEPT ![o] = Idle]
        /\ UNCHANGED <<row, letters, place, target, consumed, dropped>>
    BY <1>5 DEF Rollback, database, broker
  <2>2. QED
    BY <1>0, <2>1, AnswerRelease
<1>6. QED
  BY <1>1, <1>2, <1>3, <1>4, <1>5 DEF Operator

\* The steps of RabbitMQ and the routing, which move no session.
LEMMA AnswerOutside ==
  ASSUME AnswerInv, OrderInv', ApartInv', UNCHANGED session,
         \A x \in Deliveries :
           \/ /\ row'[x] = row[x] /\ letters'[x] = letters[x]
              /\ Over(x)' \/ (~Over(x) /\ Lives(x) \subseteq Lives(x)')
           \/ /\ \A t \in Sessions : x \notin session[t].rows
              /\ Answered(row'[x], letters'[x], Lives(x)')
  PROVE  AnswerInv'
<1>1. ASSUME NEW x \in Deliveries, row'[x] # NoRow
      PROVE  Over(x)' \/ Answered(row'[x], letters'[x], Lives(x)')
  <2>1. CASE /\ row'[x] = row[x] /\ letters'[x] = letters[x]
             /\ ~Over(x) /\ Lives(x) \subseteq Lives(x)'
    <3>1. Answered(row[x], letters[x], Lives(x))
      BY <1>1, <2>1, AnsweredSays DEF AnswerInv, NeverForgotten
    <3>2. QED
      BY <2>1, <3>1, MoreCopies
  <2>2. QED
    BY <2>1
<1>2. NeverForgotten'
  BY <1>1, AnsweredSays DEF NeverForgotten
<1>3. ASSUME NEW t \in Sessions, NEW x \in session[t].rows
      PROVE  Answerable(t, session[t], x)'
  <2>1. PICK w \in Session : w = session[t] /\ \A d \in w.rows : d \in Deliveries /\ Answerable(t, w, d)
    BY AnswerKnown
  <2>2. x \in Deliveries /\ Answerable(t, w, x)
    BY <1>3, <2>1
  <2>3. /\ row'[x] = row[x] /\ letters'[x] = letters[x]
        /\ Over(x)' \/ (~Over(x) /\ Lives(x) \subseteq Lives(x)')
    BY <1>3, <2>2
  <2>4. Answerable(t, w, x)'
    BY <2>2, <2>3, AnswerKept
  <2>5. FlushLetters(x, session[t])' = FlushLetters(x, w)' /\ session'[t] = w
    BY <2>1 DEF FlushLetters
  <2>6. QED
    BY <2>4, <2>5 DEF Answerable
<1>4. QED
  BY <1>2, <1>3 DEF AnswerInv

LEMMA AnswerRabbitMQ ==
  ASSUME AnswerInv, OrderInv', ApartInv', RabbitMQ \/ UNCHANGED vars
  PROVE  AnswerInv'
<1>0. TypeOK
  BY DEF AnswerInv, OrderInv
<1>1. ASSUME UNCHANGED <<row, letters, session, consumed, dropped, target>>,
             \A c \in Copies : place[c] # "free" => place'[c] # "free"
      PROVE  AnswerInv'
  <2>1. \A c \in Copies : Spent(c)' <=> Spent(c)
    BY <1>1 DEF Spent
  <2>2. \A x \in Deliveries : Lives(x) \subseteq Lives(x)'
    BY <1>1, <2>1, LivesKept
  <2>3. \A x \in Deliveries : Over(x)' <=> Over(x)
    BY <1>1 DEF Over
  <2>4. QED
    BY <1>1, <2>2, <2>3, AnswerOutside
<1>2. ASSUME NEW c \in Copies, ConsumerAck(c)
      PROVE  AnswerInv'
  <2>1. /\ UNCHANGED <<row, letters, session, dropped>> /\ target[c] \in Deliveries
        /\ \A k \in Copies : k # c => place'[k] = place[k] /\ target'[k] = target[k]
        /\ consumed'[target[c]] /\ \A x \in Deliveries : x # target[c] => (consumed'[x] <=> consumed[x])
    BY <1>0, <1>2 DEF ConsumerAck, database, TypeOK, BrokerTyped
  <2>2. \A k \in Copies : Spent(k)' <=> Spent(k)
    BY <2>1 DEF Spent
  <2>3. ASSUME NEW x \in Deliveries
        PROVE  Over(x)' \/ (~Over(x) /\ Lives(x) \subseteq Lives(x)')
    <3>1. CASE x = target[c]
      BY <2>1, <3>1 DEF Over
    <3>2. CASE x # target[c]
      <4>1. Lives(x) \subseteq Lives(x)'
        BY <2>1, <2>2, <3>2 DEF Lives, Live
      <4>2. QED
        BY <2>1, <3>2, <4>1 DEF Over
    <3>3. QED
      BY <3>1, <3>2
  <2>4. QED
    BY <2>1, <2>3, AnswerOutside
<1>3. ASSUME NEW c \in Copies, ConsumerNack(c) \/ TtlExpire(c)
      PROVE  AnswerInv'
  <2>1. /\ UNCHANGED <<row, letters, session, consumed, dropped, target>>
        /\ \A k \in Copies : place[k] # "free" => place'[k] # "free"
    BY <1>0, <1>3 DEF ConsumerNack, TtlExpire, Move, database, TypeOK, BrokerTyped
  <2>2. QED
    BY <1>1, <2>1
<1>4. CASE BrokerUp \/ UNCHANGED vars
  <2>1. /\ UNCHANGED <<row, letters, session, consumed, dropped, target>>
        /\ \A k \in Copies : place[k] # "free" => place'[k] # "free"
    BY <1>4 DEF BrokerUp, vars, database, broker
  <2>2. QED
    BY <1>1, <2>1
<1>5. CASE BrokerDown
  <2>1. UNCHANGED <<row, letters, place, target, consumed, dropped>>
    BY <1>5 DEF BrokerDown, database
  <2>2. ASSUME NEW s \in Sessions
        PROVE  \E w \in Session, u \in Session :
                 /\ w = session[s] /\ u = session'[s] /\ u.pc = w.pc /\ u.rows = w.rows
                 /\ u.todo = w.todo /\ u.change = w.change /\ u.letter = w.letter
                 /\ u.resolve = w.resolve /\ u.copy = NoCopy
                 /\ \A d \in w.rows : d \in Deliveries /\ Answerable(s, w, d)
    <3>1. PICK w \in Session : /\ w = session[s]
                               /\ \A d \in w.rows : d \in Deliveries /\ Answerable(s, w, d)
      BY AnswerKnown
    <3>2. PICK u : u = [w EXCEPT !.copy = NoCopy]
      OBVIOUS
    <3>3. session'[s] = u
      BY <1>5, <3>1, <3>2 DEF BrokerDown
    <3>4. /\ u \in Session /\ u.pc = w.pc /\ u.rows = w.rows /\ u.todo = w.todo
          /\ u.change = w.change /\ u.letter = w.letter /\ u.resolve = w.resolve /\ u.copy = NoCopy
      BY <3>2 DEF Session
    <3>5. QED
      BY <3>1, <3>3, <3>4
  <2>3. \A c \in Copies : ~Spent(c)'
    BY <2>2, KindsDisjoint, DeliveryCycleAssumption DEF Spent
  <2>4. ASSUME NEW x \in Deliveries
        PROVE  Lives(x) \subseteq Lives(x)' /\ (Over(x)' <=> Over(x))
    BY <2>1, <2>3, LivesKept DEF Over
  <2>5. NeverForgotten'
    <3>1. ASSUME NEW x \in Deliveries, row'[x] # NoRow
          PROVE  Over(x)' \/ Answered(row'[x], letters'[x], Lives(x)')
      <4>1. Over(x) \/ Answered(row[x], letters[x], Lives(x))
        BY <2>1, <3>1, AnsweredSays DEF AnswerInv, NeverForgotten
      <4>2. QED
        BY <2>1, <2>4, <4>1, MoreCopies
    <3>2. QED
      BY <3>1, AnsweredSays DEF NeverForgotten
  <2>6. ASSUME NEW t \in Sessions, NEW x \in session'[t].rows
        PROVE  Answerable(t, session[t], x)'
    <3>1. PICK w \in Session, u \in Session :
            /\ w = session[t] /\ u = session'[t] /\ u.pc = w.pc /\ u.rows = w.rows
            /\ u.todo = w.todo /\ u.change = w.change /\ u.letter = w.letter
            /\ u.resolve = w.resolve /\ u.copy = NoCopy
            /\ \A d \in w.rows : d \in Deliveries /\ Answerable(t, w, d)
      BY <2>2
    <3>2. x \in Deliveries /\ Answerable(t, w, x)
      BY <2>6, <3>1
    <3>3. FlushLetters(x, u) = FlushLetters(x, w)
      BY <3>1 DEF FlushLetters
    <3>4. Lives(x) \ {w.copy} \subseteq Lives(x) \ {u.copy}
      BY <3>1, DeliveryCycleAssumption DEF Lives
    <3>5. Answered(Flush(row[x], w.change[x]), FlushLetters(x, w), Lives(x) \ {w.copy})
            => Answered(Flush(row[x], w.change[x]), FlushLetters(x, w), Lives(x) \ {u.copy})
      BY <3>4, MoreCopies
    <3>6. Answerable(t, u, x)
      BY <3>1, <3>2, <3>3, <3>5 DEF Answerable
    <3>7. Over(x)' \/ (~Over(x) /\ Lives(x) \subseteq Lives(x)')
      BY <2>4, <3>2
    <3>8. Answerable(t, u, x)'
      BY <2>1, <3>6, <3>7, AnswerKept
    <3>9. FlushLetters(x, session[t])' = FlushLetters(x, u)'
      BY <3>1 DEF FlushLetters
    <3>10. QED
      BY <3>1, <3>8, <3>9 DEF Answerable
  <2>7. QED
    BY <2>5, <2>6 DEF AnswerInv
<1>6. QED
  BY <1>2, <1>3, <1>4, <1>5 DEF RabbitMQ

LEMMA AnswerRoute ==
  ASSUME AnswerInv, OrderInv', ApartInv', NEW d \in Deliveries, Route(d)
  PROVE  AnswerInv'
<1>1. TypeOK /\ OrderInv /\ UNCHANGED <<letters, session, consumed, dropped>>
  BY DEF AnswerInv, OrderInv, Route
<1>2. PICK published \in BOOLEAN :
        Publish(d, "queue", published) /\ row' = [row EXCEPT ![d] = first_attempt(published)]
  BY DEF Route
<1>3. Unrouted(d) /\ \A x \in Deliveries : x # d => row'[x] = row[x]
  BY <1>1, OrderRoute, StepTyped DEF OrderInv
<1>4. \A c \in Copies : Spent(c)' <=> Spent(c)
  BY <1>1 DEF Spent
<1>5. \A c \in Copies : place[c] # "free" => place'[c] # "free" /\ target'[c] = target[c]
  BY <1>1, <1>2 DEF Publish, PutCopy, TypeOK, BrokerTyped
<1>6. \A x \in Deliveries : Lives(x) \subseteq Lives(x)' /\ (Over(x)' <=> Over(x))
  BY <1>1, <1>4, <1>5, LivesKept DEF Over
<1>7. Answered(row'[d], letters'[d], Lives(d)')
  <2>1. CASE published
    <3>1. PICK n \in Copies : /\ place[n] = "free" /\ place' = [place EXCEPT ![n] = "queue"]
                              /\ target' = [target EXCEPT ![n] = d]
      BY <1>2, <2>1 DEF Publish, PutCopy
    <3>2. place'[n] # "free" /\ target'[n] = d /\ ~Spent(n)
      BY <1>1, <3>1, KindsDisjoint DEF TypeOK, BrokerTyped, Spent, OrderInv, UnitsInOrder, InOrder
    <3>3. n \in Lives(d)'
      BY <1>4, <3>2 DEF Lives, Live
    <3>4. QED
      BY <3>3 DEF Answered
  <2>2. CASE ~published
    <3>1. row'[d] = first_attempt(published)
      BY <1>1, <1>2 DEF TypeOK, DatabaseTyped
    <3>2. PICK r : r = first_attempt(published)
      OBVIOUS
    <3>3. r.status = "RETRYING" /\ r.next
      BY <2>2, <3>2 DEF first_attempt
    <3>4. QED
      BY <3>1, <3>2, <3>3 DEF Answered
  <2>3. QED
    BY <2>1, <2>2
<1>8. \A t \in Sessions : d \notin session[t].rows
  BY <1>3 DEF Unrouted
<1>9. \A x \in Deliveries : x # d => row'[x] = row[x] /\ letters'[x] = letters[x]
  BY <1>1, <1>3
<1>10. QED
  BY <1>1, <1>6, <1>7, <1>8, <1>9, AnswerOutside

LEMMA StepAnswered ==
  ASSUME AnswerInv, RowsApart', [Next]_vars
  PROVE  AnswerInv'
<1>1. ApartInv'
  BY StepApart DEF AnswerInv
<1>2. OrderInv'
  BY StepOrdered DEF AnswerInv
<1>3. QED
  BY <1>1, <1>2, AnswerHandler, AnswerScan, AnswerOperator, AnswerRabbitMQ, AnswerRoute DEF Next

LEMMA InitAnswered == Init => AnswerInv
<1> SUFFICES ASSUME Init PROVE AnswerInv
  OBVIOUS
<1>1. \A s \in Sessions : session[s].rows = {}
  BY IdleShape DEF Init
<1>2. NeverForgotten
  BY DEF Init, NeverForgotten
<1>3. QED
  BY <1>1, <1>2, InitOrdered, InitApart DEF AnswerInv

\* While no two sessions overlap on a delivery, none that was routed is
\* forgotten, whatever fails and however often: refused publishes too, which
\* the theorem for overlapping sessions (NothingForgotten) has to exclude.
THEOREM NothingForgottenApart == Spec /\ []RowsApart => []NeverForgotten
<1>1. AnswerInv /\ RowsApart' /\ [Next]_vars => AnswerInv'
  BY StepAnswered
<1>2. AnswerInv => NeverForgotten
  BY DEF AnswerInv
<1>3. QED
  BY <1>1, <1>2, InitAnswered, PTL DEF Spec
=============================================================================
