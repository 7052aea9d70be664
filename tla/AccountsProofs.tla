---------------------------- MODULE AccountsProofs ----------------------------
(***************************************************************************)
(* Proofs about Accounts, for any accounts, teams and requests, any limit  *)
(* of failed logins and any bounds.                                        *)
(***************************************************************************)
EXTENDS Accounts, FiniteSetTheorems, TLAPS

-----------------------------------------------------------------------------
(* What the actions are built from.                                        *)

LEMMA RowsTyped == NoRow \in Row /\ NewRow \in Row /\ NoUnit \in Unit
<1>1. NoRow \in Row /\ NewRow \in Row
  BY AccountsAssumption DEF NoRow, NewRow, Row, Counts
<1>2. QED
  BY <1>1 DEF NoUnit, Unit, Operations

\* A commit leaves a row of the type, with a count it found or was to write.
LEMMA WrittenTyped ==
  ASSUME NEW current \in Row, NEW old \in Row, NEW new \in Row
  PROVE  /\ Written(current, old, new) \in Row
         /\ Written(current, old, new).failed \in {current.failed, new.failed}
  BY DEF Written, Row

\* More than one active account of a team: every account has another beside it.
LEMMA AnotherActive ==
  ASSUME NEW e \in Emails, account[e].active, NotLastActive(e)
  PROVE  \E f \in Emails : f # e /\ SameTeam(f, e) /\ Active(account[f])
<1> DEFINE S == {f \in Emails : TeamOf[f] = TeamOf[e] /\ account[f].exists /\ account[f].active}
<1>1. Cardinality(S) > 1
  BY DEF NotLastActive, count_active_in_module
<1>2. SUFFICES ASSUME \A f \in S : f = e
               PROVE  FALSE
  BY DEF SameTeam, Active
<1>3. S \subseteq {e}
  BY <1>2
<1>4. IsFiniteSet({e}) /\ Cardinality({e}) = 1
  BY FS_Singleton
<1>5. Cardinality(S) <= 1
  BY <1>3, <1>4, FS_Subset
<1>6. Cardinality(S) \in Nat
  BY <1>3, <1>4, FS_Subset, FS_CardinalityType
<1>7. QED
  BY <1>1, <1>5, <1>6

-----------------------------------------------------------------------------
(* The beginning of a request.                                             *)

LEMMA BeginKeeps ==
  ASSUME IInv, NEW r \in Requests, NEW op \in Operations \ {"none"}, NEW e \in Emails, NEW new,
         Begin(r, op, e, new),
         asked + 1 <= MaxRequests => new \in Row /\ new.failed <= asked + 1,
         Plausible(op, account[e], new),
         /\ Active(account[e])
         /\ op = "delete" \/ (op = "update" /\ ~new.active)
         => NotLastActive(e)
  PROVE  IInv'
<1> DEFINE others == Overlapping(r, e)
<1>1. /\ Idle(r) /\ asked < MaxRequests /\ asked' = asked + 1
      /\ UNCHANGED <<account, seeds>>
      /\ request' = [q \in Requests |->
           IF q = r THEN [op |-> op, email |-> e, old |-> account[e], new |-> new,
                          gone |-> FALSE, alone |-> others = {}]
           ELSE IF q \in others THEN [request[q] EXCEPT !.alone = FALSE]
           ELSE request[q]]
  BY DEF Begin
<1>2. asked \in Nat /\ MaxRequests \in Nat /\ asked + 1 <= MaxRequests
  BY <1>1, AccountsAssumption DEF IInv, TypeOK
<1>3. new \in Row /\ new.failed <= asked + 1 /\ account[e] \in Row
  BY <1>2 DEF IInv, TypeOK
<1>4. \A q \in Requests : q # r =>
        /\ request'[q] \in Unit
        /\ request'[q].op = request[q].op /\ request'[q].email = request[q].email
        /\ request'[q].old = request[q].old /\ request'[q].new = request[q].new
        /\ request'[q].gone = request[q].gone
        /\ request'[q].alone => request[q].alone /\ q \notin others
  <2> SUFFICES ASSUME NEW q \in Requests, q # r
               PROVE  /\ request'[q] \in Unit
                      /\ request'[q].op = request[q].op /\ request'[q].email = request[q].email
                      /\ request'[q].old = request[q].old /\ request'[q].new = request[q].new
                      /\ request'[q].gone = request[q].gone
                      /\ request'[q].alone => request[q].alone /\ q \notin others
    OBVIOUS
  <2>1. request[q] \in Unit
    BY DEF IInv, TypeOK
  <2>2. request'[q] = IF q \in others THEN [request[q] EXCEPT !.alone = FALSE] ELSE request[q]
    BY <1>1
  <2>3. QED
    BY <2>1, <2>2 DEF Unit
<1>5. /\ request'[r].op = op /\ request'[r].email = e /\ request'[r].old = account[e]
      /\ request'[r].new = new /\ request'[r].gone = FALSE
      /\ request'[r].alone = (others = {})
      /\ request'[r] \in Unit
  BY <1>1, <1>3 DEF Unit
<1>6. TypeOK'
  <2>1. \A q \in Requests : request'[q] \in Unit
    BY <1>4, <1>5
  <2>2. request' \in [Requests -> Unit]
    BY <1>1, <2>1
  <2>3. asked' \in 0..MaxRequests
    BY <1>1, <1>2
  <2>4. QED
    BY <1>1, <2>2, <2>3 DEF IInv, TypeOK
<1>7. Counted'
  <2>1. \A f \in Emails : account[f].failed \in Nat /\ account[f].failed <= asked
    BY AccountsAssumption DEF IInv, TypeOK, Counted, Row, Counts
  <2>2. \A q \in Requests : request[q].old.failed \in Nat /\ request[q].new.failed \in Nat
    BY AccountsAssumption DEF IInv, TypeOK, Unit, Row, Counts
  <2>3. QED
    BY <1>1, <1>2, <1>3, <1>4, <1>5, <2>1, <2>2 DEF IInv, Counted, Idle
<1>8. UnitsPlausible'
  BY <1>4, <1>5 DEF IInv, UnitsPlausible
<1>9. OverlapsKnown'
  <2>1. \A q \in Requests : q # r /\ ~Idle(q)' /\ SameTeam(request'[q].email, e) => q \in others
    BY <1>4 DEF Overlapping, Idle
  <2>2. \A p, q \in Requests :
          /\ p # r /\ q # r /\ p # q /\ ~Idle(p)' /\ ~Idle(q)'
          /\ SameTeam(request'[p].email, request'[q].email)
          => ~request'[p].alone
    BY <1>4 DEF IInv, OverlapsKnown, Idle
  <2>3. \A q \in Requests : q # r /\ ~Idle(q)' /\ SameTeam(request'[q].email, e)
          => ~request'[q].alone /\ ~request'[r].alone
    BY <1>4, <1>5, <2>1
  <2>4. QED
    BY <1>5, <2>2, <2>3 DEF OverlapsKnown, SameTeam
<1>10. AloneIsFresh'
  BY <1>1, <1>4, <1>5 DEF IInv, AloneIsFresh, Idle
<1>11. AloneLeavesAnother'
  <2>1. Active(account[e]) /\ NotLastActive(e)
          => \E f \in Emails : f # e /\ SameTeam(f, e) /\ Active(account[f])
    BY AnotherActive DEF Active
  <2>2. QED
    BY <1>1, <1>4, <1>5, <2>1 DEF IInv, AloneLeavesAnother
<1>12. QED
  BY <1>6, <1>7, <1>8, <1>9, <1>10, <1>11 DEF IInv

\* Every operation begins a unit that BeginKeeps allows.
LEMMA OperationsKeep ==
  ASSUME IInv, NEW r \in Requests, NEW e \in Emails, NEW actor \in Teams, NEW active \in BOOLEAN,
         \/ create(r, actor, e)
         \/ update(r, actor, e, active)
         \/ set_password(r, actor, e)
         \/ delete(r, actor, e)
         \/ login(r, e)
         \/ failed_login(r, e)
  PROVE  IInv'
<1> DEFINE row == account[e]
<1>1. row \in Row /\ row.failed \in Nat /\ row.failed <= asked /\ asked \in Nat /\ 0 \in Counts
  BY AccountsAssumption DEF IInv, TypeOK, Counted, Row, Counts
<1>2. {"create", "update", "password", "delete", "login", "failed_login"}
        \subseteq Operations \ {"none"}
  BY DEF Operations
<1>3. [row EXCEPT !.failed = 0] \in Row /\ [row EXCEPT !.failed = 0].failed <= asked + 1
  BY <1>1 DEF Row
<1>4. CASE create(r, actor, e)
  <2>1. NewRow.failed <= asked + 1
    BY <1>1 DEF NewRow
  <2>2. Plausible("create", row, NewRow)
    BY DEF Plausible
  <2>3. QED
    BY <1>2, <1>4, <2>1, <2>2, RowsTyped, BeginKeeps DEF create
<1>5. CASE update(r, actor, e, active)
  <2> DEFINE new == IF active = row.active THEN row
                    ELSE IF active THEN [row EXCEPT !.active = TRUE, !.failed = 0]
                    ELSE [row EXCEPT !.active = FALSE]
  <2>1. new \in Row /\ new.failed <= asked + 1
    <3>1. \A b \in BOOLEAN : /\ [row EXCEPT !.active = b, !.failed = 0] \in Row
                              /\ [row EXCEPT !.active = b, !.failed = 0].failed = 0
                              /\ [row EXCEPT !.active = b] \in Row
                              /\ [row EXCEPT !.active = b].failed = row.failed
      BY <1>1 DEF Row
    <3>2. 0 <= asked + 1 /\ row.failed <= asked + 1
      BY <1>1
    <3>3. new \in {row, [row EXCEPT !.active = TRUE, !.failed = 0], [row EXCEPT !.active = FALSE]}
      OBVIOUS
    <3>4. QED
      BY <1>1, <3>1, <3>2, <3>3
  <2>2. Plausible("update", row, new)
    BY <1>1, <1>5 DEF Plausible, update, Row
  <2>3. Active(row) /\ ~new.active => NotLastActive(e)
    BY <1>1, <1>5 DEF update, Active, Row
  <2>4. Begin(r, "update", e, new)
    BY <1>5 DEF update
  <2>5. QED
    BY <1>2, <2>1, <2>2, <2>3, <2>4, BeginKeeps
<1>6. CASE set_password(r, actor, e)
  <2>1. Plausible("password", row, [row EXCEPT !.failed = 0])
    BY <1>6 DEF Plausible, set_password
  <2>2. QED
    BY <1>2, <1>3, <1>6, <2>1, BeginKeeps DEF set_password
<1>7. CASE delete(r, actor, e)
  <2>1. NoRow.failed <= asked + 1
    BY <1>1 DEF NoRow
  <2>2. Plausible("delete", row, NoRow)
    BY <1>7 DEF Plausible, delete
  <2>3. QED
    BY <1>2, <1>7, <2>1, <2>2, RowsTyped, BeginKeeps DEF delete
<1>8. CASE login(r, e)
  <2>1. Plausible("login", row, [row EXCEPT !.failed = 0])
    BY <1>8 DEF Plausible, login
  <2>2. QED
    BY <1>2, <1>3, <1>8, <2>1, BeginKeeps DEF login
<1>9. CASE failed_login(r, e)
  <2> DEFINE new == [row EXCEPT !.failed = @ + 1,
                                !.active = @ /\ row.failed + 1 < MAX_FAILED_ATTEMPTS]
  <2>1. asked + 1 <= MaxRequests => new \in Row /\ new.failed <= asked + 1
    <3>1. asked + 1 <= MaxRequests => row.failed + 1 \in Counts /\ row.failed + 1 <= asked + 1
      BY <1>1, AccountsAssumption DEF Counts
    <3>2. (row.active /\ row.failed + 1 < MAX_FAILED_ATTEMPTS) \in BOOLEAN
      BY <1>1, AccountsAssumption
    <3>3. QED
      BY <1>1, <3>1, <3>2 DEF Row
  <2>2. Plausible("failed_login", row, new)
    BY <1>9 DEF Plausible, failed_login
  <2>3. Begin(r, "failed_login", e, new)
    BY <1>9 DEF failed_login, record_failed_login
  <2>4. QED
    BY <1>2, <2>1, <2>2, <2>3, BeginKeeps
<1>10. QED
  BY <1>4, <1>5, <1>6, <1>7, <1>8, <1>9

-----------------------------------------------------------------------------
(* The commit of a request.                                                *)

LEMMA ResultTyped ==
  ASSUME IInv, NEW r \in Requests, ~Idle(r)
  PROVE  LET u == request[r] IN
         /\ u.email \in Emails
         /\ Result(u) \in Row
         /\ Result(u).failed <= asked
<1> DEFINE u == request[r]
           row == account[u.email]
<1>1. u.email \in Emails /\ u \in Unit /\ row \in Row
  BY DEF IInv, TypeOK, Counted
<1>2. u.old \in Row /\ u.new \in Row
  BY <1>1 DEF Unit
<1>3. row.failed <= asked /\ u.new.failed <= asked /\ 0 <= asked
  BY <1>1, AccountsAssumption DEF IInv, TypeOK, Counted
<1>4. Written(row, u.old, u.new) \in Row /\ Written(row, u.old, u.new).failed <= asked
  BY <1>1, <1>2, <1>3, WrittenTyped
<1>5. NewRow.failed = 0 /\ NoRow.failed = 0
  BY DEF NewRow, NoRow
<1>6. QED
  BY <1>1, <1>3, <1>4, <1>5, RowsTyped DEF Result

LEMMA CommitKeeps ==
  ASSUME IInv, NEW r \in Requests, Commit(r)
  PROVE  IInv'
<1> DEFINE u == request[r]
<1>1. /\ ~Idle(r) /\ u.email \in Emails /\ u \in Unit
      /\ account' \in {account, [account EXCEPT ![u.email] = Result(u)]}
      /\ UNCHANGED <<asked, seeds>>
  BY DEF Commit, IInv, TypeOK, Counted
<1>2. request'[r] = NoUnit /\ DOMAIN request' = Requests
  BY DEF Commit
<1>3. \A q \in Requests : q # r =>
        /\ request'[q] \in Unit
        /\ request'[q].op = request[q].op /\ request'[q].email = request[q].email
        /\ request'[q].old = request[q].old /\ request'[q].new = request[q].new
        /\ request'[q].alone = request[q].alone
        /\ request'[q].gone # request[q].gone =>
             request[q].email = u.email /\ request[q].old.exists
  <2> SUFFICES ASSUME NEW q \in Requests, q # r
               PROVE  /\ request'[q] \in Unit
                      /\ request'[q].op = request[q].op /\ request'[q].email = request[q].email
                      /\ request'[q].old = request[q].old /\ request'[q].new = request[q].new
                      /\ request'[q].alone = request[q].alone
                      /\ request'[q].gone # request[q].gone =>
                           request[q].email = u.email /\ request[q].old.exists
    OBVIOUS
  <2>1. request[q] \in Unit
    BY DEF IInv, TypeOK
  <2>2. request'[q] = request[q]
          \/ /\ request'[q] = [request[q] EXCEPT !.gone = TRUE]
             /\ request[q].email = u.email /\ request[q].old.exists
    BY DEF Commit
  <2>3. QED
    BY <2>1, <2>2 DEF Unit
<1>4. \A f \in Emails : /\ account'[f] \in Row /\ account'[f].failed <= asked
                        /\ f # u.email => account'[f] = account[f]
  BY <1>1, ResultTyped DEF IInv, TypeOK, Counted
<1>5. \A q \in Requests : q # r /\ ~Idle(q) /\ request[q].alone
                            => ~SameTeam(request[q].email, u.email)
  BY <1>1 DEF IInv, OverlapsKnown
<1>6. TypeOK'
  <2>1. account' \in [Emails -> Row]
    BY <1>1, <1>4 DEF IInv, TypeOK
  <2>2. request' \in [Requests -> Unit]
    <3>1. \A q \in Requests : request'[q] \in Unit
      BY <1>2, <1>3, RowsTyped
    <3>2. request' = [q \in Requests |-> request'[q]]
      BY DEF Commit
    <3>3. QED
      BY <3>1, <3>2
  <2>3. QED
    BY <1>1, <2>1, <2>2 DEF IInv, TypeOK
<1>7. Counted'
  <2>1. 0 <= asked /\ NoUnit.old.failed = 0 /\ NoUnit.new.failed = 0 /\ NoUnit.op = "none"
    BY AccountsAssumption DEF IInv, TypeOK, NoUnit, NoRow
  <2>2. QED
    BY <1>1, <1>2, <1>3, <1>4, <2>1 DEF IInv, Counted, Idle
<1>8. UnitsPlausible'
  <2>1. Plausible(NoUnit.op, NoUnit.old, NoUnit.new)
    BY DEF Plausible, NoUnit
  <2>2. QED
    BY <1>2, <1>3, <2>1 DEF IInv, UnitsPlausible
<1>9. OverlapsKnown'
  BY <1>2, <1>3 DEF IInv, OverlapsKnown, Idle, NoUnit
<1>10. AloneIsFresh'
  <2> SUFFICES ASSUME NEW q \in Requests, ~Idle(q)', request'[q].alone, request'[q].old.exists
               PROVE  ~request'[q].gone /\ account'[request'[q].email] = request'[q].old
    BY DEF AloneIsFresh
  <2>1. q # r
    BY <1>2 DEF Idle, NoUnit
  <2>2. ~Idle(q) /\ request[q].email \in Emails /\ request[q].email # u.email
    BY <1>3, <1>5, <2>1 DEF Idle, SameTeam, IInv, Counted
  <2>3. QED
    BY <1>3, <1>4, <2>1, <2>2 DEF IInv, AloneIsFresh
<1>11. AloneLeavesAnother'
  <2> SUFFICES ASSUME NEW q \in Requests, request'[q].alone, Active(request'[q].old),
                      request'[q].op = "delete"
                        \/ (request'[q].op = "update" /\ ~request'[q].new.active)
               PROVE  \E f \in Emails : /\ f # request'[q].email
                                         /\ SameTeam(f, request'[q].email)
                                         /\ Active(account'[f])
    BY DEF AloneLeavesAnother
  <2>1. q # r
    BY <1>2 DEF NoUnit
  <2>2. ~Idle(q) /\ ~SameTeam(request[q].email, u.email)
    BY <1>3, <1>5, <2>1 DEF Idle
  <2>3. PICK f \in Emails : /\ f # request[q].email /\ SameTeam(f, request[q].email)
                            /\ Active(account[f])
    BY <1>3, <2>1 DEF IInv, AloneLeavesAnother
  <2>4. account'[f] = account[f]
    BY <1>4, <2>2, <2>3 DEF SameTeam
  <2>5. QED
    BY <1>3, <2>1, <2>3, <2>4
<1>12. QED
  BY <1>6, <1>7, <1>8, <1>9, <1>10, <1>11 DEF IInv

-----------------------------------------------------------------------------
(* The seed, the beginning, and the invariant.                             *)

LEMMA SeedKeeps ==
  ASSUME IInv, seed
  PROVE  /\ IInv'
         /\ \A e \in Emails : account[e].exists => account'[e] = account[e]
         /\ \A e \in Emails : account'[e] \in {account[e], NewRow}
<1>1. /\ \A e \in Emails : account[e].exists => account'[e] = account[e]
      /\ \A e \in Emails : account'[e] \in {account[e], NewRow}
      /\ UNCHANGED <<request, asked>>
  BY DEF seed, seed_user
<1>2. TypeOK'
  <2>1. account' \in [Emails -> Row]
    BY RowsTyped DEF seed, seed_user, IInv, TypeOK
  <2>2. seeds' \in 0..MaxSeeds
    BY AccountsAssumption DEF seed, IInv, TypeOK
  <2>3. QED
    BY <1>1, <2>1, <2>2 DEF IInv, TypeOK
<1>3. Counted'
  <2>1. NewRow.failed = 0 /\ 0 <= asked
    BY AccountsAssumption DEF NewRow, IInv, TypeOK
  <2>2. QED
    BY <1>1, <2>1 DEF IInv, Counted, Idle
<1>4. UnitsPlausible' /\ OverlapsKnown'
  BY <1>1 DEF IInv, UnitsPlausible, OverlapsKnown, Idle
<1>5. AloneIsFresh'
  BY <1>1 DEF IInv, AloneIsFresh, Idle, Counted
<1>6. AloneLeavesAnother'
  BY <1>1 DEF IInv, AloneLeavesAnother, Active
<1>7. QED
  BY <1>1, <1>2, <1>3, <1>4, <1>5, <1>6 DEF IInv

LEMMA NextKeeps ==
  ASSUME IInv, Next
  PROVE  IInv'
<1>1. ASSUME NEW r \in Requests, Serve(r)
      PROVE  IInv'
  <2>1. CASE post_user(r)
    BY <2>1, OperationsKeep DEF post_user
  <2>2. CASE patch_user(r)
    BY <2>2, OperationsKeep DEF patch_user
  <2>3. CASE put_password(r)
    BY <2>3, OperationsKeep DEF put_password
  <2>4. CASE delete_user(r)
    BY <2>4, OperationsKeep DEF delete_user
  <2>5. CASE post_login(r)
    BY <2>5, OperationsKeep, AccountsAssumption DEF post_login
  <2>6. CASE Commit(r)
    BY <2>6, CommitKeeps
  <2>7. QED
    BY <1>1, <2>1, <2>2, <2>3, <2>4, <2>5, <2>6 DEF Serve
<1>2. QED
  BY <1>1, SeedKeeps DEF Next

LEMMA StutterKeeps ==
  ASSUME IInv, UNCHANGED vars
  PROVE  IInv'
BY DEF vars, IInv, TypeOK, Counted, UnitsPlausible, OverlapsKnown, AloneIsFresh,
       AloneLeavesAnother, Idle

LEMMA InitHolds ==
  ASSUME Init
  PROVE  IInv
<1>1. NoRow.failed = 0 /\ NewRow.failed = 0 /\ NoUnit.op = "none" /\ NoUnit.old = NoRow
      /\ NoUnit.new = NoRow
  BY DEF NoRow, NewRow, NoUnit
<1>2. TypeOK
  BY RowsTyped, AccountsAssumption DEF Init, TypeOK
<1>3. Counted
  BY <1>1 DEF Init, Counted, Idle
<1>4. UnitsPlausible
  BY <1>1 DEF Init, UnitsPlausible, Plausible
<1>5. OverlapsKnown /\ AloneIsFresh /\ AloneLeavesAnother
  BY <1>1 DEF Init, OverlapsKnown, AloneIsFresh, AloneLeavesAnother, Idle
<1>6. QED
  BY <1>2, <1>3, <1>4, <1>5 DEF IInv

LEMMA Invariant == Spec => []IInv
<1>1. IInv /\ [Next]_vars => IInv'
  BY NextKeeps, StutterKeeps
<1>2. QED
  BY <1>1, InitHolds, PTL DEF Spec

\* Accounts, requests and counters keep their types for any instance.
THEOREM TypeCorrect == Spec => []TypeOK
BY Invariant, PTL DEF IInv

-----------------------------------------------------------------------------
(* What a step may do to an account.                                       *)

\* Only a commit changes an account that exists, and it changes no other.
LEMMA OnlyCommitsChange ==
  ASSUME IInv, [Next]_vars, NEW e \in Emails, account'[e] # account[e]
  PROVE  \/ ~account[e].exists /\ account'[e] = NewRow
         \/ \E r \in Requests :
              /\ Commits(r) /\ request[r].email = e /\ ~Refused(request[r])
              /\ account'[e] = Result(request[r])
              /\ \A f \in Emails : f # e => account'[f] = account[f]
<1>1. CASE seed
  BY <1>1, SeedKeeps
<1>2. ASSUME NEW r \in Requests, Serve(r)
      PROVE  \E q \in Requests :
               /\ Commits(q) /\ request[q].email = e /\ ~Refused(request[q])
               /\ account'[e] = Result(request[q])
               /\ \A f \in Emails : f # e => account'[f] = account[f]
  <2>1. CASE Commit(r)
    <3>1. ~Idle(r) /\ request'[r] = NoUnit /\ NoUnit.op = "none"
      BY <2>1 DEF Commit, NoUnit
    <3>2. account' = [account EXCEPT ![request[r].email] = Result(request[r])]
          /\ ~Refused(request[r]) /\ request[r].email = e
      BY <2>1 DEF Commit, IInv, TypeOK
    <3>3. account \in [Emails -> Row]
      BY DEF IInv, TypeOK
    <3>4. QED
      BY <3>1, <3>2, <3>3 DEF Commits
  <2>2. CASE ~Commit(r)
    <3>1. UNCHANGED account
      BY <1>2, <2>2 DEF Serve, post_user, patch_user, put_password, delete_user, post_login,
         create, update, set_password, delete, login, failed_login, record_failed_login, Begin
    <3>2. QED
      BY <3>1
  <2>3. QED
    BY <2>1, <2>2
<1>3. CASE UNCHANGED vars
  BY <1>3 DEF vars
<1>4. QED
  BY <1>1, <1>2, <1>3 DEF Next

\* What a commit that changed the account wrote.
LEMMA WhatCommitsWrite ==
  ASSUME IInv, NEW r \in Requests, ~Idle(r), ~Refused(request[r]),
         account[request[r].email] # Result(request[r])
  PROVE  LET u == request[r]
             row == account[u.email]
         IN \/ u.op = "create" /\ ~row.exists /\ Result(u) = NewRow
            \/ u.op = "delete" /\ u.old.exists /\ Result(u) = NoRow
            \/ /\ u.op \in {"update", "password", "login", "failed_login"}
               /\ u.old.exists /\ u.old # u.new
               /\ Result(u) = Written(row, u.old, u.new)
<1>1. request[r] \in Unit /\ Plausible(request[r].op, request[r].old, request[r].new)
  BY DEF IInv, TypeOK, UnitsPlausible
<1>2. QED
  BY <1>1 DEF Idle, Result, Refused, Unit, Operations, Plausible

-----------------------------------------------------------------------------
(* The properties of the accounts.                                         *)

\* An account that was deactivated is active again only by a reactivation.
LEMMA StepsKeepLocks ==
  ASSUME IInv, [Next]_vars, NEW e \in Emails,
         account[e].exists, ~account[e].active, Active(account'[e])
  PROVE  \E r \in Requests : /\ Commits(r) /\ request[r].email = e
                             /\ request[r].op = "update" /\ ~request[r].old.active
<1>1. account'[e] # account[e]
  BY DEF Active
<1>2. PICK r \in Requests : /\ Commits(r) /\ request[r].email = e /\ ~Refused(request[r])
                            /\ account'[e] = Result(request[r])
  BY <1>1, OnlyCommitsChange
<1> DEFINE u == request[r]
<1>3. /\ u.op \in {"update", "password", "login", "failed_login"}
      /\ account'[e] = Written(account[e], u.old, u.new)
  BY <1>1, <1>2, WhatCommitsWrite DEF Commits, Active, NoRow
<1>4. u.old.active # u.new.active /\ u.new.active
  BY <1>3 DEF Written, Active
<1>5. u.old \in Row /\ u.new \in Row /\ Plausible(u.op, u.old, u.new)
  BY DEF IInv, TypeOK, Unit, UnitsPlausible
<1>6. ~u.old.active
  BY <1>4, <1>5 DEF Row
<1>7. u.op = "update"
  BY <1>3, <1>4, <1>5, <1>6 DEF Plausible, Row
<1>8. QED
  BY <1>2, <1>6, <1>7

\* A request that is alone leaves no active account at or over the limit.
LEMMA StepsKeepTheLimit ==
  ASSUME IInv, [Next]_vars, NEW e \in Emails,
         Active(account'[e]), account'[e].failed >= MAX_FAILED_ATTEMPTS,
         account'[e] # account[e]
  PROVE  \E r \in Requests : Commits(r) /\ request[r].email = e /\ ~request[r].alone
<1>1. NewRow.failed = 0 /\ ~(0 >= MAX_FAILED_ATTEMPTS) /\ ~NoRow.active
  BY AccountsAssumption DEF NewRow, NoRow
<1>2. PICK r \in Requests : /\ Commits(r) /\ request[r].email = e /\ ~Refused(request[r])
                            /\ account'[e] = Result(request[r])
  BY <1>1, OnlyCommitsChange
<1> DEFINE u == request[r]
<1>3. /\ u.op \in {"update", "password", "login", "failed_login"}
      /\ u.old.exists /\ u.old # u.new
      /\ account'[e] = Written(account[e], u.old, u.new)
  BY <1>1, <1>2, WhatCommitsWrite DEF Commits, Active
<1>4. u.old \in Row /\ u.new \in Row /\ Plausible(u.op, u.old, u.new)
  BY DEF IInv, TypeOK, Unit, UnitsPlausible
<1>5. SUFFICES ASSUME u.alone PROVE FALSE
  BY <1>2
<1>6. account[e] = u.old
  BY <1>2, <1>3, <1>5 DEF IInv, AloneIsFresh, Commits
<1>7. account'[e].active = u.new.active /\ account'[e].failed = u.new.failed
  BY <1>3, <1>6 DEF Written
<1>8. u.new.active /\ u.new.failed >= MAX_FAILED_ATTEMPTS
  BY <1>7 DEF Active
<1>9. u.new.failed \in Nat /\ u.old.failed \in Nat
  BY <1>4 DEF Row, Counts
<1>10. CASE u.op = "failed_login"
  <2>1. u.new = [u.old EXCEPT !.failed = @ + 1,
                              !.active = @ /\ u.old.failed + 1 < MAX_FAILED_ATTEMPTS]
    BY <1>4, <1>10 DEF Plausible
  <2>2. u.new.failed = u.old.failed + 1
    BY <1>4, <2>1 DEF Row
  <2>3. u.new.active = (u.old.active /\ u.old.failed + 1 < MAX_FAILED_ATTEMPTS)
    BY <1>4, <2>1, Zenon DEF Row
  <2>4. u.old.failed + 1 < MAX_FAILED_ATTEMPTS
    BY <1>8, <2>3
  <2>5. QED
    BY <1>8, <1>9, <2>2, <2>4, AccountsAssumption
<1>11. CASE u.op \in {"password", "login"}
  BY <1>1, <1>4, <1>8, <1>11 DEF Plausible, Row
<1>12. CASE u.op = "update"
  BY <1>1, <1>3, <1>4, <1>8, <1>12 DEF Plausible, Row
<1>13. QED
  BY <1>3, <1>10, <1>11, <1>12

\* A request that is alone, and no failed login, leaves the team an account.
LEMMA StepsKeepAccess ==
  ASSUME IInv, [Next]_vars, NEW m \in Teams,
         \E e \in Emails : TeamOf[e] = m /\ Active(account[e]),
         \A e \in Emails : TeamOf[e] = m => ~Active(account'[e])
  PROVE  \E r \in Requests : /\ Commits(r) /\ TeamOf[request[r].email] = m
                             /\ request[r].op = "failed_login" \/ ~request[r].alone
<1>1. PICK e \in Emails : TeamOf[e] = m /\ Active(account[e])
  OBVIOUS
<1>2. ~Active(account'[e]) /\ account'[e] # account[e]
  BY <1>1
<1>3. PICK r \in Requests : /\ Commits(r) /\ request[r].email = e /\ ~Refused(request[r])
                            /\ account'[e] = Result(request[r])
                            /\ \A f \in Emails : f # e => account'[f] = account[f]
  BY <1>1, <1>2, OnlyCommitsChange DEF Active
<1> DEFINE u == request[r]
<1>4. SUFFICES ASSUME u.alone, u.op # "failed_login" PROVE FALSE
  BY <1>1, <1>3
<1>5. u.old \in Row /\ u.new \in Row /\ Plausible(u.op, u.old, u.new)
  BY DEF IInv, TypeOK, Unit, UnitsPlausible
<1>6. \/ u.op = "delete" /\ u.old.exists
      \/ /\ u.op \in {"update", "password", "login"} /\ u.old.exists
         /\ account'[e] = Written(account[e], u.old, u.new)
  BY <1>1, <1>2, <1>3, <1>4, WhatCommitsWrite DEF Commits, Active
<1>7. account[e] = u.old
  BY <1>3, <1>4, <1>6 DEF IInv, AloneIsFresh, Commits
<1>8. u.op = "delete" \/ (u.op = "update" /\ ~u.new.active)
  <2>1. CASE u.op \in {"update", "password", "login"}
    <3>1. account'[e].exists = u.old.exists /\ account'[e].active = u.new.active
      BY <1>6, <1>7, <2>1 DEF Written
    <3>2. ~u.new.active
      BY <1>2, <1>6, <3>1 DEF Active
    <3>3. u.old.active
      BY <1>1, <1>7 DEF Active
    <3>4. QED
      BY <1>5, <2>1, <3>2, <3>3 DEF Plausible, Row
  <2>2. QED
    BY <1>6, <2>1
<1>9. PICK f \in Emails : f # e /\ SameTeam(f, e) /\ Active(account[f])
  BY <1>1, <1>3, <1>4, <1>7, <1>8 DEF IInv, AloneLeavesAnother
<1>10. QED
  BY <1>1, <1>3, <1>9 DEF SameTeam

\* LockStays, for any instance: no login, password, edit or seed that loaded an
\* account before it was deactivated activates it again.
THEOREM LocksStay == Spec => LockStays
<1>1. IInv /\ [Next]_vars =>
        [\A e \in Emails :
           account[e].exists /\ ~account[e].active /\ Active(account'[e])
             => \E r \in Requests : /\ Commits(r) /\ request[r].email = e
                                    /\ request[r].op = "update" /\ ~request[r].old.active]_vars
  BY StepsKeepLocks
<1>2. QED
  BY <1>1, Invariant, PTL DEF Spec, LockStays

\* ActiveWithinLimit, for any instance and any limit: requests that do not
\* overlap never leave an account active past MAX_FAILED_ATTEMPTS.
THEOREM LimitsHold == Spec => ActiveWithinLimit
<1>1. IInv /\ [Next]_vars =>
        [\A e \in Emails :
           /\ Active(account'[e]) /\ account'[e].failed >= MAX_FAILED_ATTEMPTS
           /\ account'[e] # account[e]
           => \/ Active(account[e]) /\ account[e].failed >= MAX_FAILED_ATTEMPTS
              \/ \E r \in Requests : Commits(r) /\ request[r].email = e /\ ~request[r].alone]_vars
  BY StepsKeepTheLimit
<1>2. QED
  BY <1>1, Invariant, PTL DEF Spec, ActiveWithinLimit

\* TeamKeepsAccess, for any instance: _assert_not_last_active is enough for
\* requests that do not overlap.
THEOREM TeamsKeepAccess == Spec => TeamKeepsAccess
<1>1. IInv /\ [Next]_vars =>
        [\A m \in Teams :
           /\ \E e \in Emails : TeamOf[e] = m /\ Active(account[e])
           /\ \A e \in Emails : TeamOf[e] = m => ~Active(account'[e])
           => \E r \in Requests : /\ Commits(r) /\ TeamOf[request[r].email] = m
                                  /\ request[r].op = "failed_login" \/ ~request[r].alone]_vars
  BY StepsKeepAccess
<1>2. QED
  BY <1>1, Invariant, PTL DEF Spec, TeamKeepsAccess

===============================================================================
