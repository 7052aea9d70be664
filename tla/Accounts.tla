------------------------------- MODULE Accounts -------------------------------
(***************************************************************************)
(* UserService and the login of people: the accounts of the teams.  A      *)
(* request loads an account at one step (a login spends its hash there)    *)
(* and commits at a second; other requests and the seed step in between,   *)
(* under READ COMMITTED.  An account is known by its email.                *)
(***************************************************************************)
EXTENDS Naturals, FiniteSets

CONSTANTS
  Emails,
  Teams,              \* modules
  Admin,              \* the one with is_admin
  TeamOf,             \* email -> team
  Initial,            \* emails the seed creates
  NoEmail,
  Requests,           \* concurrent requests
  MAX_FAILED_ATTEMPTS,
  MaxRequests,        \* bound: requests served
  MaxSeeds            \* bound: runs of the seed

ASSUME AccountsAssumption ==
  /\ IsFiniteSet(Emails) /\ TeamOf \in [Emails -> Teams]
  /\ Admin \in Teams /\ Initial \subseteq Emails /\ NoEmail \notin Emails
  /\ MAX_FAILED_ATTEMPTS \in Nat \ {0}
  /\ MaxRequests \in Nat /\ MaxSeeds \in Nat

VARIABLES
  account,       \* email -> its row of users
  request,       \* request -> its unit of work
  asked, seeds   \* what the bounds count

vars == <<account, request, asked, seeds>>

\* Attempts are counted past the limit too; a request adds one at most.
Counts == 0..MaxRequests
Row == [exists: BOOLEAN, active: BOOLEAN, failed: Counts]
NoRow == [exists |-> FALSE, active |-> FALSE, failed |-> 0]
NewRow == [exists |-> TRUE, active |-> TRUE, failed |-> 0]

Operations == {"none", "create", "update", "password", "delete", "login", "failed_login"}

\* old, new:  the row as loaded and as it is going to be
\* gone:      another request deleted the row it holds
\* alone:     observation: no request about the same team overlapped with it
Unit == [op: Operations, email: Emails \cup {NoEmail}, old: Row, new: Row,
         gone: BOOLEAN, alone: BOOLEAN]

NoUnit == [op |-> "none", email |-> NoEmail, old |-> NoRow, new |-> NoRow,
           gone |-> FALSE, alone |-> TRUE]

Idle(r) == request[r].op = "none"

Init ==
  /\ account \in [Emails -> {NoRow, NewRow}]
  /\ request = [r \in Requests |-> NoUnit]
  /\ asked = 0 /\ seeds = 0

-----------------------------------------------------------------------------
(* Units of work.                                                          *)

SameTeam(e, f) == TeamOf[e] = TeamOf[f]

Overlapping(r, e) == {q \in Requests \ {r} : ~Idle(q) /\ SameTeam(request[q].email, e)}

Begin(r, op, e, new) ==
  LET others == Overlapping(r, e) IN
  /\ Idle(r) /\ asked < MaxRequests
  /\ request' = [q \in Requests |->
       IF q = r THEN [op |-> op, email |-> e, old |-> account[e], new |-> new,
                      gone |-> FALSE, alone |-> others = {}]
       ELSE IF q \in others THEN [request[q] EXCEPT !.alone = FALSE]
       ELSE request[q]]
  /\ asked' = asked + 1
  /\ UNCHANGED <<account, seeds>>

count_active_in_module(m) ==
  Cardinality({e \in Emails : TeamOf[e] = m /\ account[e].exists /\ account[e].active})

NotLastActive_without_count(e) == TRUE

\* _assert_not_last_active
NotLastActive(e) == account[e].active => count_active_in_module(TeamOf[e]) > 1

CanActOn(actor, e) == actor = Admin \/ actor = TeamOf[e]

-----------------------------------------------------------------------------
(* UserService and login: the guards, and what will be written.            *)

create(r, actor, e) ==
  /\ CanActOn(actor, e) /\ ~account[e].exists
  /\ Begin(r, "create", e, NewRow)

\* Asking for the state it is in changes nothing.
update(r, actor, e, active) ==
  /\ CanActOn(actor, e) /\ account[e].exists
  /\ (account[e].active /\ ~active) => NotLastActive(e)
  /\ Begin(r, "update", e,
           IF active = account[e].active THEN account[e]
           ELSE IF active THEN [account[e] EXCEPT !.active = TRUE, !.failed = 0]
           ELSE [account[e] EXCEPT !.active = FALSE])

set_password(r, actor, e) ==
  /\ CanActOn(actor, e) /\ account[e].exists
  /\ Begin(r, "password", e, [account[e] EXCEPT !.failed = 0])

delete(r, actor, e) ==
  /\ CanActOn(actor, e) /\ account[e].exists /\ NotLastActive(e)
  /\ Begin(r, "delete", e, NoRow)

\* The password is right: an inactive account, or one of an inactive module, is
\* refused, and nothing changes.
login(r, e) ==
  /\ account[e].exists /\ account[e].active
  /\ Begin(r, "login", e, [account[e] EXCEPT !.failed = 0])

record_failed_login_only_counts(r, e) ==
  Begin(r, "failed_login", e, [account[e] EXCEPT !.failed = @ + 1])

record_failed_login_twice(r, e) ==
  Begin(r, "failed_login", e,
        [account[e] EXCEPT !.failed = @ + 2,
                           !.active = @ /\ account[e].failed + 2 < MAX_FAILED_ATTEMPTS])

record_failed_login(r, e) ==
  Begin(r, "failed_login", e,
        [account[e] EXCEPT !.failed = @ + 1,
                           !.active = @ /\ account[e].failed + 1 < MAX_FAILED_ATTEMPTS])

\* The password is wrong, whether or not the account is active.
failed_login(r, e) == account[e].exists /\ record_failed_login(r, e)

-----------------------------------------------------------------------------
(* The API.                                                                *)

post_user(r) == \E actor \in Teams, e \in Emails : create(r, actor, e)

patch_user(r) == \E actor \in Teams, e \in Emails, active \in BOOLEAN : update(r, actor, e, active)

put_password(r) == \E actor \in Teams, e \in Emails : set_password(r, actor, e)

delete_user(r) == \E actor \in Teams, e \in Emails : delete(r, actor, e)

post_login(r) == \E e \in Emails : login(r, e) \/ failed_login(r, e)

(* The commit.                                                             *)

Written_whole(current, old, new) == new

\* An UPDATE names the columns that changed, and only those.
Written(current, old, new) ==
  [exists |-> current.exists,
   active |-> IF old.active # new.active THEN new.active ELSE current.active,
   failed |-> IF old.failed # new.failed THEN new.failed ELSE current.failed]

\* The unique index refuses a second account; an UPDATE of a row that is gone
\* matches none and raises.
Refused(u) ==
  \/ u.op = "create" /\ account[u.email].exists
  \/ u.gone /\ u.op # "delete" /\ u.old # u.new

Result(u) ==
  CASE u.op = "create" -> NewRow
    [] u.op = "delete" -> IF u.gone THEN account[u.email] ELSE NoRow
    [] OTHER -> IF u.old = u.new THEN account[u.email]
                ELSE Written(account[u.email], u.old, u.new)

Commit(r) ==
  LET u == request[r]
      deletes == u.op = "delete" /\ ~u.gone
  IN
  /\ ~Idle(r)
  /\ account' = IF Refused(u) THEN account ELSE [account EXCEPT ![u.email] = Result(u)]
  /\ request' = [q \in Requests |->
       IF q = r THEN NoUnit
       ELSE IF deletes /\ request[q].email = u.email /\ request[q].old.exists
            THEN [request[q] EXCEPT !.gone = TRUE]
       ELSE request[q]]
  /\ UNCHANGED <<asked, seeds>>

\* One initial account per team, if its email is free.
seed_user(e) == IF account[e].exists THEN account[e] ELSE NewRow

seed ==
  /\ seeds < MaxSeeds
  /\ account' = [e \in Emails |-> IF e \in Initial THEN seed_user(e) ELSE account[e]]
  /\ seeds' = seeds + 1
  /\ UNCHANGED <<request, asked>>

Serve(r) ==
  \/ post_user(r)
  \/ patch_user(r)
  \/ put_password(r)
  \/ delete_user(r)
  \/ post_login(r)
  \/ Commit(r)

Next == (\E r \in Requests : Serve(r)) \/ seed

Spec == Init /\ [][Next]_vars

-----------------------------------------------------------------------------
(* Properties.                                                             *)

\* Type invariant of the accounts and their requests.
TypeOK ==
  /\ account \in [Emails -> Row]
  /\ request \in [Requests -> Unit]
  /\ asked \in 0..MaxRequests /\ seeds \in 0..MaxSeeds

Commits(r) == ~Idle(r) /\ request'[r].op = "none"

Active(row) == row.exists /\ row.active

\* "No se puede desactivar la unica cuenta activa de un equipo": a team loses
\* its last active account only to failed logins, unless requests about the
\* team overlapped (_assert_not_last_active counts, and writes later).
TeamKeepsAccess ==
  [][\A m \in Teams :
       /\ \E e \in Emails : TeamOf[e] = m /\ Active(account[e])
       /\ \A e \in Emails : TeamOf[e] = m => ~Active(account'[e])
       => \E r \in Requests : /\ Commits(r) /\ TeamOf[request[r].email] = m
                              /\ request[r].op = "failed_login" \/ ~request[r].alone]_vars

\* An account is active with MAX_FAILED_ATTEMPTS or more failures on its count
\* only if requests about the team overlapped: a reactivation, a password or a
\* login in order always leaves the attempts it promises.
ActiveWithinLimit ==
  [][\A e \in Emails :
       /\ Active(account'[e]) /\ account'[e].failed >= MAX_FAILED_ATTEMPTS
       /\ account'[e] # account[e]
       => \/ Active(account[e]) /\ account[e].failed >= MAX_FAILED_ATTEMPTS
          \/ \E r \in Requests : Commits(r) /\ request[r].email = e /\ ~request[r].alone]_vars

\* An account that was deactivated, by a person or by failed logins, is active
\* again only when somebody who saw it inactive reactivates it: not by a login,
\* a password or an edit that loaded it before, and not by the seed.
LockStays ==
  [][\A e \in Emails :
       account[e].exists /\ ~account[e].active /\ Active(account'[e])
         => \E r \in Requests : /\ Commits(r) /\ request[r].email = e
                                /\ request[r].op = "update" /\ ~request[r].old.active]_vars

-----------------------------------------------------------------------------
(* What holds besides: the parts of the inductive invariant of the proofs. *)

\* No count is ahead of the requests served, and only a working request has an
\* email.
Counted ==
  /\ \A e \in Emails : account[e].failed <= asked
  /\ \A r \in Requests :
       LET u == request[r] IN
       /\ u.old.failed <= asked /\ u.new.failed <= asked
       /\ ~Idle(r) => u.email \in Emails

\* What each operation may write, given what it loaded.
Plausible(op, old, new) ==
  /\ op \notin {"none", "create"} => old.exists
  /\ op \in {"password", "login"} => new = [old EXCEPT !.failed = 0]
  /\ op = "failed_login" =>
       new = [old EXCEPT !.failed = @ + 1,
                         !.active = @ /\ old.failed + 1 < MAX_FAILED_ATTEMPTS]
  /\ op = "update" =>
       \/ new = old
       \/ new = [old EXCEPT !.active = FALSE]
       \/ ~old.active /\ new = [old EXCEPT !.active = TRUE, !.failed = 0]

UnitsPlausible ==
  \A r \in Requests : Plausible(request[r].op, request[r].old, request[r].new)

\* Requests about one team that overlap both know.
OverlapsKnown ==
  \A r, q \in Requests :
    r # q /\ ~Idle(r) /\ ~Idle(q) /\ SameTeam(request[r].email, request[q].email)
      => ~request[r].alone

\* A request that is alone has what it loaded still before it.
AloneIsFresh ==
  \A r \in Requests :
    LET u == request[r] IN
    ~Idle(r) /\ u.alone /\ u.old.exists => ~u.gone /\ account[u.email] = u.old

\* And if it takes access away, somebody of the team keeps it.
AloneLeavesAnother ==
  \A r \in Requests :
    LET u == request[r] IN
    /\ u.alone /\ Active(u.old)
    /\ u.op = "delete" \/ (u.op = "update" /\ ~u.new.active)
    => \E f \in Emails : f # u.email /\ SameTeam(f, u.email) /\ Active(account[f])

IInv ==
  /\ TypeOK /\ Counted /\ UnitsPlausible /\ OverlapsKnown /\ AloneIsFresh /\ AloneLeavesAnother

===============================================================================
