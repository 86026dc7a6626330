-------------------------------- MODULE Users --------------------------------
(***************************************************************************)
(* The users API: the request handlers of src/src/users/router.py and the  *)
(* CRUD functions of src/src/users/crud.py they await, run concurrently    *)
(* against one users table.                                                *)
(*                                                                         *)
(* Every request has its own AsyncSession (db/session.py get_db) and so    *)
(* its own transaction on Postgres, READ COMMITTED.  One action is one     *)
(* statement the handler awaits; between two statements any other request  *)
(* may run.  A statement sees the committed table.  A write waits for its  *)
(* row, then, holding it, for the unique email it needs, and keeps both    *)
(* until COMMIT or ROLLBACK; the UPDATE of a PUT is two steps for that.    *)
(*                                                                         *)
(* Requests refused before they reach the database (400, 403, 422) touch   *)
(* nothing and are left out.                                               *)
(***************************************************************************)
EXTENDS UserRows, FiniteSets

CONSTANTS Offered,    \* the routes clients use
          Bodies      \* PUT bodies: functions from the fields set to their values

\* UserUpdate: any of the fields, each possibly null; full_name is left out.
ASSUME BodiesAreUpdates ==
  \A b \in Bodies :
    \E S \in SUBSET {"email", "active"} :
      /\ b \in [S -> Emails \cup BOOLEAN \cup {Null}]
      /\ "email" \in S => b["email"] \in Emails \cup {Null}
      /\ "active" \in S => b["active"] \in BOOLEAN \cup {Null}

ASSUME OfferedAreKinds == Offered \subseteq Kinds

VARIABLES users,      \* the committed table: a function from ids to rows
          pc,         \* the statement each handler awaits next
          op,         \* which handler the request runs
          uid,        \* user_id: the path parameter, or the row found by email
          arg,        \* the body or query: a function from field to value
          seen,       \* the session's loaded User, with its loaded attributes
          patch,      \* columns flushed to the database and not yet committed
          resp,       \* status code sent to the client, 0 for none
          applied,    \* history: requests whose write has been committed
          before,     \* history: requests answered before this one was sent
          was         \* history: statuses of row uid since the request began

table    == <<users, applied>>
vars     == <<users, pc, op, uid, arg, seen, patch, resp, applied, before, was>>

-----------------------------------------------------------------------------
Steps == {"read", "lookup", "write", "index", "explain", "commit", "reload", "refresh"}
Live(id) == LiveIn(users, id)

\* Mutant: the unique index covers live rows only.
TakenByLive(id, e) == \E i \in DOMAIN users \ {id} : Live(i) /\ users[i].email = e

\* Another row than id carries the email.
Taken(id, e) == \E i \in DOMAIN users \ {id} : users[i].email = e

\* q has a row version in the database that is neither committed nor undone.
Writing(q) == pc[q] \in {"index", "commit"} /\ DOMAIN patch[q] # {}

\* The email q has entered in the unique index.
Entered(q, e) == pc[q] = "commit" /\ "email" \in DOMAIN patch[q] /\ patch[q].email = e

RowBusy(r, id) == \E q \in Requests \ {r} : Writing(q) /\ uid[q] = id

\* The unique index makes a writer of e wait for a transaction that holds an
\* uncommitted version of a row carrying e, before or after its change.
HoldsEmail(q, e) ==
  \/ Entered(q, e)
  \/ Writing(q) /\ uid[q] \in DOMAIN users /\ users[uid[q]].email = e
EmailBusy(r, e) == \E q \in Requests \ {r} : HoldsEmail(q, e)

\* Writers that wait for one another in the unique index, each with its row locked.
Waits(r, q) == pc[r] = "index" /\ q # r /\ HoldsEmail(q, patch[r].email)
Deadlocked(r) ==
  \E S \in SUBSET Requests :
    r \in S /\ \A q \in S : (\E p \in S : Waits(q, p)) /\ (\E p \in S : Waits(p, q))

-----------------------------------------------------------------------------
\* The table is one an earlier history of requests can have left behind.
Init == /\ users \in {t \in Tables : DistinctEmails(t)}
        /\ \A i \in DOMAIN users : users[i].deleted \in {Null, Earlier}
        /\ pc = [r \in Requests |-> "idle"]
        /\ op = [r \in Requests |-> "get"]
        /\ uid = [r \in Requests |-> Null]
        /\ arg = [r \in Requests |-> NoPatch]
        /\ seen = [r \in Requests |-> Null]
        /\ patch = [r \in Requests |-> NoPatch]
        /\ resp = [r \in Requests |-> 0]
        /\ applied = {}
        /\ before = [r \in Requests |-> {}]
        /\ was = [r \in Requests |-> {}]

\* The request ends with this answer: the session closes, which rolls back
\* whatever it had flushed and not committed.
Answer(r, code) ==
  /\ pc' = [pc EXCEPT ![r] = "done"]
  /\ resp' = [resp EXCEPT ![r] = code]
  /\ seen' = [seen EXCEPT ![r] = Null]
  /\ patch' = [patch EXCEPT ![r] = NoPatch]

Goto(r, step) ==
  /\ pc' = [pc EXCEPT ![r] = step]
  /\ UNCHANGED resp

\* COMMIT: the flushed columns become the row every later statement sees.
Install(r) ==
  /\ users' = IF DOMAIN patch[r] = {} THEN users
              ELSE Overwrite(users, uid[r], patch[r])
  /\ applied' = applied \cup {r}
  /\ was' = [q \in Requests |->
               IF pc[q] \in Steps THEN was[q] \cup {Status(users', uid[q])}
               ELSE was[q]]

-----------------------------------------------------------------------------
\* A request arrives, and the handler is entered with its session.
FirstStep(k) == CASE k \in {"create", "deactivate"} -> "write"
                  [] k \in ByEmail                  -> "lookup"
                  [] OTHER                          -> "read"

\* Primary keys of inserts under way, which no client can know yet, and the keys
\* a new uuid4 is drawn from: it equals no key in use or asked for.
Unborn   == {uid[q] : q \in {p \in Requests : op[p] = "create" /\ pc[p] \in Steps}}
FreshIds == Ids \ (DOMAIN users \cup {uid[q] : q \in Requests})

Inputs(k) == CASE k = "create"  -> FreshIds \X [{"email"} -> Emails]
               [] k \in ByEmail -> {Null} \X [{"email"} -> Emails]
               [] k = "update"  -> (Ids \ Unborn) \X Bodies
               [] OTHER         -> (Ids \ Unborn) \X {NoPatch}

Begin(r) ==
  /\ pc[r] = "idle"
  /\ \E k \in Offered : \E in \in Inputs(k) :
       /\ op' = [op EXCEPT ![r] = k]
       /\ uid' = [uid EXCEPT ![r] = in[1]]
       /\ arg' = [arg EXCEPT ![r] = in[2]]
       /\ was' = [was EXCEPT ![r] = {Status(users, in[1])}]
       /\ Goto(r, FirstStep(k))
  /\ before' = [before EXCEPT ![r] = {q \in Requests : pc[q] = "done"}]
  /\ UNCHANGED <<table, seen, patch>>

\* crud.create_user, flush and refresh.  The email is unique over all rows,
\* deleted ones too; a duplicate is an IntegrityError, answered 409.
Insert(r) ==
  /\ pc[r] = "write" /\ op[r] = "create"
  /\ ~EmailBusy(r, arg[r].email)
  /\ \/ Taken(uid[r], arg[r].email) /\ Answer(r, 409)
     \/ /\ ~Taken(uid[r], arg[r].email)
        /\ patch' = [patch EXCEPT ![r] = [email |-> arg[r].email, active |-> TRUE,
                                          deleted |-> Null]]
        /\ Goto(r, "commit")
        /\ UNCHANGED seen
  /\ UNCHANGED <<table, op, uid, arg, before, was>>

\* crud.get_user: the whole GET handler, or the first read of PUT and DELETE.
\* DELETE by email has the row in its identity map already: the second SELECT
\* decides whether the row is still live, not what its attributes are.
GetUser(r) ==
  /\ pc[r] = "read"
  /\ \/ ~Live(uid[r]) /\ Answer(r, 404)
     \/ Live(uid[r]) /\ op[r] = "get" /\ Answer(r, 200)
     \/ /\ Live(uid[r]) /\ op[r] # "get"
        /\ seen' = [seen EXCEPT ![r] = IF @ = Null THEN users[uid[r]] ELSE @]
        /\ Goto(r, "write")
        /\ UNCHANGED patch
  /\ UNCHANGED <<table, op, uid, arg, before, was>>

\* crud.get_user_by_email, for GET and for DELETE by email.
GetUserByEmail(r) ==
  LET found == {i \in Ids : Live(i) /\ users[i].email = arg[r].email} IN
  /\ pc[r] = "lookup"
  /\ \/ found = {} /\ Answer(r, 404) /\ UNCHANGED <<uid, was>>
     \/ /\ \E id \in found :
             /\ uid' = [uid EXCEPT ![r] = id]
             /\ was' = [was EXCEPT ![r] = {Status(users, id)}]
             /\ \/ op[r] = "get_by_email" /\ Answer(r, 200)
                \/ /\ op[r] = "delete_by_email"
                   /\ seen' = [seen EXCEPT ![r] = users[id]]
                   /\ Goto(r, "read")
                   /\ UNCHANGED patch
  /\ UNCHANGED <<table, op, arg, before>>

\* Mutant: the whole loaded object is written back.
WholeRow(r) == [c \in Columns |-> IF c \in DOMAIN arg[r] THEN arg[r][c] ELSE seen[r][c]]

\* The attributes whose value differs from the loaded one: all an ORM flush
\* writes.
NetChange(r) == [c \in {d \in DOMAIN arg[r] : arg[r][d] # seen[r][d]} |-> arg[r][c]]

\* Mutant: no column is declared NOT NULL.
RefusesNothing(change) == FALSE

\* The NOT NULL of email and is_active, checked before the row is locked.
RefusesNull(change) == \E c \in DOMAIN change \ {"deleted"} : change[c] = Null

\* crud.update_user, flush: UPDATE ... WHERE id = :id with the net change, or no
\* statement when there is none.  It locks the row; a new email still has to be
\* entered in the unique index.  A refusal of the database is an IntegrityError,
\* which nothing in crud or router turns into a 4xx.
FlushUpdate(r) ==
  LET change == NetChange(r) IN
  /\ pc[r] = "write" /\ op[r] = "update"
  /\ \/ RefusesNull(change) /\ Answer(r, ErrorCode("update"))
     \/ /\ ~RefusesNull(change)
        /\ DOMAIN change # {} => ~RowBusy(r, uid[r])
        /\ patch' = [patch EXCEPT ![r] = change]
        /\ Goto(r, IF "email" \in DOMAIN change THEN "index" ELSE "commit")
        /\ UNCHANGED seen
  /\ UNCHANGED <<table, op, uid, arg, before, was>>

\* The same UPDATE, its row locked, reaches the unique index of the email.
EnterIndex(r) ==
  /\ pc[r] = "index"
  /\ ~EmailBusy(r, patch[r].email)
  /\ \/ Taken(uid[r], patch[r].email) /\ Answer(r, ErrorCode("update"))
     \/ /\ ~Taken(uid[r], patch[r].email)
        /\ Goto(r, "commit")
        /\ UNCHANGED <<seen, patch>>
  /\ UNCHANGED <<table, op, uid, arg, before, was>>

\* PostgreSQL finds writers that wait for one another (deadlock_timeout) and aborts
\* one of them: an error of that UPDATE like any other.
BreakDeadlock(r) ==
  /\ Deadlocked(r)
  /\ Answer(r, ErrorCode("update"))
  /\ UNCHANGED <<table, op, uid, arg, before, was>>

\* Mutant: the WHERE clause of the claim does not ask for an active row.
ClaimableLive(r) == Live(uid[r])

Claimable(r) == Live(uid[r]) /\ users[uid[r]].active

\* crud.deactivate_user, the guarded UPDATE: it claims the row only where it is
\* live and active, after waiting for a writer that holds such a row.
Claim(r) ==
  LET match == Claimable(r) IN
  /\ pc[r] = "write" /\ op[r] = "deactivate"
  /\ match => ~RowBusy(r, uid[r])
  /\ \/ match /\ Goto(r, "commit") /\ patch' = [patch EXCEPT ![r] = [active |-> FALSE]]
     \/ ~match /\ Goto(r, "explain") /\ UNCHANGED patch
  /\ UNCHANGED <<table, op, uid, arg, seen, before, was>>

\* Mutant: a lost claim is taken to mean an inactive user.
ExplainBlindly(r) ==
  /\ pc[r] = "explain"
  /\ Answer(r, 409)
  /\ UNCHANGED <<table, op, uid, arg, before, was>>

\* Mutant: a lost claim is tried again.
ExplainByRetry(r) ==
  /\ pc[r] = "explain"
  /\ \/ ~Live(uid[r]) /\ Answer(r, 404)
     \/ Live(uid[r]) /\ Goto(r, "write") /\ UNCHANGED <<seen, patch>>
  /\ UNCHANGED <<table, op, uid, arg, before, was>>

\* crud.deactivate_user, rowcount 0: the SELECT that tells 404 from 409.
Explain(r) ==
  /\ pc[r] = "explain"
  /\ Answer(r, IF Live(uid[r]) THEN 409 ELSE 404)
  /\ UNCHANGED <<table, op, uid, arg, before, was>>

\* Mutant: a delete also clears is_active.
StampAndClear(r) ==
  /\ pc[r] = "write" /\ op[r] \in {"delete", "delete_by_email"}
  /\ ~RowBusy(r, uid[r])
  /\ patch' = [patch EXCEPT ![r] = [deleted |-> r, active |-> FALSE]]
  /\ Goto(r, "commit")
  /\ UNCHANGED <<table, op, uid, arg, seen, before, was>>

\* crud.delete_user, flush: UPDATE ... SET deleted_at = now WHERE id = :id.
\* The WHERE clause does not repeat "deleted_at IS NULL".
Stamp(r) ==
  /\ pc[r] = "write" /\ op[r] \in {"delete", "delete_by_email"}
  /\ ~RowBusy(r, uid[r])
  /\ patch' = [patch EXCEPT ![r] = [deleted |-> r]]
  /\ Goto(r, "commit")
  /\ UNCHANGED <<table, op, uid, arg, seen, before, was>>

\* Mutant: the handler answers and never commits.
CommitForgotten(r) ==
  /\ pc[r] = "commit"
  /\ Answer(r, SuccessCode(op[r]))
  /\ UNCHANGED <<table, op, uid, arg, before, was>>

\* db.commit(): the last statement of every writer but deactivate_user, which
\* goes on to read its row back in a new transaction.
Commit(r) ==
  /\ pc[r] = "commit"
  /\ Install(r)
  /\ \/ op[r] # "deactivate" /\ Answer(r, SuccessCode(op[r]))
     \/ /\ op[r] = "deactivate"
        /\ Goto(r, "reload")
        /\ patch' = [patch EXCEPT ![r] = NoPatch]
        /\ UNCHANGED seen
  /\ UNCHANGED <<op, uid, arg, before>>

\* crud.deactivate_user after its commit: get_user, then refresh.
Reload(r) ==
  /\ pc[r] = "reload"
  /\ \/ ~Live(uid[r]) /\ Answer(r, 404)
     \/ Live(uid[r]) /\ Goto(r, "refresh") /\ UNCHANGED <<seen, patch>>
  /\ UNCHANGED <<table, op, uid, arg, before, was>>

Refresh(r) ==
  /\ pc[r] = "refresh"
  /\ Answer(r, 200)
  /\ UNCHANGED <<table, op, uid, arg, before, was>>

\* The awaited statement fails (SQLAlchemyError: the connection is lost, the
\* pool times out) and the handler answers its error code;
\* or the process dies and the client gets no answer.
Fail(r) ==
  /\ pc[r] \in Steps
  /\ \E code \in {ErrorCode(op[r]), 0} : Answer(r, code)
  /\ UNCHANGED <<table, op, uid, arg, before, was>>

\* The server commits, but its acknowledgement, or the handler, is lost.
CommitUnacknowledged(r) ==
  /\ pc[r] = "commit"
  /\ Install(r)
  /\ \E code \in {ErrorCode(op[r]), 0} : Answer(r, code)
  /\ UNCHANGED <<op, uid, arg, before>>

\* What the event loop and the database carry on with once a request is in.
Proceed(r) ==
  \/ Insert(r) \/ GetUser(r) \/ GetUserByEmail(r) \/ FlushUpdate(r) \/ EnterIndex(r)
  \/ BreakDeadlock(r) \/ Claim(r) \/ Explain(r) \/ Stamp(r) \/ Commit(r) \/ Reload(r) \/ Refresh(r)

Finished == (\A r \in Requests : pc[r] = "done") /\ UNCHANGED vars

Next == \/ \E r \in Requests : Begin(r) \/ Proceed(r) \/ Fail(r) \/ CommitUnacknowledged(r)
        \/ Finished

Spec == Init /\ [][Next]_vars

\* Every statement the database can run is run: the event loop schedules each
\* task, a lock wait ends when its holder commits or the database breaks a
\* deadlock, and the connection wait is bounded (db_pool_timeout).  Nothing
\* makes a client send a request or a failure happen.
FairSpec == Spec /\ \A r \in Requests : WF_vars(Proceed(r))

-----------------------------------------------------------------------------
\* The state is well formed, and a stored row never breaks NOT NULL.
TypeOK ==
  /\ users \in Tables
  /\ pc \in [Requests -> {"idle", "done"} \cup Steps]
  /\ op \in [Requests -> Kinds]
  /\ uid \in [Requests -> Ids \cup {Null}]
  /\ DOMAIN arg = Requests
  /\ \A r \in Requests : DOMAIN arg[r] \subseteq {"email", "active"}
  /\ seen \in [Requests -> Row \cup {Null}]
  /\ DOMAIN patch = Requests
  /\ \A r \in Requests : DOMAIN patch[r] \subseteq Columns
  /\ resp \in [Requests -> Codes \cup {0}]
  /\ applied \subseteq Requests
  /\ before \in [Requests -> SUBSET Requests]
  /\ was \in [Requests -> SUBSET Statuses]

\* No two rows, live or deleted, ever carry the same email, although a create
\* or an update checks it one statement before it commits (uq_users_email).
EmailUnique == DistinctEmails(users)

\* However many deactivations of one account race, the ones that took effect
\* are at most one more than the reactivations by PUT that did: the claim of
\* crud.deactivate_user is never won twice for one activation.
Deactivations(id) == {r \in applied : op[r] = "deactivate" /\ uid[r] = id}
Reactivations(id) == {r \in applied : /\ op[r] = "update" /\ uid[r] = id
                                      /\ "active" \in DOMAIN arg[r] /\ arg[r].active = TRUE}
ClaimWonOncePerActivation ==
  \A id \in Ids : Cardinality(Deactivations(id)) <= 1 + Cardinality(Reactivations(id))

\* Every answer about an account was true of it at some moment between the
\* request and the answer, however the handler's statements interleave with
\* other requests: a 404 when it was absent or deleted, a 409 to a deactivation
\* when it was inactive, a success when it was live (deactivate: active).
AnswerJustified ==
  \A r \in Requests : pc[r] = "done" =>
    /\ resp[r] = 404 => was[r] \cap {"absent", "deleted"} # {}
    /\ resp[r] = 409 /\ op[r] = "deactivate" => "inactive" \in was[r]
    /\ resp[r] \in {200, 204} => was[r] \cap {"active", "inactive"} # {}
    /\ resp[r] = 200 /\ op[r] = "deactivate" => {"active", "inactive"} \subseteq was[r]

\* Once a client holds the 204 of a delete, no request sent after it finds that
\* account again, by any of these routes and in any interleaving with a PUT still under
\* way: a soft delete is final.
DeleteIsFinal ==
  \A r, q \in Requests :
    /\ r \in before[q] /\ resp[r] = 204
    /\ pc[q] = "done" /\ uid[q] = uid[r]
    => resp[q] \in {404, ErrorCode(op[q]), 0}

\* Once a client holds the 201 of a create, the account it names is found by
\* every later request, until some delete of it takes effect.
CreatedStaysFound ==
  \A r, q \in Requests :
    /\ r \in before[q] /\ resp[r] = 201
    /\ uid[q] = uid[r] /\ resp[q] = 404
    => \E d \in applied : op[d] \in {"delete", "delete_by_email"} /\ uid[d] = uid[r]

\* A commit changes, of one row, only columns its own request named: a PUT that
\* loaded the row before a deactivation, a delete or another PUT does not undo
\* it, and nothing clears deleted_at.
Named(r) == CASE op[r] = "create"     -> Columns
              [] op[r] = "update"     -> DOMAIN arg[r]
              [] op[r] = "deactivate" -> {"active"}
              [] op[r] \in {"delete", "delete_by_email"} -> {"deleted"}
              [] OTHER                -> {}
OnlyNamedColumns ==
  [][\A i \in DOMAIN users' : \A c \in Columns :
       i \notin DOMAIN users \/ users'[i][c] # users[i][c]
       => \E r \in applied' \ applied : uid[r] = i /\ c \in Named(r)]_vars

\* Every request that reaches its handler ends: no wait on a row or an email
\* lasts for ever, also when PUTs that exchange their emails each lock a row and
\* then wait for the other in the unique index.
EveryRequestEnds == \A r \in Requests : pc[r] # "idle" ~> pc[r] = "done"

\* The handlers, their transactions and their failures implement the promise.
Phase == [r \in Requests |-> CASE pc[r] = "idle" -> "idle"
                               [] pc[r] = "done" -> "done"
                               [] OTHER          -> "open"]
Store == INSTANCE AccountStore WITH phase <- Phase
ImplementsStore == Store!Spec

\* docs/API.md and the docstring of crud.delete_user: a user is deleted once;
\* deleting an already soft-deleted user returns 404.  Two deletes that both
\* read the row before either commits are both answered 204.
OneDeleteSucceeds ==
  \A r, q \in Requests :
    resp[r] = 204 /\ resp[q] = 204 /\ uid[r] = uid[q] => r = q
=============================================================================
