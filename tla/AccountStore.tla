----------------------------- MODULE AccountStore -----------------------------
(***************************************************************************)
(* What the users API promises, whatever happens inside it: each request   *)
(* changes at most one account, in one step, between its arrival and its   *)
(* answer, in the way its route says; a refusal is true of the table at    *)
(* the moment it is given and comes with no change; and a client that gets *)
(* no answer, or a 5xx, cannot tell which.                                 *)
(*                                                                         *)
(* Users implements this specification with statements, transactions and   *)
(* row locks.                                                              *)
(***************************************************************************)
EXTENDS UserRows

VARIABLES users,     \* the accounts
          phase,     \* "idle", "open" or "done"
          op, uid, arg,
          resp,
          applied    \* requests that have made their change

vars == <<users, phase, op, uid, arg, resp, applied>>

Init == /\ users \in Tables /\ DistinctEmails(users)
        /\ phase = [r \in Requests |-> "idle"]
        /\ op = [r \in Requests |-> "get"]
        /\ uid = [r \in Requests |-> Null]
        /\ arg = [r \in Requests |-> NoPatch]
        /\ resp = [r \in Requests |-> 0]
        /\ applied = {}

Asks == UNION {[S -> Emails \cup BOOLEAN \cup {Null}] : S \in SUBSET {"email", "active"}}

Send(r) ==
  /\ phase[r] = "idle"
  /\ phase' = [phase EXCEPT ![r] = "open"]
  /\ \E k \in Kinds : op' = [op EXCEPT ![r] = k]
  /\ \E i \in Ids \cup {Null} : uid' = [uid EXCEPT ![r] = i]
  /\ \E a \in Asks : arg' = [arg EXCEPT ![r] = a]
  /\ UNCHANGED <<users, resp, applied>>

\* The account a request by email is about.
Resolve(r) ==
  /\ phase[r] = "open" /\ op[r] \in ByEmail /\ uid[r] = Null
  /\ \E i \in Ids : /\ LiveIn(users, i) /\ users[i].email = arg[r].email
                    /\ uid' = [uid EXCEPT ![r] = i]

\* What the change of each route may do to its account: t is the table after it.
Changes(r, t) ==
  LET id == uid[r] IN
  CASE op[r] = "create" ->
         /\ id \notin DOMAIN users
         /\ t = Overwrite(users, id, [email |-> arg[r].email, active |-> TRUE,
                                      deleted |-> Null])
    [] op[r] = "update" ->
         /\ id \in DOMAIN users
         /\ \E S \in SUBSET DOMAIN arg[r] :
              t = Overwrite(users, id, [c \in S |-> arg[r][c]])
    [] op[r] = "deactivate" ->
         /\ Status(users, id) = "active"
         /\ t = Overwrite(users, id, [active |-> FALSE])
    [] op[r] \in {"delete", "delete_by_email"} ->
         /\ id \in DOMAIN users
         /\ t = Overwrite(users, id, [deleted |-> r])
    [] OTHER -> FALSE

Change(r) ==
  /\ phase[r] = "open" /\ r \notin applied
  /\ \E t \in Tables : Changes(r, t) /\ users' = t
  /\ DistinctEmails(users')
  /\ applied' = applied \cup {r}

\* When a code may be sent: a success only after the change, a refusal only when
\* it is true and nothing was changed, an unknown outcome (5xx, no answer) always.
MaySend(r, code) ==
  \/ code \in {0, ErrorCode(op[r])}
  \/ code = SuccessCode(op[r]) /\ (op[r] \in {"get", "get_by_email"} \/ r \in applied')
  \/ code = 404 /\ op[r] \notin {"create"} /\ (op[r] = "deactivate" \/ r \notin applied')
     /\ IF uid[r] = Null THEN ~\E i \in DOMAIN users : LiveIn(users, i) /\ users[i].email = arg[r].email
        ELSE ~LiveIn(users, uid[r])
  \/ code = 409 /\ op[r] = "create" /\ r \notin applied'
     /\ \E i \in DOMAIN users : users[i].email = arg[r].email
  \/ code = 409 /\ op[r] = "deactivate" /\ r \notin applied'

Reply(r) ==
  /\ phase[r] = "open"
  /\ \E code \in Codes \cup {0} : MaySend(r, code) /\ resp' = [resp EXCEPT ![r] = code]
  /\ phase' = [phase EXCEPT ![r] = "done"]

Next == \E r \in Requests :
          \/ Send(r)
          \/ (Resolve(r) \/ UNCHANGED uid) /\ (Change(r) \/ UNCHANGED <<users, applied>>)
             /\ (Reply(r) \/ UNCHANGED <<phase, resp>>) /\ UNCHANGED <<op, arg>>

Spec == Init /\ [][Next]_vars
=============================================================================
