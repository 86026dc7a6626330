----------------------------- MODULE UsersProofs -----------------------------
(***************************************************************************)
(* The properties of the users API that hold for any number of requests,   *)
(* rows and emails, proved from the inductive invariant IInv.  Every       *)
(* action is one of a few kinds of step: a request arrives, a handler      *)
(* reads, flushes a change, commits it, or answers.  There is one lemma    *)
(* for each kind, and each action is shown to be steps of those kinds.     *)
(***************************************************************************)
EXTENDS UsersInvariant, FiniteSetTheorems, TLAPS

\* A code that a handler which has committed nothing may answer where it stands.
Truthful(r, code) ==
  /\ code \in {200, 404, 409, ErrorCode(op[r]), 0}
  /\ code = 200 => (Live(uid[r]) /\ op[r] # "deactivate") \/ pc[r] = "refresh"
  /\ code = 404 => ~Live(uid[r])
  /\ code = 409 => \/ op[r] = "create"
                   \/ op[r] = "deactivate" /\ pc[r] = "explain" /\ Live(uid[r])

\* A handler answers without a change of the table.
LEMMA AnswerKeeps ==
  ASSUME IInv, NEW r \in Requests, NEW code, pc[r] \in Steps,
         Truthful(r, code), Answer(r, code),
         UNCHANGED <<table, op, uid, arg, before, was>>
  PROVE  IInv'
<1>1. TypeOK'
  BY NullIsNoValue DEF IInv, TypeOK, Answer, Truthful, NoPatch, Codes, ErrorCode, table
<1>2. PlacesOK' /\ InputsOK' /\ KeysOK' /\ PatchOK'
  BY DEF IInv, TypeOK, PlacesOK, InputsOK, KeysOK, PatchOK, Answer, Steps, NoPatch, table
<1>3. FreshOK' /\ RowLocked' /\ EmailUnique' /\ EmailLocked'
  BY DEF IInv, TypeOK, FreshOK, RowLocked, EmailUnique, EmailLocked, Entered, Writing, Taken,
         Answer, NoPatch, table
<1>4. PastOK'
  BY DEF IInv, TypeOK, PastOK, Answer, Live, Steps, table
<1>5. AnsweredOK' /\ StampsOK'
  BY DEF IInv, TypeOK, AnsweredOK, StampsOK, Answer, Truthful, Steps, ErrorCode, table
<1>6. AnswerJustified'
  BY DEF IInv, TypeOK, AnswerJustified, PastOK, Answer, Truthful, ErrorCode, Live, LiveIn, Status, table
<1>7. DeletedOK'
  BY DEF PlacesOK, Deletes, IInv, TypeOK, DeletedOK, Answer, Truthful, Live, LiveIn, Steps, ErrorCode, table
<1>8. CreatedOK' /\ CreatedStaysFound'
  BY DEF IInv, TypeOK, CreatedOK, CreatedStaysFound, StampsOK, Answer, Truthful, ErrorCode, Live,
         LiveIn, Deletes, table
<1> QED BY <1>1, <1>2, <1>3, <1>4, <1>5, <1>6, <1>7, <1>8 DEF IInv

\* A request arrives.
LEMMA BeginKeeps ==
  ASSUME IInv, NEW r \in Requests, Begin(r)
  PROVE  IInv'
<1>k. PICK k \in Offered : \E in \in Inputs(k) :
        /\ op' = [op EXCEPT ![r] = k]
        /\ uid' = [uid EXCEPT ![r] = in[1]]
        /\ arg' = [arg EXCEPT ![r] = in[2]]
        /\ was' = [was EXCEPT ![r] = {Status(users, in[1])}]
        /\ Goto(r, FirstStep(k))
  BY DEF Begin
<1>in. PICK in \in Inputs(k) :
        /\ op' = [op EXCEPT ![r] = k]
        /\ uid' = [uid EXCEPT ![r] = in[1]]
        /\ arg' = [arg EXCEPT ![r] = in[2]]
        /\ was' = [was EXCEPT ![r] = {Status(users, in[1])}]
        /\ Goto(r, FirstStep(k))
  BY <1>k
<1> DEFINE id == in[1]
<1>a. /\ pc[r] = "idle"
      /\ before' = [before EXCEPT ![r] = {q \in Requests : pc[q] = "done"}]
      /\ UNCHANGED <<users, applied, seen, patch, resp>>
      /\ pc' = [pc EXCEPT ![r] = FirstStep(k)]
  BY <1>in DEF Begin, Goto, table
<1>b. /\ k \in Kinds
      /\ FirstStep(k) \in Steps
      /\ FirstStep(k) = "lookup" <=> k \in ByEmail
      /\ FirstStep(k) = "write" <=> k \in {"create", "deactivate"}
      /\ FirstStep(k) \in {"lookup", "write", "read"}
  BY OfferedAreKinds DEF FirstStep, Kinds, ByEmail, Steps
<1>c. /\ id \in IF k \in ByEmail THEN {Null} ELSE Ids
      /\ k = "create" => id \in FreshIds
      /\ k # "create" => id \notin Unborn
  BY NullIsNoValue, <1>b DEF Inputs, FreshIds, Unborn, IInv, KeysOK, Kinds, ByEmail, PlacesOK, Steps
<1>d. /\ k \in {"create"} \cup ByEmail => in[2] \in [{"email"} -> Emails]
      /\ k = "update" => in[2] \in Bodies
      /\ k \in {"get", "deactivate", "delete"} => DOMAIN in[2] = {}
  BY <1>b DEF Inputs, ByEmail, Kinds, NoPatch
<1>1. TypeOK'
  <2>1. Status(users, id) \in Statuses
    BY DEF Status, Statuses
  <2>2. DOMAIN in[2] \subseteq {"email", "active"}
    BY <1>in, <1>b, <1>d, BodiesAreUpdates DEF Kinds, ByEmail
  <2> QED BY <1>in, <1>a, <1>b, <1>c, <2>1, <2>2 DEF IInv, TypeOK, FreshIds
<1>2. PlacesOK' /\ InputsOK'
  BY <1>in, <1>a, <1>b, <1>d DEF IInv, TypeOK, PlacesOK, InputsOK, Deletes, Kinds, ByEmail
<1>3. KeysOK'
  BY <1>in, <1>a, <1>b, <1>c DEF IInv, TypeOK, KeysOK, FreshIds, Steps, Deletes, ByEmail
<1>4. PatchOK'
  BY <1>in, <1>a, <1>b, <1>c DEF IInv, TypeOK, PatchOK
<1>5. FreshOK'
  BY <1>in, <1>a, <1>b, <1>c, NullIsNoValue DEF IInv, TypeOK, KeysOK, FreshOK, FreshIds, Unborn, Steps, ByEmail
<1>6. RowLocked' /\ EmailUnique' /\ EmailLocked'
  BY <1>in, <1>a, <1>b DEF IInv, TypeOK, RowLocked, EmailUnique, EmailLocked, Entered, Writing, Taken
<1>7. PastOK'
  BY <1>in, <1>a, <1>b DEF IInv, TypeOK, PastOK, Live, Deletes
<1>8. AnsweredOK'
  BY <1>in, <1>a, <1>b DEF IInv, TypeOK, AnsweredOK
<1>9. AnswerJustified'
  BY <1>in, <1>a, <1>b DEF IInv, TypeOK, AnswerJustified
<1>10. StampsOK'
  BY <1>in, <1>a, NullIsNoValue DEF IInv, TypeOK, KeysOK, StampsOK, Tables
<1>11. DeletedOK'
  BY <1>in, <1>a, <1>b, <1>c, NullIsNoValue
  DEF IInv, TypeOK, AnsweredOK, DeletedOK, KeysOK, FreshIds, ByEmail, Deletes, Kinds, Tables, ErrorCode
<1>12. CreatedOK'
  BY <1>in, <1>a, <1>b DEF IInv, TypeOK, AnsweredOK, CreatedOK
<1>13. CreatedStaysFound'
  BY <1>in, <1>a, <1>b, NullIsNoValue DEF IInv, TypeOK, AnsweredOK, KeysOK, CreatedOK, CreatedStaysFound, Tables
<1> QED BY <1>1, <1>2, <1>3, <1>4, <1>5, <1>6, <1>7, <1>8, <1>9, <1>10, <1>11, <1>12, <1>13 DEF IInv

\* A handler finds its row by email.
LEMMA LookupKeeps ==
  ASSUME IInv, NEW r \in Requests, pc[r] = "lookup", NEW id \in Ids, Live(id),
         users[id].email = arg[r].email,
         uid' = [uid EXCEPT ![r] = id],
         was' = [was EXCEPT ![r] = {Status(users, id)}],
         \/ op[r] = "get_by_email" /\ Answer(r, 200)
         \/ /\ op[r] = "delete_by_email"
            /\ seen' = [seen EXCEPT ![r] = users[id]]
            /\ Goto(r, "read")
            /\ UNCHANGED patch,
         UNCHANGED <<table, op, arg, before>>
  PROVE  IInv'
<1>a. /\ id \in DOMAIN users /\ users[id].deleted = Null
      /\ users[id] \in Row
      /\ Status(users, id) \in {"active", "inactive"}
  BY DEF IInv, TypeOK, Tables, Live, LiveIn, Status
<1>b. /\ pc' = [pc EXCEPT ![r] = IF op[r] = "get_by_email" THEN "done" ELSE "read"]
      /\ resp' = [resp EXCEPT ![r] = IF op[r] = "get_by_email" THEN 200 ELSE resp[r]]
      /\ op[r] \in ByEmail
      /\ UNCHANGED <<users, applied, op, arg, before>>
      /\ resp[r] = 0
  BY DEF Answer, Goto, ByEmail, IInv, TypeOK, AnsweredOK, table
<1>c. /\ DOMAIN patch[r] = {} /\ DOMAIN patch'[r] = {} /\ DOMAIN patch' = Requests
      /\ \A q \in Requests \ {r} : patch'[q] = patch[q]
      /\ seen' \in [Requests -> Row \cup {Null}]
  BY <1>a DEF IInv, TypeOK, PatchOK, Answer, NoPatch
<1>1. TypeOK'
  <2>1. /\ pc' \in [Requests -> {"idle", "done"} \cup Steps]
        /\ resp' \in [Requests -> Codes \cup {0}]
    BY <1>b DEF IInv, TypeOK, Codes, Steps
  <2>2. was' \in [Requests -> SUBSET Statuses] /\ uid' \in [Requests -> Ids \cup {Null}]
    BY <1>a DEF IInv, TypeOK, Statuses
  <2>3. \A q \in Requests : DOMAIN patch'[q] \subseteq Columns
    BY <1>c DEF IInv, TypeOK
  <2> QED BY <1>b, <1>c, <2>1, <2>2, <2>3 DEF IInv, TypeOK
<1>2. PlacesOK' /\ InputsOK'
  BY <1>b DEF IInv, TypeOK, PlacesOK, InputsOK, Deletes, ByEmail
<1>3. KeysOK'
  BY <1>a, <1>b, <1>c DEF IInv, TypeOK, KeysOK, Steps, Answer
<1>4. PatchOK'
  BY <1>b, <1>c DEF IInv, TypeOK, PatchOK
<1>5. FreshOK' /\ RowLocked' /\ EmailUnique' /\ EmailLocked'
  BY <1>a, <1>b, <1>c DEF IInv, TypeOK, FreshOK, RowLocked, EmailUnique, EmailLocked, Entered, Writing, Taken
<1>6. PastOK'
  BY <1>a, <1>b DEF IInv, TypeOK, PastOK, Live
<1>7. AnsweredOK'
  BY <1>b DEF IInv, TypeOK, AnsweredOK
<1>8. AnswerJustified'
  <2>1. was'[r] = {Status(users, id)} /\ \A q \in Requests \ {r} : was'[q] = was[q]
    BY DEF IInv, TypeOK
  <2>2. /\ op'[r] # "deactivate" /\ was'[r] \cap {"active", "inactive"} # {}
        /\ pc'[r] = "done" => resp'[r] = 200
    BY <1>a, <1>b, <2>1 DEF IInv, TypeOK, ByEmail
  <2>3. \A q \in Requests \ {r} : pc'[q] = pc[q] /\ resp'[q] = resp[q] /\ op'[q] = op[q]
    BY <1>b DEF IInv, TypeOK
  <2> QED BY <2>1, <2>2, <2>3 DEF IInv, AnswerJustified
<1>9. StampsOK'
  BY <1>b, NullIsNoValue DEF IInv, TypeOK, KeysOK, StampsOK, Tables
<1>10. DeletedOK'
  BY <1>a, <1>b DEF IInv, TypeOK, DeletedOK
<1>11. CreatedOK'
  BY <1>b DEF IInv, TypeOK, AnsweredOK, CreatedOK
<1>12. CreatedStaysFound'
  BY <1>b, NullIsNoValue DEF IInv, TypeOK, KeysOK, CreatedOK, CreatedStaysFound, Tables
<1> QED BY <1>1, <1>2, <1>3, <1>4, <1>5, <1>6, <1>7, <1>8, <1>9, <1>10, <1>11, <1>12 DEF IInv

\* A handler goes on to another statement, having read or waited, and changed nothing.
MayGoTo(r, step) ==
  \/ pc[r] = "read" /\ step = "write" /\ op[r] \in {"update"} \cup Deletes /\ Live(uid[r])
  \/ pc[r] = "write" /\ step = "explain" /\ op[r] = "deactivate" /\ ~Claimable(r)
  \/ pc[r] = "reload" /\ step = "refresh"

LEMMA GotoKeeps ==
  ASSUME IInv, NEW r \in Requests, NEW step, MayGoTo(r, step), Goto(r, step),
         seen' = [seen EXCEPT ![r] = seen'[r]],
         seen'[r] \in IF step = "write" THEN Row ELSE {seen[r]},
         UNCHANGED <<table, op, uid, arg, patch, before, was>>
  PROVE  IInv'
<1>1. TypeOK'
  BY DEF IInv, TypeOK, MayGoTo, Goto, Steps, table
<1>2. PlacesOK' /\ InputsOK'
  BY DEF IInv, TypeOK, PlacesOK, InputsOK, MayGoTo, Goto, Deletes
<1>3. KeysOK'
  BY DEF IInv, TypeOK, KeysOK, MayGoTo, Goto, Live, LiveIn, Deletes, Steps, table
<1>4. PatchOK'
  BY DEF IInv, TypeOK, PatchOK, MayGoTo, Goto
<1>5. FreshOK' /\ RowLocked' /\ EmailUnique' /\ EmailLocked'
  BY DEF IInv, TypeOK, FreshOK, RowLocked, EmailUnique, EmailLocked, Entered, Writing, Taken,
         MayGoTo, Goto, Deletes, table
<1>6. PastOK'
  BY DEF IInv, TypeOK, PastOK, MayGoTo, Goto, Live, LiveIn, Claimable, Status, Deletes, Steps, table
<1>7. AnsweredOK'
  BY DEF IInv, TypeOK, AnsweredOK, MayGoTo, Goto, table
<1>8. AnswerJustified'
  BY DEF IInv, TypeOK, AnswerJustified, MayGoTo, Goto
<1>9. StampsOK'
  BY DEF IInv, StampsOK, table
<1>10. DeletedOK'
  BY DEF IInv, TypeOK, DeletedOK, MayGoTo, Goto, Live, LiveIn, table
<1>11. CreatedOK' /\ CreatedStaysFound'
  BY DEF IInv, CreatedOK, CreatedStaysFound, Goto, table
<1> QED BY <1>1, <1>2, <1>3, <1>4, <1>5, <1>6, <1>7, <1>8, <1>9, <1>10, <1>11 DEF IInv

\* A handler writes a row version: what its route may write, under the locks.
AfterFlush(r, p) == IF op[r] = "update" /\ "email" \in DOMAIN p THEN "index" ELSE "commit"

MayFlush(r, p) ==
  /\ pc[r] = "write" /\ uid[r] \in Ids
  /\ op[r] \in {"create", "update", "deactivate"} \cup Deletes
  /\ DOMAIN p \subseteq Columns
  /\ "email" \in DOMAIN p => p["email"] \in Emails
  /\ "active" \in DOMAIN p => p["active"] \in BOOLEAN
  /\ op[r] = "create" => DOMAIN p = Columns /\ p["deleted"] = Null
  /\ op[r] = "update" => DOMAIN p \subseteq DOMAIN arg[r] /\ "deleted" \notin DOMAIN p
  /\ op[r] = "deactivate" => DOMAIN p = {"active"} /\ p["active"] = FALSE /\ Claimable(r)
  /\ op[r] \in Deletes => DOMAIN p = {"deleted"} /\ p["deleted"] = r
  /\ op[r] # "create" /\ DOMAIN p # {} => ~RowBusy(r, uid[r])
  /\ op[r] = "create" => ~Taken(uid[r], p["email"]) /\ ~EmailBusy(r, p["email"])

LEMMA FlushKeeps ==
  ASSUME IInv, NEW r \in Requests, NEW p, MayFlush(r, p),
         patch' = [patch EXCEPT ![r] = p], Goto(r, AfterFlush(r, p)),
         UNCHANGED <<table, op, uid, arg, seen, before, was>>
  PROVE  IInv'
<1> DEFINE step == AfterFlush(r, p)
<1>b. /\ step \in {"index", "commit"} /\ (step = "index" => op[r] = "update" /\ "email" \in DOMAIN p)
      /\ step = "commit" /\ op[r] = "update" => "email" \notin DOMAIN p
  BY DEF AfterFlush
<1>a. /\ patch'[r] = p /\ pc'[r] = step /\ pc[r] = "write"
      /\ \A q \in Requests \ {r} : patch'[q] = patch[q] /\ pc'[q] = pc[q]
      /\ DOMAIN patch' = Requests
      /\ pc' = [pc EXCEPT ![r] = step]
      /\ UNCHANGED <<users, applied, op, uid, arg, seen, before, was, resp>>
  BY DEF IInv, TypeOK, Goto, MayFlush, table
<1> HIDE DEF step
<1>1. TypeOK'
  BY <1>a, <1>b DEF IInv, TypeOK, MayFlush, Steps
<1>2. PlacesOK' /\ InputsOK'
  BY <1>a, <1>b DEF IInv, PlacesOK, InputsOK
<1>3. KeysOK'
  BY <1>a, <1>b DEF IInv, KeysOK, PlacesOK, MayFlush, Claimable, Live, LiveIn, Steps
<1>4. PatchOK'
  BY <1>a, <1>b DEF IInv, PatchOK, MayFlush
<1>5. FreshOK'
  BY <1>a, <1>b DEF IInv, FreshOK
<1>6. RowLocked'
  BY <1>a, <1>b DEF IInv, RowLocked, FreshOK, MayFlush, RowBusy, Writing
<1>7. EmailUnique'
  BY <1>a, <1>b DEF IInv, EmailUnique
<1>8. EmailLocked'
  BY <1>a, <1>b DEF IInv, EmailLocked, MayFlush, EmailBusy, HoldsEmail, Entered, Writing, Taken
<1>9. PastOK'
  BY <1>a, <1>b DEF IInv, PastOK, MayFlush, Claimable, Live, LiveIn, Status, Steps, Deletes
<1>10. AnsweredOK' /\ AnswerJustified' /\ StampsOK'
  BY <1>a, <1>b DEF IInv, AnsweredOK, AnswerJustified, StampsOK
<1>11. DeletedOK'
  BY <1>a, <1>b DEF IInv, DeletedOK, MayFlush, Claimable, Live, LiveIn
<1>12. CreatedOK' /\ CreatedStaysFound'
  BY <1>a, <1>b DEF IInv, CreatedOK, CreatedStaysFound
<1> QED BY <1>1, <1>2, <1>3, <1>4, <1>5, <1>6, <1>7, <1>8, <1>9, <1>10, <1>11, <1>12 DEF IInv

\* The UPDATE of a PUT, its row locked, enters its email in the unique index.
LEMMA EnterKeeps ==
  ASSUME IInv, NEW r \in Requests, pc[r] = "index", Goto(r, "commit"),
         ~EmailBusy(r, patch[r]["email"]), ~Taken(uid[r], patch[r]["email"]),
         UNCHANGED <<table, op, uid, arg, seen, patch, before, was>>
  PROVE  IInv'
<1>a. /\ pc'[r] = "commit" /\ op[r] = "update" /\ "email" \in DOMAIN patch[r]
      /\ \A q \in Requests \ {r} : pc'[q] = pc[q]
      /\ pc' = [pc EXCEPT ![r] = "commit"]
      /\ UNCHANGED <<users, applied, op, uid, arg, seen, patch, before, was, resp>>
  BY DEF IInv, TypeOK, PlacesOK, PatchOK, Goto, table
<1>1. TypeOK'
  BY <1>a DEF IInv, TypeOK, Steps
<1>2. PlacesOK' /\ InputsOK'
  BY <1>a DEF IInv, PlacesOK, InputsOK
<1>3. KeysOK' /\ PatchOK' /\ FreshOK'
  BY <1>a DEF IInv, KeysOK, PatchOK, FreshOK, Steps, Deletes
<1>4. RowLocked' /\ EmailUnique'
  BY <1>a DEF IInv, RowLocked, EmailUnique, Writing
<1>5. EmailLocked'
  BY <1>a DEF IInv, EmailLocked, EmailBusy, HoldsEmail, Entered, Taken
<1>6. PastOK'
  BY <1>a DEF IInv, PastOK, Live, Steps, Deletes
<1>7. AnsweredOK' /\ AnswerJustified' /\ StampsOK'
  BY <1>a DEF IInv, AnsweredOK, AnswerJustified, StampsOK
<1>8. DeletedOK' /\ CreatedOK' /\ CreatedStaysFound'
  BY <1>a DEF IInv, DeletedOK, CreatedOK, CreatedStaysFound
<1> QED  BY <1>1, <1>2, <1>3, <1>4, <1>5, <1>6, <1>7, <1>8 DEF IInv

\* COMMIT: what the table is afterwards.
LEMMA InstallChanges ==
  ASSUME IInv, NEW r \in Requests, pc[r] = "commit", Install(r)
  PROVE  /\ users' \in Tables
         /\ uid[r] \in DOMAIN users'
         /\ DOMAIN users' = DOMAIN users \cup {uid[r]}
         /\ \A i \in DOMAIN users \ {uid[r]} : users'[i] = users[i]
         /\ \A c \in Columns : users'[uid[r]][c] =
              IF c \in DOMAIN patch[r] THEN patch[r][c] ELSE users[uid[r]][c]
<1>a. /\ uid[r] \in Ids /\ users \in Tables
      /\ op[r] = "create" => DOMAIN patch[r] = Columns
      /\ op[r] # "create" => uid[r] \in DOMAIN users
      /\ DOMAIN users \subseteq Ids
      /\ \A i \in DOMAIN users : users[i] \in Row
  BY DEF IInv, TypeOK, Tables, KeysOK, PatchOK, Steps
<1>1. CASE DOMAIN patch[r] = {}
  <2>1. users' = users /\ op[r] # "create"
    BY <1>1, <1>a DEF Install, Columns
  <2> QED BY <1>1, <1>a, <2>1
<1>2. CASE DOMAIN patch[r] # {}
  <2>1. users' = Overwrite(users, uid[r], patch[r])
    BY <1>2 DEF Install
  <2>2. [c \in Columns |-> IF c \in DOMAIN patch[r] THEN patch[r][c] ELSE users[uid[r]][c]] \in Row
    <3>1. /\ "email" \in DOMAIN patch[r] => patch[r]["email"] \in Emails
          /\ "active" \in DOMAIN patch[r] => patch[r]["active"] \in BOOLEAN
          /\ "deleted" \in DOMAIN patch[r] => patch[r]["deleted"] \in Stamps \cup {Null}
      BY DEF IInv, PatchOK, PlacesOK, Deletes, Stamps, Columns
    <3> QED BY <1>a, <3>1 DEF Row, Columns
  <2>3. /\ DOMAIN users' = DOMAIN users \cup {uid[r]}
        /\ \A i \in DOMAIN users \ {uid[r]} : users'[i] = users[i]
        /\ users'[uid[r]] =
             [c \in Columns |-> IF c \in DOMAIN patch[r] THEN patch[r][c] ELSE users[uid[r]][c]]
    BY <2>1 DEF Overwrite
  <2>4. users' \in [DOMAIN users' -> Row]
    BY <1>a, <2>1, <2>2, <2>3 DEF Overwrite
  <2> QED BY <1>a, <2>3, <2>4 DEF Tables
<1> QED BY <1>1, <1>2

\* A commit is made, and answered or followed by the next statement.
LEMMA CommitKeeps ==
  ASSUME IInv, NEW r \in Requests, pc[r] = "commit", Install(r),
         \/ \E code \in {ErrorCode(op[r]), 0} : Answer(r, code)
         \/ op[r] # "deactivate" /\ Answer(r, SuccessCode(op[r]))
         \/ /\ op[r] = "deactivate"
            /\ Goto(r, "reload")
            /\ patch' = [patch EXCEPT ![r] = NoPatch]
            /\ UNCHANGED seen,
         UNCHANGED <<op, uid, arg, before>>
  PROVE  IInv'
<1> DEFINE id == uid[r]
<1>a. /\ op[r] \in {"create", "update", "deactivate"} \cup Deletes
      /\ id \in Ids
      /\ op[r] # "create" => id \in DOMAIN users
      /\ resp[r] = 0
      /\ applied' = applied \cup {r}
  BY DEF IInv, TypeOK, PlacesOK, KeysOK, AnsweredOK, Steps, Install
<1>b. /\ users' \in Tables
      /\ id \in DOMAIN users'
      /\ DOMAIN users' = DOMAIN users \cup {id}
      /\ \A i \in DOMAIN users \ {id} : users'[i] = users[i]
      /\ \A c \in Columns : users'[id][c] =
           IF c \in DOMAIN patch[r] THEN patch[r][c] ELSE users[id][c]
  BY InstallChanges
<1>c. PICK code \in {0, 200, 201, 204, 500, 503} :
        /\ resp' = [resp EXCEPT ![r] = code]
        /\ pc' = [pc EXCEPT ![r] = pc'[r]]
        /\ pc'[r] \in {"done", "reload"}
        /\ pc'[r] = "reload" => op[r] = "deactivate" /\ code = 0
        /\ code = 200 => op[r] = "update"
        /\ code = 201 => op[r] = "create"
        /\ code = 204 => op[r] \in Deletes
        /\ DOMAIN patch' = Requests /\ DOMAIN patch'[r] = {}
        /\ \A q \in Requests \ {r} : patch'[q] = patch[q]
        /\ seen' \in [Requests -> Row \cup {Null}]
        /\ \A q \in Requests \ {r} : seen'[q] = seen[q]
  BY <1>a DEF IInv, TypeOK, Answer, Goto, ErrorCode, SuccessCode, NoPatch, Deletes
<1>d. \A q \in Requests :
        /\ was[q] \subseteq was'[q]
        /\ pc[q] \in Steps => Status(users', uid[q]) \in was'[q]
        /\ pc[q] \notin Steps => was'[q] = was[q]
  <2> SUFFICES ASSUME NEW q \in Requests
               PROVE  /\ was[q] \subseteq was'[q]
                      /\ pc[q] \in Steps => Status(users', uid[q]) \in was'[q]
                      /\ pc[q] \notin Steps => was'[q] = was[q]
    OBVIOUS
  <2> DEFINE now == Status(users', uid[q])
  <2>1. was'[q] = IF pc[q] \in Steps THEN was[q] \cup {now} ELSE was[q]
    BY DEF Install
  <2> HIDE DEF now
  <2>2. was[q] \subseteq was'[q] /\ (pc[q] \in Steps => now \in was'[q])
    BY <2>1
  <2> QED BY <2>1, <2>2 DEF now
<1>e. \A q \in Requests \ {r} : Writing(q) /\ DOMAIN patch[r] # {} => uid[q] # id
  BY DEF IInv, RowLocked, Writing
<1>f. Columns = {"email", "active", "deleted"}
  BY DEF Columns
<1>g. /\ \A q \in Requests \ {r} : pc'[q] = pc[q] /\ resp'[q] = resp[q]
      /\ resp'[r] = code
  BY <1>c DEF IInv, TypeOK
<1>h. \A i \in DOMAIN users : users[i].deleted # Null => users'[i].deleted # Null
  BY <1>a, <1>b, <1>f, NullIsNoValue DEF IInv, PatchOK, FreshOK, Deletes
<1>1. TypeOK'
  <2>1. was' \in [Requests -> SUBSET Statuses]
    <3>1. \A q \in Requests : Status(users', uid[q]) \in Statuses
      BY DEF Status, Statuses
    <3> QED BY <3>1 DEF Install, IInv, TypeOK
  <2>2. /\ pc' \in [Requests -> {"idle", "done"} \cup Steps]
        /\ resp' \in [Requests -> Codes \cup {0}]
    BY <1>c DEF IInv, TypeOK, Codes, Steps
  <2> QED BY <1>a, <1>b, <1>c, <2>1, <2>2 DEF IInv, TypeOK
<1>2. PlacesOK' /\ InputsOK'
  BY <1>c, <1>g DEF IInv, PlacesOK, InputsOK
<1>3. KeysOK'
  BY <1>a, <1>b, <1>c, <1>g DEF IInv, KeysOK, Steps, Deletes
<1>4. PatchOK'
  BY <1>c, <1>g DEF IInv, PatchOK
<1>5. FreshOK'
  BY <1>b, <1>c, <1>g DEF IInv, FreshOK
<1>6. RowLocked'
  BY <1>c, <1>g DEF IInv, RowLocked, Writing
<1>7. EmailUnique'
  BY <1>a, <1>b, <1>f DEF IInv, EmailUnique, DistinctEmails, EmailLocked, PatchOK, Entered, Taken
<1>8. EmailLocked'
  BY <1>a, <1>b, <1>c, <1>e, <1>f, <1>g DEF IInv, PatchOK, EmailLocked, Entered, Writing, Taken
<1>9. PastOK'
  <2>1. \A q \in Requests : pc'[q] \in Steps => Status(users', uid[q]) \in was'[q]
    BY <1>c, <1>d, <1>g DEF Steps
  <2>2. \A q \in Requests : was[q] \subseteq was'[q]
    BY <1>d
  <2>3. \A q \in Requests : pc'[q] = "explain" /\ LiveIn(users', uid[q]) => "inactive" \in was'[q]
    BY <1>a, <1>b, <1>c, <1>g, <1>h, <2>2 DEF IInv, PastOK, PlacesOK, FreshOK, Live, LiveIn
  <2>4. \A q \in Requests : pc'[q] = "commit" /\ op[q] = "deactivate" => Status(users', uid[q]) = "active"
    <3> SUFFICES ASSUME NEW q \in Requests \ {r}, pc[q] = "commit", op[q] = "deactivate"
                 PROVE  Status(users', uid[q]) = "active"
      BY <1>c, <1>g
    <3>1. uid[q] \in DOMAIN users /\ users'[uid[q]] = users[uid[q]]
      BY <1>b, <1>e DEF IInv, KeysOK, PatchOK, Writing, Install
    <3> QED BY <3>1, <1>b DEF IInv, PastOK, Status
  <2>5. pc'[r] = "reload" => {"active", "inactive"} \subseteq was'[r]
    <3> SUFFICES ASSUME op[r] = "deactivate" PROVE {"active", "inactive"} \subseteq was'[r]
      BY <1>c
    <3>1. Status(users, id) = "active" /\ "active" \in was[r]
      BY DEF IInv, PastOK, Steps
    <3>2. Status(users', id) = "inactive"
      BY <1>a, <1>b, <1>f, <3>1 DEF IInv, PatchOK, Status
    <3> QED BY <1>d, <3>1, <3>2 DEF Steps
  <2> QED BY <1>c, <1>g, <2>1, <2>2, <2>3, <2>4, <2>5 DEF IInv, PastOK, Live
<1>10. AnsweredOK'
  BY <1>a, <1>c, <1>g DEF IInv, TypeOK, AnsweredOK
<1>11. AnswerJustified'
  BY <1>a, <1>c, <1>d, <1>g DEF IInv, AnswerJustified, PastOK, Steps, Deletes
<1>12. StampsOK'
  BY <1>a, <1>b, <1>f DEF IInv, StampsOK, PatchOK, PlacesOK, Deletes
<1>13. DeletedOK'
  BY <1>a, <1>b, <1>c, <1>f, <1>g, <1>h, NullIsNoValue DEF IInv, DeletedOK, AnsweredOK, PatchOK
<1>14. CreatedOK'
  BY <1>a, <1>b, <1>c, <1>f, <1>g, NullIsNoValue DEF IInv, CreatedOK, PatchOK, Deletes
<1>15. CreatedStaysFound'
  BY <1>a, <1>c, <1>g DEF IInv, AnsweredOK, CreatedStaysFound
<1> QED BY <1>1, <1>2, <1>3, <1>4, <1>5, <1>6, <1>7, <1>8, <1>9, <1>10, <1>11, <1>12, <1>13, <1>14, <1>15
        DEF IInv

-----------------------------------------------------------------------------
\* The invariant holds at the start.
LEMMA InitEstablishes == Init => IInv
<1> SUFFICES ASSUME Init PROVE IInv
  OBVIOUS
<1>1. TypeOK
  BY DEF Init, TypeOK, Kinds, NoPatch, Codes
<1>2. PlacesOK /\ InputsOK /\ KeysOK /\ PatchOK
  BY DEF Init, PlacesOK, InputsOK, KeysOK, PatchOK, NoPatch, Steps, ByEmail, Deletes
<1>3. FreshOK /\ RowLocked /\ EmailUnique /\ EmailLocked
  BY DEF Init, FreshOK, RowLocked, EmailUnique, EmailLocked, Entered, Writing
<1>4. PastOK /\ AnsweredOK /\ AnswerJustified
  BY DEF Init, PastOK, AnsweredOK, AnswerJustified, Steps
<1>5. StampsOK /\ DeletedOK /\ CreatedOK /\ CreatedStaysFound
  BY DEF Init, StampsOK, DeletedOK, CreatedOK, CreatedStaysFound
<1> QED BY <1>1, <1>2, <1>3, <1>4, <1>5 DEF IInv

\* Every step keeps it.
LEMMA NextKeeps == IInv /\ [Next]_vars => IInv'
<1> SUFFICES ASSUME IInv, [Next]_vars PROVE IInv'
  OBVIOUS
<1>1. ASSUME NEW r \in Requests, Begin(r) PROVE IInv'
  BY <1>1, BeginKeeps
<1>2. ASSUME NEW r \in Requests, Insert(r) PROVE IInv'
  <2>1. CASE Taken(uid[r], arg[r].email)
    <3>1. Truthful(r, 409) /\ pc[r] \in Steps
      BY <1>2 DEF Insert, Truthful, Steps, ErrorCode
    <3> QED BY <1>2, <2>1, <3>1, AnswerKeeps DEF Insert
  <2>2. CASE ~Taken(uid[r], arg[r].email)
    <3> DEFINE p == [email |-> arg[r].email, active |-> TRUE, deleted |-> Null]
    <3>1. MayFlush(r, p)
      BY <1>2, <2>2 DEF IInv, Insert, MayFlush, KeysOK, InputsOK, Steps, Columns, Deletes
    <3>2. AfterFlush(r, p) = "commit" /\ Goto(r, "commit")
      BY <1>2, <2>2 DEF Insert, AfterFlush, Answer
    <3> HIDE DEF p
    <3>3. patch' = [patch EXCEPT ![r] = p]
      BY <1>2, <2>2 DEF Insert, p
    <3> QED BY <1>2, <2>2, <3>1, <3>2, <3>3, FlushKeeps DEF Insert
  <2> QED BY <1>2, <2>1, <2>2 DEF Insert
<1>3. ASSUME NEW r \in Requests, GetUser(r) PROVE IInv'
  <2>1. ASSUME NEW code \in {200, 404}, Answer(r, code),
               code = 404 => ~Live(uid[r]), code = 200 => Live(uid[r]) /\ op[r] = "get"
        PROVE  IInv'
    <3>1. Truthful(r, code) /\ pc[r] \in Steps
      BY <1>3, <2>1 DEF GetUser, Truthful, Steps
    <3> QED BY <1>3, <2>1, <3>1, AnswerKeeps DEF GetUser
  <2>2. CASE /\ Live(uid[r]) /\ op[r] # "get"
             /\ seen' = [seen EXCEPT ![r] = IF @ = Null THEN users[uid[r]] ELSE @]
             /\ Goto(r, "write")
             /\ UNCHANGED patch
    <3>1. MayGoTo(r, "write")
      BY <1>3, <2>2 DEF GetUser, MayGoTo, IInv, PlacesOK
    <3>2. seen'[r] \in Row
      BY <2>2 DEF IInv, TypeOK, Tables, Live, LiveIn
    <3> QED BY <1>3, <2>2, <3>1, <3>2, GotoKeeps DEF GetUser, IInv, TypeOK
  <2> QED BY <1>3, <2>1, <2>2 DEF GetUser
<1>4. ASSUME NEW r \in Requests, GetUserByEmail(r) PROVE IInv'
  <2> DEFINE found == {i \in Ids : Live(i) /\ users[i].email = arg[r].email}
  <2>1. CASE Answer(r, 404) /\ UNCHANGED <<uid, was>>
    <3>1. uid[r] = Null /\ pc[r] \in Steps
      BY <1>4 DEF GetUserByEmail, IInv, KeysOK, Steps
    <3>2. Truthful(r, 404)
      BY <3>1, NullIsNoValue DEF Truthful, Live, LiveIn, IInv, TypeOK, Tables
    <3> QED BY <1>4, <2>1, <3>1, <3>2, AnswerKeeps DEF GetUserByEmail
  <2>2. ASSUME NEW id \in found,
               uid' = [uid EXCEPT ![r] = id],
               was' = [was EXCEPT ![r] = {Status(users, id)}],
               \/ op[r] = "get_by_email" /\ Answer(r, 200)
               \/ /\ op[r] = "delete_by_email"
                  /\ seen' = [seen EXCEPT ![r] = users[id]]
                  /\ Goto(r, "read")
                  /\ UNCHANGED patch
        PROVE  IInv'
    BY <1>4, <2>2, LookupKeeps DEF GetUserByEmail
  <2> QED BY <1>4, <2>1, <2>2 DEF GetUserByEmail
<1>5. ASSUME NEW r \in Requests, FlushUpdate(r) PROVE IInv'
  <2> DEFINE change == NetChange(r)
  <2>1. CASE Answer(r, ErrorCode("update"))
    <3>1. Truthful(r, ErrorCode("update")) /\ pc[r] \in Steps
      BY <1>5 DEF FlushUpdate, Truthful, Steps, ErrorCode
    <3> QED BY <1>5, <2>1, <3>1, AnswerKeeps DEF FlushUpdate
  <2>2. CASE /\ ~RefusesNull(change) /\ patch' = [patch EXCEPT ![r] = change]
             /\ Goto(r, IF "email" \in DOMAIN change THEN "index" ELSE "commit")
             /\ DOMAIN change # {} => ~RowBusy(r, uid[r])
             /\ UNCHANGED seen
    <3>1. /\ DOMAIN arg[r] \subseteq {"email", "active"}
          /\ "email" \in DOMAIN arg[r] => arg[r]["email"] \in Emails \cup {Null}
          /\ "active" \in DOMAIN arg[r] => arg[r]["active"] \in BOOLEAN \cup {Null}
      <4>1. PICK S \in SUBSET {"email", "active"} :
              /\ arg[r] \in [S -> Emails \cup BOOLEAN \cup {Null}]
              /\ "email" \in S => arg[r]["email"] \in Emails \cup {Null}
              /\ "active" \in S => arg[r]["active"] \in BOOLEAN \cup {Null}
        BY <1>5, BodiesAreUpdates DEF FlushUpdate, IInv, InputsOK
      <4> QED BY <4>1
    <3>2. /\ DOMAIN change \subseteq DOMAIN arg[r]
          /\ \A c \in DOMAIN change : change[c] = arg[r][c] /\ change[c] # Null
      BY <2>2, <3>1 DEF NetChange, RefusesNull
    <3>3. MayFlush(r, change)
      BY <1>5, <2>2, <3>1, <3>2 DEF FlushUpdate, MayFlush, IInv, KeysOK, Columns, Deletes, Steps
    <3> QED BY <1>5, <2>2, <3>3, FlushKeeps DEF FlushUpdate, AfterFlush
  <2> QED BY <1>5, <2>1, <2>2 DEF FlushUpdate
<1>e. ASSUME NEW r \in Requests, EnterIndex(r) PROVE IInv'
  <2>1. CASE Answer(r, ErrorCode("update"))
    <3>1. Truthful(r, ErrorCode("update")) /\ pc[r] \in Steps
      BY <1>e DEF EnterIndex, Truthful, IInv, PlacesOK, Steps, ErrorCode
    <3> QED BY <1>e, <2>1, <3>1, AnswerKeeps DEF EnterIndex
  <2>2. CASE ~Taken(uid[r], patch[r].email) /\ Goto(r, "commit") /\ UNCHANGED <<seen, patch>>
    BY <1>e, <2>2, EnterKeeps DEF EnterIndex
  <2> QED BY <1>e, <2>1, <2>2 DEF EnterIndex
<1>b. ASSUME NEW r \in Requests, BreakDeadlock(r) PROVE IInv'
  <2>1. pc[r] = "index"
    BY <1>b DEF BreakDeadlock, Deadlocked, Waits
  <2>2. Truthful(r, ErrorCode("update")) /\ pc[r] \in Steps
    BY <2>1 DEF Truthful, IInv, PlacesOK, Steps, ErrorCode
  <2> QED BY <1>b, <2>2, AnswerKeeps DEF BreakDeadlock
<1>6. ASSUME NEW r \in Requests, Claim(r) PROVE IInv'
  <2>1. CASE Claimable(r)
    <3>1. MayFlush(r, [active |-> FALSE])
      BY <1>6, <2>1 DEF Claim, MayFlush, IInv, KeysOK, Columns, Deletes, Steps
    <3> QED BY <1>6, <2>1, <3>1, FlushKeeps DEF Claim, AfterFlush
  <2>2. CASE ~Claimable(r)
    <3>1. MayGoTo(r, "explain")
      BY <1>6, <2>2 DEF Claim, MayGoTo
    <3> QED BY <1>6, <2>2, <3>1, GotoKeeps DEF Claim, IInv, TypeOK
  <2> QED BY <2>1, <2>2
<1>7. ASSUME NEW r \in Requests, Explain(r) PROVE IInv'
  <2> DEFINE code == IF Live(uid[r]) THEN 409 ELSE 404
  <2>1. Truthful(r, code) /\ pc[r] \in Steps
    BY <1>7 DEF Explain, Truthful, IInv, PlacesOK, Steps
  <2> QED BY <1>7, <2>1, AnswerKeeps DEF Explain
<1>8. ASSUME NEW r \in Requests, Stamp(r) PROVE IInv'
  <2>1. MayFlush(r, [deleted |-> r])
    BY <1>8 DEF Stamp, MayFlush, IInv, KeysOK, Columns, Deletes, Steps
  <2> QED BY <1>8, <2>1, FlushKeeps DEF Stamp, AfterFlush
<1>9. ASSUME NEW r \in Requests, Commit(r) \/ CommitUnacknowledged(r) PROVE IInv'
  BY <1>9, CommitKeeps DEF Commit, CommitUnacknowledged
<1>10. ASSUME NEW r \in Requests, Reload(r) PROVE IInv'
  <2>1. CASE ~Live(uid[r]) /\ Answer(r, 404)
    <3>1. Truthful(r, 404) /\ pc[r] \in Steps
      BY <1>10, <2>1 DEF Reload, Truthful, Steps
    <3> QED BY <1>10, <2>1, <3>1, AnswerKeeps DEF Reload
  <2>2. CASE Goto(r, "refresh") /\ UNCHANGED <<seen, patch>>
    <3>1. MayGoTo(r, "refresh")
      BY <1>10 DEF Reload, MayGoTo
    <3> QED BY <1>10, <2>2, <3>1, GotoKeeps DEF Reload, IInv, TypeOK
  <2> QED BY <1>10, <2>1, <2>2 DEF Reload
<1>11. ASSUME NEW r \in Requests, Refresh(r) PROVE IInv'
  <2>1. Truthful(r, 200) /\ pc[r] \in Steps
    BY <1>11 DEF Refresh, Truthful, Steps
  <2> QED BY <1>11, <2>1, AnswerKeeps DEF Refresh
<1>12. ASSUME NEW r \in Requests, Fail(r) PROVE IInv'
  <2>1. PICK code \in {ErrorCode(op[r]), 0} : Answer(r, code)
    BY <1>12 DEF Fail
  <2>2. Truthful(r, code) /\ pc[r] \in Steps
    BY <1>12 DEF Fail, Truthful, ErrorCode
  <2> QED BY <1>12, <2>1, <2>2, AnswerKeeps DEF Fail
<1>13. CASE UNCHANGED vars
  BY <1>13 DEF vars, table, IInv, TypeOK, PlacesOK, InputsOK, KeysOK, PatchOK, FreshOK, RowLocked,
     EmailUnique, EmailLocked, Entered, PastOK, AnsweredOK, AnswerJustified, StampsOK, DeletedOK, CreatedOK,
     CreatedStaysFound, Writing, Taken, Live
<1> QED BY <1>1, <1>2, <1>3, <1>4, <1>5, <1>e, <1>b, <1>6, <1>7, <1>8, <1>9, <1>10, <1>11, <1>12, <1>13
        DEF Next, Proceed, Finished

\* The invariant, at every moment of every behaviour.
THEOREM Invariance == Spec => []IInv
  BY InitEstablishes, NextKeeps, PTL DEF Spec

\* Every state is well formed: no interleaving stores a row that breaks a column's
\* constraint or answers a code the routes do not have.
THEOREM Typed == Spec => []TypeOK
  BY Invariance, PTL DEF IInv

\* No two rows, live or deleted, ever carry one email, although creates and updates
\* check it a statement before they commit.
THEOREM EmailsStayUnique == Spec => []EmailUnique
  BY Invariance, PTL DEF IInv

\* Every answer was true of the account at some moment of its request.
THEOREM AnswersAreJustified == Spec => []AnswerJustified
  BY Invariance, PTL DEF IInv

\* A created account is found by every later request until a delete takes effect.
THEOREM CreatedIsFound == Spec => []CreatedStaysFound
  BY Invariance, PTL DEF IInv

\* No request sent after the 204 of a delete finds the account again.
THEOREM DeletesAreFinal == Spec => []DeleteIsFinal
<1>1. IInv => DeleteIsFinal
  BY DEF IInv, DeletedOK, DeleteIsFinal
<1> QED BY <1>1, Invariance, PTL

\* A commit changes only columns its own request named.
THEOREM NothingElseIsWritten == Spec => OnlyNamedColumns
<1> DEFINE Step ==
      \A i \in DOMAIN users' : \A c \in Columns :
        i \notin DOMAIN users \/ users'[i][c] # users[i][c]
        => \E r \in applied' \ applied : uid[r] = i /\ c \in Named(r)
<1>1. ASSUME IInv, NEW r \in Requests, pc[r] = "commit", Install(r)
      PROVE  Step
  <2>1. /\ DOMAIN users' = DOMAIN users \cup {uid[r]}
        /\ \A i \in DOMAIN users \ {uid[r]} : users'[i] = users[i]
        /\ \A c \in Columns : users'[uid[r]][c] =
             IF c \in DOMAIN patch[r] THEN patch[r][c] ELSE users[uid[r]][c]
    BY <1>1, InstallChanges
  <2>2. r \in applied' \ applied
    BY <1>1 DEF IInv, AnsweredOK, Install
  <2>3. DOMAIN patch[r] \subseteq Named(r) /\ (op[r] = "create" => Named(r) = Columns)
    BY <1>1 DEF IInv, PatchOK, PlacesOK, Named, Deletes
  <2>4. op[r] # "create" => uid[r] \in DOMAIN users
    BY <1>1 DEF IInv, KeysOK
  <2>5. SUFFICES ASSUME NEW i \in DOMAIN users', NEW c \in Columns,
                        i \notin DOMAIN users \/ users'[i][c] # users[i][c]
                 PROVE  uid[r] = i /\ c \in Named(r)
    BY <2>2
  <2>6. uid[r] = i
    BY <2>1, <2>5
  <2>7. c \in Named(r)
    BY <2>1, <2>3, <2>4, <2>5, <2>6
  <2> QED BY <2>6, <2>7
<1>2. ASSUME UNCHANGED table PROVE Step
  BY <1>2 DEF table
<1>3. IInv /\ [Next]_vars => [Step]_vars
  BY <1>1, <1>2 DEF Next, Proceed, Finished, vars, Begin, Insert, GetUser, GetUserByEmail,
     FlushUpdate, EnterIndex, BreakDeadlock, Claim, Explain, Stamp, Commit, Reload, Refresh, Fail, CommitUnacknowledged
<1> QED BY <1>3, Invariance, PTL DEF Spec, OnlyNamedColumns

-----------------------------------------------------------------------------
\* What is flushed comes from the request.
LEMMA FlushedKept ==
  ASSUME IInv, FlushedOK, [Next]_vars
  PROVE  FlushedOK'
<1> USE DEF IInv, TypeOK
\* The conditions of one request.
<1> DEFINE Ok(r) ==
      /\ pc[r] = "commit" /\ op[r] = "create" =>
           patch[r] = [email |-> arg[r]["email"], active |-> TRUE, deleted |-> Null]
      /\ pc[r] \in {"index", "commit"} /\ op[r] = "update" =>
           patch[r] = [c \in DOMAIN patch[r] |-> arg[r][c]]
      /\ pc[r] = "commit" /\ op[r] = "deactivate" => patch[r] = [active |-> FALSE]
      /\ pc[r] = "commit" /\ op[r] \in Deletes => patch[r] = [deleted |-> r]
      /\ pc[r] = "refresh" \/ pc[r] = "reload" => r \in applied
<1>a. ASSUME NEW r \in Requests, Ok(r)', applied \subseteq applied',
             \A q \in Requests \ {r} : /\ pc'[q] = pc[q] /\ op'[q] = op[q]
                                       /\ arg'[q] = arg[q] /\ patch'[q] = patch[q]
      PROVE  FlushedOK'
  <2> SUFFICES ASSUME NEW q \in Requests
               PROVE  Ok(q)'
    BY DEF FlushedOK
  <2>1. CASE q = r
    BY <1>a, <2>1
  <2>2. CASE q # r
    <3>1. pc'[q] = pc[q] /\ op'[q] = op[q] /\ arg'[q] = arg[q] /\ patch'[q] = patch[q]
      BY <1>a, <2>2
    <3>2. [c \in DOMAIN patch'[q] |-> arg'[q][c]] = [c \in DOMAIN patch[q] |-> arg[q][c]]
      BY <3>1
    <3> QED  BY <1>a, <3>1, <3>2 DEF FlushedOK
  <2> QED  BY <2>1, <2>2
\* A request that is over, or goes on to another statement than its commit.
<1>b. ASSUME NEW r \in Requests, pc'[r] \notin {"index", "commit", "refresh", "reload"},
             applied \subseteq applied',
             \A q \in Requests \ {r} : /\ pc'[q] = pc[q] /\ op'[q] = op[q]
                                       /\ arg'[q] = arg[q] /\ patch'[q] = patch[q]
      PROVE  FlushedOK'
  BY <1>a, <1>b
<1>1. ASSUME NEW r \in Requests,
             Begin(r) \/ GetUser(r) \/ GetUserByEmail(r) \/ Explain(r) \/ Refresh(r) \/ Fail(r)
             \/ CommitUnacknowledged(r) \/ BreakDeadlock(r)
      PROVE  FlushedOK'
  <2>1. /\ pc'[r] \notin {"index", "commit", "refresh", "reload"} /\ applied \subseteq applied'
        /\ \A q \in Requests \ {r} : /\ pc'[q] = pc[q] /\ op'[q] = op[q]
                                      /\ arg'[q] = arg[q] /\ patch'[q] = patch[q]
    BY <1>1 DEF Begin, GetUser, GetUserByEmail, Explain, Refresh, Fail, CommitUnacknowledged, BreakDeadlock,
                Answer, Goto, FirstStep, Install, table
  <2> QED  BY <2>1, <1>b
<1>2. ASSUME NEW r \in Requests, Insert(r)
      PROVE  FlushedOK'
  <2>1. /\ pc'[r] \in {"done", "commit"} /\ applied' = applied /\ op[r] = "create"
        /\ pc'[r] = "commit" => patch'[r] = [email |-> arg[r].email, active |-> TRUE, deleted |-> Null]
        /\ op' = op /\ arg' = arg
        /\ \A q \in Requests \ {r} : pc'[q] = pc[q] /\ patch'[q] = patch[q]
    <3>1. CASE Answer(r, 409)
      BY <1>2, <3>1 DEF Insert, Answer, table
    <3>2. ASSUME NEW new, patch' = [patch EXCEPT ![r] = new], Goto(r, "commit"),
                 new = [email |-> arg[r].email, active |-> TRUE, deleted |-> Null]
          PROVE  /\ pc'[r] = "commit" /\ patch'[r] = new
                 /\ \A q \in Requests \ {r} : pc'[q] = pc[q] /\ patch'[q] = patch[q]
      BY <3>2 DEF Goto
    <3>3. applied' = applied /\ op[r] = "create" /\ op' = op /\ arg' = arg
      BY <1>2 DEF Insert, table
    <3> QED  BY <1>2, <3>1, <3>2, <3>3 DEF Insert
  <2>2. Ok(r)'
    BY <2>1 DEF Deletes
  <2> QED  BY <2>1, <2>2, <1>a
<1>3. ASSUME NEW r \in Requests, FlushUpdate(r)
      PROVE  FlushedOK'
  <2>1. /\ pc'[r] \in {"done", "index", "commit"} /\ applied' = applied /\ op[r] = "update"
        /\ pc'[r] \in {"index", "commit"} => patch'[r] = NetChange(r)
        /\ op' = op /\ arg' = arg
        /\ \A q \in Requests \ {r} : pc'[q] = pc[q] /\ patch'[q] = patch[q]
    <3>1. CASE Answer(r, ErrorCode("update"))
      BY <1>3, <3>1 DEF FlushUpdate, Answer, table
    <3>2. ASSUME NEW step \in {"index", "commit"},
                 patch' = [patch EXCEPT ![r] = NetChange(r)], Goto(r, step)
          PROVE  /\ pc'[r] \in {"done", "index", "commit"} /\ applied' = applied /\ op[r] = "update"
                 /\ pc'[r] \in {"index", "commit"} => patch'[r] = NetChange(r)
                 /\ op' = op /\ arg' = arg
                 /\ \A q \in Requests \ {r} : pc'[q] = pc[q] /\ patch'[q] = patch[q]
      <4>1. applied' = applied /\ op[r] = "update" /\ op' = op /\ arg' = arg
        BY <1>3 DEF FlushUpdate, table
      <4>2. pc' = [pc EXCEPT ![r] = step] /\ patch' = [patch EXCEPT ![r] = NetChange(r)]
        BY <3>2 DEF Goto
      <4> QED  BY <4>1, <4>2
    <3> QED  BY <1>3, <3>1, <3>2 DEF FlushUpdate
  <2>2. NetChange(r) = [c \in DOMAIN NetChange(r) |-> arg[r][c]]
    BY DEF NetChange
  <2>3. pc'[r] \in {"index", "commit"} => patch'[r] = [c \in DOMAIN patch'[r] |-> arg'[r][c]]
    BY <2>1, <2>2
  <2>4. op'[r] = "update" /\ pc'[r] \in {"done", "index", "commit"}
    BY <2>1
  <2>5. Ok(r)'
    BY <2>3, <2>4 DEF Deletes
  <2>6. applied \subseteq applied'
    BY <2>1
  <2> HIDE DEF Ok
  <2> QED  BY <2>1, <2>5, <2>6, <1>a
<1>e. ASSUME NEW r \in Requests, EnterIndex(r)
      PROVE  FlushedOK'
  <2>1. /\ pc[r] = "index" /\ op[r] = "update"
        /\ pc'[r] \in {"done", "commit"} /\ applied' = applied
        /\ pc'[r] = "commit" => patch' = patch
        /\ op' = op /\ arg' = arg
        /\ \A q \in Requests \ {r} : pc'[q] = pc[q] /\ patch'[q] = patch[q]
    BY <1>e DEF EnterIndex, Answer, Goto, table, PlacesOK
  <2>2. Ok(r)'
    BY <2>1 DEF FlushedOK, Deletes
  <2> QED  BY <2>1, <2>2, <1>a
<1>4. ASSUME NEW r \in Requests, Claim(r)
      PROVE  FlushedOK'
  <2>1. /\ pc'[r] \in {"explain", "commit"} /\ applied' = applied /\ op[r] = "deactivate"
        /\ pc'[r] = "commit" => patch'[r] = [active |-> FALSE]
        /\ op' = op /\ arg' = arg
        /\ \A q \in Requests \ {r} : pc'[q] = pc[q] /\ patch'[q] = patch[q]
    BY <1>4 DEF Claim, Goto, table
  <2>2. Ok(r)'
    BY <2>1 DEF Deletes
  <2> QED  BY <2>1, <2>2, <1>a
<1>5. ASSUME NEW r \in Requests, Stamp(r)
      PROVE  FlushedOK'
  <2>1. /\ pc'[r] = "commit" /\ applied' = applied /\ op[r] \in Deletes
        /\ patch'[r] = [deleted |-> r]
        /\ op' = op /\ arg' = arg
        /\ \A q \in Requests \ {r} : pc'[q] = pc[q] /\ patch'[q] = patch[q]
    BY <1>5 DEF Stamp, Goto, table, Deletes
  <2>2. Ok(r)'
    BY <2>1 DEF Deletes
  <2> QED  BY <2>1, <2>2, <1>a
<1>6. ASSUME NEW r \in Requests, Commit(r)
      PROVE  FlushedOK'
  <2>1. /\ pc'[r] \in {"done", "reload"} /\ applied' = applied \cup {r}
        /\ op' = op /\ arg' = arg
        /\ \A q \in Requests \ {r} : pc'[q] = pc[q] /\ patch'[q] = patch[q]
    BY <1>6 DEF Commit, Install, Answer, Goto
  <2>2. Ok(r)'
    BY <2>1
  <2> QED  BY <2>1, <2>2, <1>a
<1>7. ASSUME NEW r \in Requests, Reload(r)
      PROVE  FlushedOK'
  <2>1. /\ pc[r] = "reload" /\ pc'[r] \in {"done", "refresh"} /\ applied' = applied
        /\ op' = op /\ arg' = arg
        /\ \A q \in Requests \ {r} : pc'[q] = pc[q] /\ patch'[q] = patch[q]
    BY <1>7 DEF Reload, Answer, Goto, table
  <2>2. Ok(r)'
    BY <2>1 DEF FlushedOK
  <2> QED  BY <2>1, <2>2, <1>a
<1>8. CASE UNCHANGED vars
  BY <1>8 DEF vars, table, FlushedOK
<1> QED  BY <1>1, <1>2, <1>3, <1>e, <1>4, <1>5, <1>6, <1>7, <1>8 DEF Next, Proceed, Finished

-----------------------------------------------------------------------------
\* A claim is won once: what a step does to the counts of an account.
LEMMA CountsFinite ==
  ASSUME IsFiniteSet(applied), NEW id
  PROVE  /\ IsFiniteSet(Deactivations(id)) /\ Cardinality(Deactivations(id)) \in Nat
         /\ IsFiniteSet(Reactivations(id)) /\ Cardinality(Reactivations(id)) \in Nat
<1>1. Deactivations(id) \subseteq applied /\ Reactivations(id) \subseteq applied
  BY DEF Deactivations, Reactivations
<1> QED  BY <1>1, FS_Subset, FS_CardinalityType

\* No request that has made its change is entered again, or finds another row.
LEMMA AppliedFixed ==
  ASSUME IInv, [Next]_vars, NEW q \in applied
  PROVE  q \in applied' /\ op'[q] = op[q] /\ uid'[q] = uid[q] /\ arg'[q] = arg[q]
<1>1. q \in Requests /\ pc[q] \notin {"idle", "lookup", "commit"}
  BY DEF IInv, TypeOK, AnsweredOK
<1>2. CASE \E r \in Requests : Begin(r) \/ GetUserByEmail(r)
  BY <1>1, <1>2 DEF Begin, GetUserByEmail, IInv, TypeOK, table
<1>3. CASE UNCHANGED <<op, uid, arg>>
  <2>1. applied \subseteq applied'
    BY <1>3 DEF Next, Proceed, Finished, vars, Begin, Insert, GetUser, GetUserByEmail, FlushUpdate, EnterIndex, BreakDeadlock, Claim,
       Explain, Stamp, Commit, Reload, Refresh, Fail, CommitUnacknowledged, Install, table
  <2> QED  BY <1>3, <2>1
<1> QED  BY <1>2, <1>3 DEF Next, Proceed, Finished, vars, Insert, GetUser, FlushUpdate, EnterIndex, BreakDeadlock, Claim,
            Explain, Stamp, Commit, Reload, Refresh, Fail, CommitUnacknowledged

LEMMA QuietCounts ==
  ASSUME IInv, ClaimsOK, [Next]_vars, UNCHANGED table
  PROVE  ClaimsOK'
<1>1. ASSUME NEW id \in Ids
      PROVE  Deactivations(id)' = Deactivations(id) /\ Reactivations(id)' = Reactivations(id)
  <2>1. \A q \in applied : op'[q] = op[q] /\ uid'[q] = uid[q] /\ arg'[q] = arg[q]
    BY AppliedFixed
  <2> QED  BY <2>1 DEF Deactivations, Reactivations, table
<1> QED  BY <1>1 DEF ClaimsOK, table

LEMMA CommitCounts ==
  ASSUME IInv, FlushedOK, ClaimsOK, NEW r \in Requests, pc[r] = "commit", Install(r),
         UNCHANGED <<op, uid, arg>>
  PROVE  ClaimsOK'
<1> DEFINE id == uid[r]
<1>1. /\ applied' = applied \cup {r} /\ r \notin applied
      /\ IsFiniteSet(applied) /\ IsFiniteSet(applied')
  BY FS_AddElement DEF IInv, AnsweredOK, Install, ClaimsOK
<1>2. /\ users' \in Tables /\ DOMAIN users' = DOMAIN users \cup {id} /\ id \in DOMAIN users'
      /\ \A i \in DOMAIN users \ {id} : users'[i] = users[i]
      /\ users'[id]["active"] =
           IF "active" \in DOMAIN patch[r] THEN patch[r]["active"] ELSE users[id]["active"]
  BY InstallChanges DEF Columns
<1>3. /\ op[r] \in {"create", "update", "deactivate"} \cup Deletes
      /\ op[r] # "create" => id \in DOMAIN users
      /\ op[r] = "create" => id \notin DOMAIN users
  BY DEF IInv, PlacesOK, KeysOK, FreshOK
<1>4. \A i \in DOMAIN users : users[i].active \in BOOLEAN
  BY DEF IInv, TypeOK, Tables, Row
<1>5. /\ op[r] = "deactivate" => users[id].active = TRUE /\ users'[id].active = FALSE
      /\ op[r] = "create" => users'[id].active = TRUE
      /\ op[r] \in Deletes => users'[id].active = users[id].active
      /\ op[r] = "update" =>
           \/ users'[id].active = users[id].active
           \/ "active" \in DOMAIN arg[r] /\ users'[id].active = arg[r].active
  <2>1. op[r] = "deactivate" => users[id].active = TRUE
    BY DEF IInv, PastOK, Status
  <2>2. op[r] = "deactivate" => users'[id].active = FALSE
    <3>1. op[r] = "deactivate" => DOMAIN patch[r] = {"active"} /\ patch[r]["active"] = FALSE
      BY DEF IInv, PatchOK
    <3> QED  BY <1>2, <3>1
  <2>3. op[r] = "create" => users'[id].active = TRUE
    <3>1. op[r] = "create" => patch[r] = [email |-> arg[r]["email"], active |-> TRUE, deleted |-> Null]
      BY DEF FlushedOK
    <3>2. op[r] = "create" => "active" \in DOMAIN patch[r] /\ patch[r]["active"] = TRUE
      BY <3>1
    <3> QED  BY <1>2, <3>2
  <2>4. op[r] \in Deletes => users'[id].active = users[id].active
    <3>1. op[r] \in Deletes => DOMAIN patch[r] = {"deleted"}
      BY DEF IInv, PatchOK
    <3> QED  BY <1>2, <3>1
  <2>5. op[r] = "update" =>
          \/ users'[id].active = users[id].active
          \/ "active" \in DOMAIN arg[r] /\ users'[id].active = arg[r].active
    <3>1. op[r] = "update" => /\ DOMAIN patch[r] \subseteq DOMAIN arg[r]
                              /\ patch[r] = [c \in DOMAIN patch[r] |-> arg[r][c]]
      BY DEF IInv, PatchOK, FlushedOK
    <3>2. op[r] = "update" /\ "active" \in DOMAIN patch[r] =>
            "active" \in DOMAIN arg[r] /\ patch[r]["active"] = arg[r]["active"]
      BY <3>1
    <3> QED  BY <1>2, <3>2
  <2> QED  BY <2>1, <2>2, <2>3, <2>4, <2>5
<1>6. ASSUME NEW i \in Ids, i # id
      PROVE  Deactivations(i)' = Deactivations(i) /\ Reactivations(i)' = Reactivations(i)
  BY <1>1, <1>6 DEF Deactivations, Reactivations
<1>7. Deactivations(id)' = IF op[r] = "deactivate" THEN Deactivations(id) \cup {r} ELSE Deactivations(id)
  BY <1>1 DEF Deactivations
<1>8. Reactivations(id)' =
        IF op[r] = "update" /\ "active" \in DOMAIN arg[r] /\ arg[r].active = TRUE
          THEN Reactivations(id) \cup {r} ELSE Reactivations(id)
  BY <1>1 DEF Reactivations
<1>9. r \notin Deactivations(id) /\ r \notin Reactivations(id)
  BY <1>1 DEF Deactivations, Reactivations
<1> DEFINE D == Cardinality(Deactivations(id))
           R == Cardinality(Reactivations(id))
<1>10. /\ IsFiniteSet(Deactivations(id)) /\ D \in Nat /\ IsFiniteSet(Reactivations(id)) /\ R \in Nat
  BY <1>1, CountsFinite
<1>11. /\ D' = IF op[r] = "deactivate" THEN D + 1 ELSE D
       /\ R' = IF op[r] = "update" /\ "active" \in DOMAIN arg[r] /\ arg[r].active = TRUE
                 THEN R + 1 ELSE R
  BY <1>7, <1>8, <1>9, <1>10, FS_AddElement
<1>12. id \in DOMAIN users => D <= R + (IF users[id].active THEN 0 ELSE 1)
  BY DEF ClaimsOK, IInv, TypeOK, Tables
<1>13. id \notin DOMAIN users => D = 0
  <2>1. id \in Ids
    BY DEF IInv, KeysOK, Steps
  <2> QED  BY <2>1, FS_EmptySet DEF ClaimsOK
<1> HIDE DEF D, R
<1>14. D' <= R' + (IF users'[id].active THEN 0 ELSE 1)
  <2>1. CASE op[r] = "deactivate"
    BY <1>3, <1>5, <1>10, <1>11, <1>12, <2>1
  <2>2. CASE op[r] = "create"
    BY <1>3, <1>5, <1>10, <1>11, <1>13, <2>2
  <2>3. CASE op[r] \in Deletes
    BY <1>3, <1>4, <1>5, <1>10, <1>11, <1>12, <2>3 DEF Deletes
  <2>4. CASE op[r] = "update" /\ users'[id].active = users[id].active
    BY <1>3, <1>4, <1>5, <1>10, <1>11, <1>12, <2>4
  <2>5. CASE op[r] = "update" /\ "active" \in DOMAIN arg[r] /\ users'[id].active = arg[r].active
    <3>1. users'[id].active \in BOOLEAN
      BY <1>2 DEF Tables, Row
    <3> QED  BY <1>3, <1>4, <1>5, <1>10, <1>11, <1>12, <2>5, <3>1
  <2> QED  BY <1>3, <1>5, <2>1, <2>2, <2>3, <2>4, <2>5
<1>15. ASSUME NEW i \in Ids
       PROVE  /\ i \notin DOMAIN users' => Deactivations(i)' = {}
              /\ i \in DOMAIN users' =>
                   Cardinality(Deactivations(i)') <=
                     Cardinality(Reactivations(i)') + (IF users'[i].active THEN 0 ELSE 1)
  <2>1. CASE i = id
    BY <1>2, <1>14, <2>1 DEF D, R
  <2>2. CASE i # id
    BY <1>2, <1>6, <2>2 DEF ClaimsOK
  <2> QED  BY <2>1, <2>2
<1> QED  BY <1>1, <1>15 DEF ClaimsOK

LEMMA ClaimsStart == Init => FlushedOK /\ ClaimsOK
<1> SUFFICES ASSUME Init
             PROVE  FlushedOK /\ ClaimsOK
  OBVIOUS
<1>1. FlushedOK
  BY DEF Init, FlushedOK
<1>2. IsFiniteSet(applied) /\ \A id \in Ids : Deactivations(id) = {} /\ Reactivations(id) = {}
  BY FS_EmptySet DEF Init, Deactivations, Reactivations
<1>3. Cardinality({}) = 0
  BY FS_EmptySet
<1>4. \A i \in DOMAIN users : users[i].active \in BOOLEAN
  BY DEF Init, Tables, Row
<1> QED  BY <1>1, <1>2, <1>3, <1>4 DEF ClaimsOK

LEMMA ClaimsKept == IInv /\ FlushedOK /\ ClaimsOK /\ [Next]_vars => ClaimsOK'
<1> SUFFICES ASSUME IInv, FlushedOK, ClaimsOK, [Next]_vars
             PROVE  ClaimsOK'
  OBVIOUS
<1>1. CASE \E r \in Requests : Commit(r) \/ CommitUnacknowledged(r)
  BY <1>1, CommitCounts DEF Commit, CommitUnacknowledged
<1>2. CASE UNCHANGED table
  BY <1>2, QuietCounts
<1> QED  BY <1>1, <1>2 DEF Next, Proceed, Finished, vars, Begin, Insert, GetUser, GetUserByEmail,
            FlushUpdate, EnterIndex, BreakDeadlock, Claim, Explain, Stamp, Reload, Refresh, Fail, table

\* However many deactivations race for one account, crud.deactivate_user lets at most
\* one of them win for each time the account was active.
THEOREM ClaimsAreWonOnce == Spec => []ClaimWonOncePerActivation
<1>1. Init => FlushedOK /\ ClaimsOK
  BY ClaimsStart
<1>2. IInv /\ FlushedOK /\ ClaimsOK /\ [Next]_vars => FlushedOK' /\ ClaimsOK'
  BY FlushedKept, ClaimsKept
<1>3. ASSUME IInv, ClaimsOK
      PROVE  ClaimWonOncePerActivation
  <2> SUFFICES ASSUME NEW id \in Ids
               PROVE  Cardinality(Deactivations(id)) <= 1 + Cardinality(Reactivations(id))
    BY DEF ClaimWonOncePerActivation
  <2>1. /\ Cardinality(Deactivations(id)) \in Nat /\ Cardinality(Reactivations(id)) \in Nat
    BY <1>3, CountsFinite DEF ClaimsOK
  <2>2. CASE id \in DOMAIN users
    BY <1>3, <2>1, <2>2 DEF ClaimsOK, IInv, TypeOK, Tables, Row
  <2>3. CASE id \notin DOMAIN users
    <3>1. Cardinality(Deactivations(id)) = 0
      BY <1>3, <2>3, FS_EmptySet DEF ClaimsOK
    <3> QED  BY <2>1, <3>1
  <2> QED  BY <2>2, <2>3
<1> QED  BY <1>1, <1>2, <1>3, Invariance, PTL DEF Spec

-----------------------------------------------------------------------------
\* The refinement: the helpers of AccountStore are those of Users.
LEMMA StoreTerms ==
  /\ Store!Kinds = Kinds /\ Store!ByEmail = ByEmail /\ Store!Codes = Codes
  /\ Store!Tables = Tables /\ Store!NoPatch = NoPatch
  /\ \A k : Store!ErrorCode(k) = ErrorCode(k) /\ Store!SuccessCode(k) = SuccessCode(k)
  /\ \A t, i : Store!LiveIn(t, i) = LiveIn(t, i) /\ Store!Status(t, i) = Status(t, i)
  /\ \A t : Store!DistinctEmails(t) <=> DistinctEmails(t)
<1>1. Store!Kinds = Kinds /\ Store!ByEmail = ByEmail /\ Store!Codes = Codes
  BY DEF Store!Kinds, Store!ByEmail, Store!Codes, Kinds, ByEmail, Codes
<1>2. Store!Tables = Tables
  BY DEF Store!Tables, Store!Row, Store!Stamps, Tables, Row, Stamps
<1>3. Store!NoPatch = NoPatch
  BY DEF Store!NoPatch, NoPatch
<1>4. \A k : Store!ErrorCode(k) = ErrorCode(k) /\ Store!SuccessCode(k) = SuccessCode(k)
  BY DEF Store!ErrorCode, Store!SuccessCode, ErrorCode, SuccessCode
<1>5. \A t, i : Store!LiveIn(t, i) = LiveIn(t, i) /\ Store!Status(t, i) = Status(t, i)
  BY DEF Store!LiveIn, Store!Status, LiveIn, Status
<1>6. \A t : Store!DistinctEmails(t) <=> DistinctEmails(t)
  BY DEF Store!DistinctEmails, DistinctEmails
<1> QED  BY <1>1, <1>2, <1>3, <1>4, <1>5, <1>6

LEMMA SuccessCodes ==
  /\ SuccessCode("create") = 201 /\ SuccessCode("update") = 200 /\ SuccessCode("deactivate") = 200
  /\ SuccessCode("get") = 200 /\ SuccessCode("get_by_email") = 200
  /\ SuccessCode("delete") = 204 /\ SuccessCode("delete_by_email") = 204
BY DEF SuccessCode

LEMMA StoreOverwrites ==
  ASSUME NEW t, NEW i, NEW p
  PROVE  Store!Overwrite(t, i, p) = Overwrite(t, i, p)
BY DEF Store!Overwrite, Overwrite, Store!Columns, Columns

\* What the abstract phase is, and how it moves.
LEMMA PhaseOf ==
  /\ DOMAIN Phase = Requests
  /\ \A r \in Requests : /\ pc[r] = "idle" => Phase[r] = "idle"
                         /\ pc[r] = "done" => Phase[r] = "done"
                         /\ pc[r] \in Steps => Phase[r] = "open"
BY DEF Phase, Steps

LEMMA PhaseMoves ==
  ASSUME IInv, NEW r \in Requests, NEW s \in {"done"} \cup Steps, pc' = [pc EXCEPT ![r] = s]
  PROVE  Phase' = [Phase EXCEPT ![r] = IF s = "done" THEN "done" ELSE "open"]
<1>1. Phase = [q \in Requests |-> CASE pc[q] = "idle" -> "idle"
                                    [] pc[q] = "done" -> "done"
                                    [] OTHER          -> "open"]
  BY DEF Phase
<1>2. Phase' = [q \in Requests |-> CASE pc'[q] = "idle" -> "idle"
                                     [] pc'[q] = "done" -> "done"
                                     [] OTHER           -> "open"]
  BY DEF Phase
<1>3. \A q \in Requests : pc'[q] = IF q = r THEN s ELSE pc[q]
  BY DEF IInv, TypeOK
<1>4. s # "idle"
  BY DEF Steps
<1> HIDE DEF Phase
<1>5. \A q \in Requests : Phase'[q] = IF q = r THEN (IF s = "done" THEN "done" ELSE "open") ELSE Phase[q]
  BY <1>1, <1>2, <1>3, <1>4
<1> QED  BY <1>1, <1>2, <1>5

\* The shape of a step that resolves, changes or answers, or does several of the three.
LEMMA StoreStep ==
  ASSUME NEW r \in Requests,
         Store!Resolve(r) \/ UNCHANGED uid,
         Store!Change(r) \/ UNCHANGED <<users, applied>>,
         Store!Reply(r) \/ UNCHANGED <<Phase, resp>>,
         UNCHANGED <<op, arg>>
  PROVE  Store!Next
BY DEF Store!Next

\* A request that arrives is sent.
LEMMA BeginSends ==
  ASSUME IInv, NEW r \in Requests, Begin(r)
  PROVE  Store!Next
<1>1. PICK k \in Offered : \E in \in Inputs(k) :
        /\ op' = [op EXCEPT ![r] = k]
        /\ uid' = [uid EXCEPT ![r] = in[1]]
        /\ arg' = [arg EXCEPT ![r] = in[2]]
        /\ Goto(r, FirstStep(k))
  BY DEF Begin
<1>2. PICK in \in Inputs(k) :
        /\ op' = [op EXCEPT ![r] = k]
        /\ uid' = [uid EXCEPT ![r] = in[1]]
        /\ arg' = [arg EXCEPT ![r] = in[2]]
        /\ Goto(r, FirstStep(k))
  BY <1>1
<1>3. k \in Kinds /\ FirstStep(k) \in Steps /\ FirstStep(k) # "done"
  BY OfferedAreKinds DEF FirstStep, Steps
<1>4. pc[r] = "idle" /\ pc' = [pc EXCEPT ![r] = FirstStep(k)] /\ UNCHANGED <<users, applied, resp>>
  BY <1>2 DEF Begin, Goto, table
<1>5. Phase[r] = "idle" /\ Phase' = [Phase EXCEPT ![r] = "open"]
  BY <1>3, <1>4, PhaseOf, PhaseMoves
<1>6. in[1] \in Ids \cup {Null}
  BY <1>3 DEF Inputs, FreshIds, Unborn, Kinds, ByEmail
<1>7. in[2] \in Store!Asks
  <2>1. \A S \in SUBSET {"email", "active"} : \A a \in [S -> Emails \cup BOOLEAN \cup {Null}] : a \in Store!Asks
    BY DEF Store!Asks
  <2>2. \A a \in [{"email"} -> Emails] : a \in [{"email"} -> Emails \cup BOOLEAN \cup {Null}]
    OBVIOUS
  <2>3. \A a \in [{"email"} -> Emails] : a \in Store!Asks
    BY <2>1, <2>2
  <2>4. \A b \in Bodies : b \in Store!Asks
    BY <2>1, BodiesAreUpdates
  <2>5. NoPatch \in [{} -> Emails \cup BOOLEAN \cup {Null}]
    BY DEF NoPatch
  <2>6. NoPatch \in Store!Asks
    BY <2>1, <2>5
  <2> QED  BY <1>3, <2>3, <2>4, <2>6 DEF Inputs, Kinds, ByEmail
<1>8. Store!Send(r)
  BY <1>2, <1>3, <1>4, <1>5, <1>6, <1>7, StoreTerms DEF Store!Send
<1> QED  BY <1>8 DEF Store!Next

\* A handler that goes on to another statement and changes nothing the client or the
\* table could tell.
LEMMA GotoStutters ==
  ASSUME IInv, NEW r \in Requests, pc[r] \in Steps, NEW s \in Steps, Goto(r, s),
         UNCHANGED <<table, op, uid, arg>>
  PROVE  UNCHANGED Store!vars
<1>1. s # "done" /\ pc' = [pc EXCEPT ![r] = s] /\ resp' = resp
  BY DEF Steps, Goto
<1>2. Phase' = [Phase EXCEPT ![r] = "open"] /\ Phase[r] = "open" /\ DOMAIN Phase = Requests
  BY <1>1, PhaseMoves, PhaseOf
<1>3. Phase = [q \in Requests |-> Phase[q]]
  BY DEF Phase
<1>4. Phase' = Phase
  BY <1>2, <1>3
<1> QED  BY <1>1, <1>4 DEF Store!vars, table

\* A handler that answers with a code the promise allows.
LEMMA AnswerReplies ==
  ASSUME IInv, NEW r \in Requests, pc[r] \in Steps, NEW code \in Codes \cup {0},
         Answer(r, code), Store!MaySend(r, code)
  PROVE  Store!Reply(r)
<1>1. Phase' = [Phase EXCEPT ![r] = "done"] /\ Phase[r] = "open"
  BY PhaseMoves, PhaseOf DEF Answer
<1> QED  BY <1>1, StoreTerms DEF Store!Reply, Answer

\* An answer without a change of the table.
LEMMA AnswerMaps ==
  ASSUME IInv, NEW r \in Requests, pc[r] \in Steps, NEW code \in Codes \cup {0},
         Answer(r, code), UNCHANGED <<table, op, uid, arg>>,
         \/ code \in {0, ErrorCode(op[r])}
         \/ code = 200 /\ (op[r] = "get" \/ (pc[r] = "refresh" /\ FlushedOK))
         \/ /\ code = 404 /\ op[r] # "create" /\ (op[r] = "deactivate" \/ r \notin applied)
            /\ uid[r] # Null /\ ~LiveIn(users, uid[r])
         \/ /\ code = 404 /\ op[r] \in ByEmail /\ r \notin applied /\ uid[r] = Null
            /\ \A i \in DOMAIN users : ~(LiveIn(users, i) /\ users[i].email = arg[r].email)
         \/ /\ code = 409 /\ op[r] = "create" /\ r \notin applied
            /\ \E i \in DOMAIN users : users[i].email = arg[r].email
         \/ code = 409 /\ op[r] = "deactivate" /\ r \notin applied
  PROVE  Store!Next
<1>1. applied' = applied /\ users' = users
  BY DEF table
<1>2. code = 200 => code = SuccessCode(op[r]) /\ (op[r] = "get" \/ r \in applied)
  <2>1. code = 200 => op[r] = "get" \/ (op[r] = "deactivate" /\ r \in applied)
    <3>1. pc[r] = "refresh" => op[r] = "deactivate"
      BY DEF IInv, PlacesOK
    <3>2. pc[r] = "refresh" /\ FlushedOK => r \in applied
      BY DEF FlushedOK
    <3>3. ErrorCode(op[r]) # 200
      BY DEF ErrorCode
    <3> QED  BY <3>1, <3>2, <3>3
  <2> QED  BY <2>1, SuccessCodes
<1>3. Store!MaySend(r, code)
  BY <1>1, <1>2, StoreTerms DEF Store!MaySend, ByEmail
<1>4. Store!Reply(r)
  BY <1>3, AnswerReplies
<1> QED  BY <1>1, <1>4, StoreStep

\* Each action of Users that leaves the table alone.
LEMMA InsertMaps ==
  ASSUME IInv, NEW r \in Requests, Insert(r)
  PROVE  Store!Next \/ UNCHANGED Store!vars
<1>1. pc[r] \in Steps /\ op[r] = "create" /\ r \notin applied /\ UNCHANGED <<table, op, uid, arg>>
  BY DEF Insert, Steps, IInv, AnsweredOK
<1>2. CASE Goto(r, "commit")
  BY <1>1, <1>2, GotoStutters DEF Steps
<1>3. CASE Answer(r, 409) /\ Taken(uid[r], arg[r].email)
  <2>1. \E i \in DOMAIN users : users[i].email = arg[r].email
    BY <1>3 DEF Taken
  <2> QED  BY <1>1, <1>3, <2>1, AnswerMaps DEF Codes
<1> QED  BY <1>2, <1>3 DEF Insert

LEMMA GetUserMaps ==
  ASSUME IInv, NEW r \in Requests, GetUser(r)
  PROVE  Store!Next \/ UNCHANGED Store!vars
<1>1. /\ pc[r] \in Steps /\ op[r] \in {"get", "update"} \cup Deletes /\ r \notin applied
      /\ UNCHANGED <<table, op, uid, arg>> /\ uid[r] # Null
  BY NullIsNoValue DEF GetUser, Steps, IInv, AnsweredOK, PlacesOK, KeysOK
<1>2. CASE Goto(r, "write")
  BY <1>1, <1>2, GotoStutters DEF Steps
<1>3. CASE Answer(r, 404) /\ ~Live(uid[r])
  BY <1>1, <1>3, AnswerMaps DEF Codes, Live, Deletes
<1>4. CASE Answer(r, 200) /\ op[r] = "get"
  BY <1>1, <1>4, AnswerMaps DEF Codes
<1> QED  BY <1>2, <1>3, <1>4 DEF GetUser

LEMMA GetUserByEmailMaps ==
  ASSUME IInv, NEW r \in Requests, GetUserByEmail(r)
  PROVE  Store!Next \/ UNCHANGED Store!vars
<1>1. /\ pc[r] \in Steps /\ op[r] \in ByEmail /\ r \notin applied /\ uid[r] = Null
      /\ UNCHANGED <<table, op, arg>>
  BY DEF GetUserByEmail, Steps, IInv, AnsweredOK, PlacesOK, KeysOK
<1>2. \A i \in DOMAIN users : i \in Ids
  BY DEF IInv, TypeOK, Tables
<1>3. CASE Answer(r, 404) /\ UNCHANGED uid /\ {i \in Ids : Live(i) /\ users[i].email = arg[r].email} = {}
  <2>1. \A i \in DOMAIN users : ~(LiveIn(users, i) /\ users[i].email = arg[r].email)
    BY <1>2, <1>3 DEF Live
  <2> QED  BY <1>1, <1>3, <2>1, AnswerMaps DEF Codes
<1>4. ASSUME NEW id \in Ids, Live(id), users[id].email = arg[r].email, uid' = [uid EXCEPT ![r] = id],
             \/ op[r] = "get_by_email" /\ Answer(r, 200)
             \/ op[r] = "delete_by_email" /\ Goto(r, "read")
      PROVE  Store!Next
  <2>1. Store!Resolve(r)
    BY <1>1, <1>4, PhaseOf, StoreTerms DEF Store!Resolve, Live
  <2>2. CASE op[r] = "get_by_email" /\ Answer(r, 200)
    <3>1. Store!MaySend(r, 200)
      BY <2>2, StoreTerms, SuccessCodes DEF Store!MaySend
    <3>2. Store!Reply(r)
      BY <1>1, <2>2, <3>1, AnswerReplies DEF Codes
    <3> QED  BY <1>1, <2>1, <3>2, StoreStep DEF table
  <2>3. CASE Goto(r, "read")
    <3>1. UNCHANGED <<Phase, resp>>
      <4>1. pc' = [pc EXCEPT ![r] = "read"] /\ resp' = resp /\ "read" \in Steps
        BY <2>3 DEF Goto, Steps
      <4>2. Phase' = [Phase EXCEPT ![r] = "open"] /\ Phase[r] = "open"
        BY <1>1, <4>1, PhaseMoves, PhaseOf
      <4>3. Phase = [q \in Requests |-> Phase[q]]
        BY DEF Phase
      <4> QED  BY <4>1, <4>2, <4>3
    <3> QED  BY <1>1, <2>1, <3>1, StoreStep DEF table
  <2> QED  BY <1>4, <2>2, <2>3
<1> QED  BY <1>3, <1>4 DEF GetUserByEmail

LEMMA WritersMap ==
  ASSUME IInv, NEW r \in Requests, 
         \/ FlushUpdate(r) \/ EnterIndex(r) \/ BreakDeadlock(r)
         \/ Claim(r) \/ Stamp(r) \/ Explain(r)
  PROVE  Store!Next \/ UNCHANGED Store!vars
<1>1. /\ pc[r] \in {"write", "index", "explain"} /\ pc[r] \in Steps /\ r \notin applied
      /\ UNCHANGED <<table, op, uid, arg>>
  BY DEF FlushUpdate, EnterIndex, BreakDeadlock, Deadlocked, Waits, Claim, Stamp, Explain, Steps, IInv, AnsweredOK
<1>2. CASE \E s \in {"index", "commit", "explain"} : Goto(r, s)
  BY <1>1, <1>2, GotoStutters DEF Steps
<1>3. CASE Answer(r, ErrorCode("update")) /\ op[r] = "update"
  <2>1. ErrorCode("update") \in Codes
    BY DEF ErrorCode, Codes
  <2> QED  BY <1>1, <1>3, <2>1, AnswerMaps
<1>4. CASE Explain(r)
  <2>1. op[r] = "deactivate" /\ uid[r] # Null
    BY <1>4, NullIsNoValue DEF Explain, IInv, PlacesOK, KeysOK, Steps
  <2>2. CASE Live(uid[r])
    BY <1>1, <1>4, <2>1, <2>2, AnswerMaps DEF Explain, Codes
  <2>3. CASE ~Live(uid[r])
    BY <1>1, <1>4, <2>1, <2>3, AnswerMaps DEF Explain, Codes, Live
  <2> QED  BY <2>2, <2>3
<1>5. pc[r] = "index" => op[r] = "update"
  BY DEF IInv, PlacesOK
<1>6. BreakDeadlock(r) => pc[r] = "index"
  BY DEF BreakDeadlock, Deadlocked, Waits
<1> QED  BY <1>2, <1>3, <1>4, <1>5, <1>6 DEF FlushUpdate, EnterIndex, BreakDeadlock, Claim, Stamp

LEMMA AfterCommitMaps ==
  ASSUME IInv, FlushedOK, NEW r \in Requests, Reload(r) \/ Refresh(r)
  PROVE  Store!Next \/ UNCHANGED Store!vars
<1>1. /\ pc[r] \in {"reload", "refresh"} /\ pc[r] \in Steps /\ op[r] = "deactivate" /\ uid[r] # Null
      /\ UNCHANGED <<table, op, uid, arg>>
  BY NullIsNoValue DEF Reload, Refresh, Steps, IInv, PlacesOK, KeysOK
<1>2. CASE Goto(r, "refresh")
  BY <1>1, <1>2, GotoStutters DEF Steps
<1>3. CASE Answer(r, 404) /\ ~Live(uid[r])
  BY <1>1, <1>3, AnswerMaps DEF Codes, Live
<1>4. CASE Answer(r, 200) /\ pc[r] = "refresh"
  BY <1>1, <1>4, AnswerMaps DEF Codes
<1> QED  BY <1>2, <1>3, <1>4 DEF Reload, Refresh

LEMMA FailMaps ==
  ASSUME IInv, NEW r \in Requests, Fail(r)
  PROVE  Store!Next
<1>1. PICK code \in {ErrorCode(op[r]), 0} : Answer(r, code)
  BY DEF Fail
<1>2. code \in Codes \cup {0}
  BY DEF ErrorCode, Codes
<1> QED  BY <1>1, <1>2, AnswerMaps DEF Fail

\* A commit is the change its route promises.
LEMMA CommitChanges ==
  ASSUME IInv, IInv', FlushedOK, NEW r \in Requests, pc[r] = "commit", Install(r)
  PROVE  Store!Change(r)
<1> DEFINE id == uid[r]
<1>1. /\ Phase[r] = "open" /\ r \notin applied /\ applied' = applied \cup {r}
      /\ users' \in Store!Tables /\ Store!DistinctEmails(users')
  BY PhaseOf, StoreTerms DEF Steps, IInv, AnsweredOK, Install, TypeOK, EmailUnique
<1>2. /\ op[r] \in {"create", "update", "deactivate"} \cup Deletes
      /\ op[r] # "create" => id \in DOMAIN users
      /\ op[r] = "create" => id \notin DOMAIN users
      /\ op[r] = "deactivate" => Status(users, id) = "active"
  BY DEF IInv, PlacesOK, KeysOK, FreshOK, PastOK
\* The installed table is the old one with the flushed columns, also when there are none.
<1>3. users' = Overwrite(users, id, patch[r])
  <2>1. CASE DOMAIN patch[r] # {}
    BY <2>1 DEF Install
  <2>2. CASE DOMAIN patch[r] = {}
    <3>1. users' = users /\ id \in DOMAIN users
      BY <1>2, <2>2 DEF Install, IInv, PatchOK, Columns
    <3>2. \A i \in DOMAIN users : users[i] = [c \in Columns |-> users[i][c]]
      BY DEF IInv, TypeOK, Tables, Row, Columns
    <3>3. users = [i \in DOMAIN users |-> users[i]]
      BY DEF IInv, TypeOK, Tables
    <3>4. [c \in Columns |-> IF c \in DOMAIN patch[r] THEN patch[r][c] ELSE users[id][c]]
            = [c \in Columns |-> users[id][c]]
      BY <2>2
    <3>5. Overwrite(users, id, patch[r]) = [i \in DOMAIN users |-> users[i]]
      BY <3>1, <3>2, <3>4 DEF Overwrite
    <3> QED  BY <3>1, <3>3, <3>5
  <2> QED  BY <2>1, <2>2
<1>4. users' = Store!Overwrite(users, id, patch[r])
  BY <1>3, StoreOverwrites
<1>5. Store!Changes(r, users')
  <2>1. CASE op[r] = "create"
    <3>1. patch[r] = [email |-> arg[r].email, active |-> TRUE, deleted |-> Null]
      BY <2>1 DEF FlushedOK
    <3>2. users' = Store!Overwrite(users, uid[r], [email |-> arg[r].email, active |-> TRUE, deleted |-> Null])
      BY <1>4, <3>1
    <3> QED  BY <1>2, <2>1, <3>2 DEF Store!Changes
  <2>2. CASE op[r] = "update"
    <3>1. DOMAIN patch[r] \in SUBSET DOMAIN arg[r] /\ patch[r] = [c \in DOMAIN patch[r] |-> arg[r][c]]
      BY <2>2 DEF FlushedOK, IInv, PatchOK
    <3>2. \E S \in SUBSET DOMAIN arg[r] : patch[r] = [c \in S |-> arg[r][c]]
      BY <3>1
    <3>3. \E S \in SUBSET DOMAIN arg[r] : users' = Store!Overwrite(users, uid[r], [c \in S |-> arg[r][c]])
      BY <1>4, <3>2
    <3> QED  BY <1>2, <2>2, <3>3 DEF Store!Changes
  <2>3. CASE op[r] = "deactivate"
    <3>1. patch[r] = [active |-> FALSE]
      BY <2>3 DEF FlushedOK
    <3>2. users' = Store!Overwrite(users, uid[r], [active |-> FALSE])
      BY <1>4, <3>1
    <3> QED  BY <1>2, <2>3, <3>2, StoreTerms DEF Store!Changes
  <2>4. CASE op[r] \in Deletes
    <3>1. patch[r] = [deleted |-> r]
      BY <2>4 DEF FlushedOK
    <3>2. users' = Store!Overwrite(users, uid[r], [deleted |-> r])
      BY <1>4, <3>1
    <3> QED  BY <1>2, <2>4, <3>2 DEF Store!Changes, Deletes
  <2> QED  BY <1>2, <2>1, <2>2, <2>3, <2>4
<1> QED  BY <1>1, <1>5 DEF Store!Change

LEMMA CommitMaps ==
  ASSUME IInv, IInv', FlushedOK, NEW r \in Requests, Commit(r) \/ CommitUnacknowledged(r)
  PROVE  Store!Next
<1>1. /\ pc[r] = "commit" /\ pc[r] \in Steps /\ Install(r) /\ UNCHANGED <<op, uid, arg>>
      /\ r \in applied'
  BY DEF Commit, CommitUnacknowledged, Install, Steps
<1>2. Store!Change(r)
  BY <1>1, CommitChanges
<1>3. ASSUME NEW code \in Codes \cup {0}, Answer(r, code),
             code \in {0, ErrorCode(op[r])} \/ code = SuccessCode(op[r])
      PROVE  Store!Next
  <2>1. Store!MaySend(r, code)
    BY <1>1, <1>3, StoreTerms DEF Store!MaySend
  <2>2. Store!Reply(r)
    BY <1>1, <1>3, <2>1, AnswerReplies
  <2> QED  BY <1>1, <1>2, <2>2, StoreStep
<1>4. CASE Answer(r, SuccessCode(op[r]))
  <2>1. SuccessCode(op[r]) \in Codes
    BY SuccessCodes DEF IInv, TypeOK, Kinds, Codes
  <2> QED  BY <1>3, <1>4, <2>1
<1>5. CASE \E code \in {ErrorCode(op[r]), 0} : Answer(r, code)
  <2>1. ErrorCode(op[r]) \in Codes
    BY DEF ErrorCode, Codes
  <2> QED  BY <1>3, <1>5, <2>1
<1>6. CASE Goto(r, "reload")
  <2>1. pc' = [pc EXCEPT ![r] = "reload"] /\ resp' = resp /\ "reload" \in Steps
    BY <1>6 DEF Goto, Steps
  <2>2. Phase' = [Phase EXCEPT ![r] = "open"] /\ Phase[r] = "open"
    BY <1>1, <2>1, PhaseMoves, PhaseOf
  <2>3. Phase = [q \in Requests |-> Phase[q]]
    BY DEF Phase
  <2>4. UNCHANGED <<Phase, resp>>
    BY <2>1, <2>2, <2>3
  <2> QED  BY <1>1, <1>2, <2>4, StoreStep
<1> QED  BY <1>4, <1>5, <1>6 DEF Commit, CommitUnacknowledged

LEMMA InitMaps == Init => Store!Init
<1> SUFFICES ASSUME Init
             PROVE  Store!Init
  OBVIOUS
<1>1. Phase = [r \in Requests |-> "idle"]
  BY DEF Phase, Init
<1> QED  BY <1>1, StoreTerms DEF Init, Store!Init

LEMMA StepMaps == IInv /\ IInv' /\ FlushedOK /\ [Next]_vars => [Store!Next]_(Store!vars)
<1> SUFFICES ASSUME IInv, IInv', FlushedOK, [Next]_vars
             PROVE  Store!Next \/ UNCHANGED Store!vars
  OBVIOUS
<1>1. ASSUME NEW r \in Requests, Begin(r)
      PROVE  Store!Next
  BY <1>1, BeginSends
<1>2. ASSUME NEW r \in Requests, Proceed(r)
      PROVE  Store!Next \/ UNCHANGED Store!vars
  BY <1>2, InsertMaps, GetUserMaps, GetUserByEmailMaps, WritersMap, AfterCommitMaps, CommitMaps DEF Proceed
<1>3. ASSUME NEW r \in Requests, Fail(r) \/ CommitUnacknowledged(r)
      PROVE  Store!Next
  BY <1>3, FailMaps, CommitMaps
<1>4. CASE UNCHANGED vars
  <2>1. Phase' = Phase
    BY <1>4 DEF Phase, vars
  <2> QED  BY <1>4, <2>1 DEF vars, table, Store!vars
<1> QED  BY <1>1, <1>2, <1>3, <1>4 DEF Next, Finished

\* The handlers, their transactions, their row locks and their failures keep the promise
\* of AccountStore: every request is one change, made or not made, between its arrival and
\* its answer.
THEOREM Implements == Spec => ImplementsStore
<1>1. Init => Store!Init
  BY InitMaps
<1>2. Init => FlushedOK
  BY ClaimsStart
<1>3. IInv /\ FlushedOK /\ [Next]_vars => FlushedOK'
  BY FlushedKept
<1>4. IInv /\ IInv' /\ FlushedOK /\ [Next]_vars => [Store!Next]_(Store!vars)
  BY StepMaps
<1> QED  BY <1>1, <1>2, <1>3, <1>4, Invariance, PTL DEF Spec, ImplementsStore, Store!Spec
=============================================================================
