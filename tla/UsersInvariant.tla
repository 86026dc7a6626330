---------------------------- MODULE UsersInvariant ----------------------------
(***************************************************************************)
(* Why the users API keeps its promises: an inductive invariant of Users.  *)
(* The parts say, for a handler that stands at a statement, what its       *)
(* earlier statements have established and no other request can undo.      *)
(***************************************************************************)
EXTENDS Users

Deletes == {"delete", "delete_by_email"}

\* Which handlers reach which statement.
PlacesOK ==
  \A r \in Requests :
    /\ pc[r] = "read" => op[r] \in {"get", "update"} \cup Deletes
    /\ pc[r] = "lookup" => op[r] \in ByEmail
    /\ pc[r] \in {"write", "commit"} => op[r] \in {"create", "update", "deactivate"} \cup Deletes
    /\ pc[r] = "index" => op[r] = "update"
    /\ pc[r] \in {"explain", "reload", "refresh"} => op[r] = "deactivate"

\* The input a handler was entered with.
InputsOK ==
  \A r \in Requests :
    /\ op[r] \in {"create"} \cup ByEmail => arg[r] \in [{"email"} -> Emails]
    /\ op[r] = "update" => arg[r] \in Bodies
    /\ op[r] \in {"get", "deactivate", "delete"} => DOMAIN arg[r] = {}

\* A handler past its lookup has the key of a row; one that read the row, of a row
\* that is there, with its attributes loaded.
KeysOK ==
  \A r \in Requests :
    /\ pc[r] \in {"idle", "lookup"} => uid[r] = Null
    /\ pc[r] \in Steps \ {"lookup"} => uid[r] \in Ids
    /\ \/ pc[r] = "write" /\ op[r] \in {"update"} \cup Deletes
       \/ pc[r] \in {"index", "commit"} /\ op[r] # "create"
       \/ pc[r] \in {"reload", "refresh"}
       => uid[r] \in DOMAIN users
    /\ pc[r] = "write" /\ op[r] \in {"update"} \cup Deletes => seen[r] \in Row

\* What a handler has flushed is what its route writes, within the constraints of
\* the columns.
PatchOK ==
  \A r \in Requests :
    /\ pc[r] \notin {"index", "commit"} => DOMAIN patch[r] = {}
    /\ pc[r] = "index" => "email" \in DOMAIN patch[r]
    /\ pc[r] \in {"index", "commit"} =>
         /\ "email" \in DOMAIN patch[r] => patch[r]["email"] \in Emails
         /\ "active" \in DOMAIN patch[r] => patch[r]["active"] \in BOOLEAN
         /\ op[r] = "create" => /\ DOMAIN patch[r] = Columns
                                /\ patch[r]["deleted"] = Null
         /\ op[r] = "update" => /\ DOMAIN patch[r] \subseteq DOMAIN arg[r]
                                /\ "deleted" \notin DOMAIN patch[r]
         /\ op[r] = "deactivate" => /\ DOMAIN patch[r] = {"active"}
                                    /\ patch[r]["active"] = FALSE
         /\ op[r] \in Deletes => /\ DOMAIN patch[r] = {"deleted"}
                                 /\ patch[r]["deleted"] = r

\* The key of an insert under way is nobody else's.
FreshOK ==
  \A r \in Requests :
    op[r] = "create" /\ pc[r] \in {"write", "commit"} =>
      /\ uid[r] \notin DOMAIN users
      /\ \A q \in Requests \ {r} : uid[q] # uid[r]

\* The row lock: a row has at most one uncommitted version.
RowLocked ==
  \A r, q \in Requests : Writing(r) /\ Writing(q) /\ uid[r] = uid[q] => r = q

\* The unique index: an email entered and not yet committed belongs to no other row,
\* committed or entered.
EmailLocked ==
  \A r \in Requests :
    pc[r] = "commit" /\ "email" \in DOMAIN patch[r] =>
      /\ ~Taken(uid[r], patch[r]["email"])
      /\ \A q \in Requests \ {r} : ~Entered(q, patch[r]["email"])

\* What a handler under way knows of its row's past.
PastOK ==
  \A r \in Requests :
    /\ pc[r] \in Steps => Status(users, uid[r]) \in was[r]
    /\ pc[r] \in {"write", "index", "commit"} /\ op[r] \in {"update"} \cup Deletes =>
         was[r] \cap {"active", "inactive"} # {}
    /\ pc[r] = "explain" /\ Live(uid[r]) => "inactive" \in was[r]
    /\ pc[r] = "commit" /\ op[r] = "deactivate" => Status(users, uid[r]) = "active"
    /\ pc[r] \in {"reload", "refresh"} => {"active", "inactive"} \subseteq was[r]

\* Who is answered what, who has committed, and which requests were over when another was sent.
AnsweredOK ==
  \A r \in Requests :
    /\ resp[r] # 0 => pc[r] = "done"
    /\ r \in applied => pc[r] \in {"reload", "refresh", "done"}
    /\ resp[r] = 204 => op[r] \in Deletes
    /\ resp[r] = 201 => op[r] = "create"
    /\ \A q \in before[r] : pc[q] = "done"

\* A deleted row carries the stamp of a delete that took effect, or is older than
\* the run.
StampsOK ==
  \A i \in DOMAIN users :
    users[i].deleted \in {Null, Earlier}
      \cup {d \in applied : op[d] \in Deletes /\ uid[d] = i}

\* After the 204 of a delete the row stays deleted, and a later request for it has
\* not got past the statement that filters deleted rows.
DeletedOK ==
  \A r \in Requests : resp[r] = 204 =>
    /\ uid[r] \in DOMAIN users /\ users[uid[r]].deleted # Null
    /\ \A q \in Requests : r \in before[q] /\ uid[q] = uid[r] =>
         \/ pc[q] \in {"read", "explain"}
         \/ pc[q] = "write" /\ op[q] = "deactivate"
         \/ pc[q] = "done" /\ resp[q] \in {404, ErrorCode(op[q]), 0}

\* After the 201 of a create the row is there, and deleted only by a request.
CreatedOK ==
  \A r \in Requests : resp[r] = 201 =>
    /\ uid[r] \in DOMAIN users /\ users[uid[r]].deleted # Earlier

IInv ==
  /\ TypeOK /\ PlacesOK /\ InputsOK /\ KeysOK /\ PatchOK /\ FreshOK
  /\ RowLocked /\ EmailUnique /\ EmailLocked
  /\ PastOK /\ AnsweredOK /\ AnswerJustified
  /\ StampsOK /\ DeletedOK /\ CreatedOK /\ CreatedStaysFound

\* What has been flushed comes from the body, and a deactivation that goes on after its
\* commit has made its change.
FlushedOK ==
  \A r \in Requests :
    /\ pc[r] = "commit" /\ op[r] = "create" =>
         patch[r] = [email |-> arg[r]["email"], active |-> TRUE, deleted |-> Null]
    /\ pc[r] \in {"index", "commit"} /\ op[r] = "update" =>
         patch[r] = [c \in DOMAIN patch[r] |-> arg[r][c]]
    /\ pc[r] = "commit" /\ op[r] = "deactivate" => patch[r] = [active |-> FALSE]
    /\ pc[r] = "commit" /\ op[r] \in Deletes => patch[r] = [deleted |-> r]
    /\ pc[r] = "refresh" \/ pc[r] = "reload" => r \in applied

\* An active row has been deactivated no more often than reactivated, an inactive one at
\* most once more, and a row that is not there never.
ClaimsOK ==
  /\ IsFiniteSet(applied)
  /\ \A id \in Ids :
       /\ id \notin DOMAIN users => Deactivations(id) = {}
       /\ id \in DOMAIN users =>
            Cardinality(Deactivations(id)) <=
              Cardinality(Reactivations(id)) + (IF users[id].active THEN 0 ELSE 1)
=============================================================================
