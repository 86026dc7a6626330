------------------------------- MODULE UserRows -------------------------------
(***************************************************************************)
(* The data the users API works on: the rows of the users table as its     *)
(* handlers see them (src/src/users/models.py), the routes, and what a     *)
(* statement does to the table.  Shared by the promise the API makes       *)
(* (AccountStore) and by the handlers that keep it (Users).                *)
(*                                                                         *)
(* A row keeps the columns the handlers branch on.  deleted is NULL or the *)
(* request whose datetime.now() it holds, so two timestamps are two values.*)
(***************************************************************************)
EXTENDS Naturals

CONSTANTS Requests,   \* requests a client may send, each once
          Ids,        \* primary keys: bounds the number of rows
          Emails,
          Null,       \* SQL NULL, None
          Earlier     \* deleted_at of a row deleted before the run began

\* A missing value is neither a value of a column nor a key.
ASSUME NullIsNoValue ==
  /\ Null \notin Ids \cup Emails \cup BOOLEAN \cup Requests \cup {Earlier}
  /\ Earlier \notin Requests

Columns == {"email", "active", "deleted"}
Stamps  == Requests \cup {Earlier}
Row     == [email : Emails, active : BOOLEAN, deleted : Stamps \cup {Null}]

\* The tables that exist: partial functions from keys to rows.
Tables == UNION {[S -> Row] : S \in SUBSET Ids}

Kinds == {"create", "get", "get_by_email", "update", "deactivate", "delete",
          "delete_by_email"}
ByEmail == {"get_by_email", "delete_by_email"}
Codes == {200, 201, 204, 404, 409, 500, 503}

\* What the error path of the route answers: update_user and delete_user by id
\* let a SQLAlchemyError through, every other handler turns it into a 503.
ErrorCode(k) == IF k \in {"update", "delete"} THEN 500 ELSE 503

SuccessCode(k) == CASE k = "create"                          -> 201
                    [] k \in {"delete", "delete_by_email"}   -> 204
                    [] OTHER                                 -> 200

\* Mutant: the filter on deleted_at is forgotten.
PresentIn(tbl, id) == id \in DOMAIN tbl

\* WHERE id = :id AND deleted_at IS NULL
LiveIn(tbl, id) == id \in DOMAIN tbl /\ tbl[id].deleted = Null

\* The same row with the columns of p overwritten: UPDATE ... SET p, or an
\* INSERT when the id is new.
Overwrite(tbl, id, p) ==
  [i \in DOMAIN tbl \cup {id} |->
     IF i # id THEN tbl[i]
     ELSE [c \in Columns |-> IF c \in DOMAIN p THEN p[c] ELSE tbl[id][c]]]

NoPatch == [c \in {} |-> Null]

\* The constraint uq_users_email, over every row, soft-deleted ones too.
DistinctEmails(tbl) ==
  \A i, j \in DOMAIN tbl : tbl[i].email = tbl[j].email => i = j

Status(tbl, id) ==
  IF id \notin DOMAIN tbl          THEN "absent"
  ELSE IF tbl[id].deleted # Null   THEN "deleted"
  ELSE IF tbl[id].active = TRUE THEN "active" ELSE "inactive"

Statuses == {"absent", "deleted", "active", "inactive"}

=============================================================================
