------------------------ MODULE MiddlewareInvariant ------------------------
(***************************************************************************)
(* An inductive invariant of Middleware which implies the properties that  *)
(* are checked of it: for each request how far it has come, and what each  *)
(* layer it has passed has left behind.                                    *)
(***************************************************************************)
EXTENDS Middleware

\* Where the layers stand in the stack.
VersionAt     == 2
LogAt         == 3
CountAt       == 4
CorrelationAt == 5

\* Request r has called, and then has left, the layer at this level.
Passed(r, level) == way[r] \in {"out", "raise", "done"} \/ (way[r] = "in" /\ depth[r] > level)
Left(r, level)   == way[r] \in {"out", "raise"} /\ depth[r] < level

Bodies == Docs \cup {Down, Alive, None} \cup [served : Nat, first : Requests]

Replies == [status : Nat, body : Bodies, version : BOOLEAN, id : Ids \cup {None}]

Events == {"request_started", "request_completed", "request_error"}
Lines  == [event : Events, request : Requests, status : Nat, id : Ids \cup {None}]

FormOK ==
  /\ doc \in [Users -> Docs] /\ first \in Requests \cup {None}
  /\ ask \in [Requests -> Asks \cup {None}]
  /\ way \in [Requests -> {"idle", "in", "out", "raise", "done"}]
  /\ depth \in [Requests -> 0..Bottom]
  /\ ctx \in [Requests -> [1..Bottom -> Ids \cup {None}]]
  /\ named \in [Requests -> Ids \cup {None}]
  /\ reply \in [Requests -> Replies]
  /\ lines \subseteq Lines
  /\ seen \in [Requests -> SUBSET Docs]
  /\ before \in [Requests -> SUBSET Requests]

\* Where a request can be.
Position(r) ==
  /\ ask[r] = None <=> way[r] = "idle"
  /\ way[r] \in {"idle", "done"} => depth[r] = 0
  /\ way[r] \in {"in", "out"} => depth[r] # 0
  /\ way[r] \in {"out", "raise"} => depth[r] # Bottom

\* It has an id from the correlation layer on, and its response the headers of the
\* layers it has left.
Identified(r) ==
  /\ named[r] # None <=> Passed(r, CorrelationAt)
  /\ named[r] # None => ask[r].id \in {None, named[r]}
  /\ way[r] = "out" /\ depth[r] < CorrelationAt => reply[r].id = named[r]
  /\ way[r] = "out" /\ depth[r] < VersionAt => reply[r].version
  /\ Done(r) /\ reply[r].status # 500 =>
       reply[r].version /\ reply[r].id # None /\ ask[r].id \in {None, reply[r].id}

\* No two generated ids are alike.
OwnIds ==
  \A q, r \in Requests : q # r /\ named[q] # None /\ named[q] = named[r] =>
    ask[q].id # None \/ ask[r].id # None

\* Its account's document is among those it has seen, and so is the one it was given, if
\* it was given one.
Current(r) ==
  /\ way[r] \in {"in", "out", "raise"} => doc[ask[r].user] \in seen[r]
  /\ way[r] = "out" /\ ask[r].kind = "get" =>
       \/ reply[r].status \in {200, 404} /\ reply[r].body \in seen[r]
       \/ reply[r].status = 503 /\ reply[r].body = Down
  /\ Done(r) /\ ask[r].kind = "get" =>
       /\ reply[r].status \in {200, 404} => reply[r].body \in seen[r]
       /\ reply[r].status = 304 => ask[r].tag \in {Star, Down} \/ ask[r].tag \in seen[r]

\* The counter holds those that have passed it.
CounterOK ==
  /\ served = Cardinality({r \in Requests : Passed(r, CountAt)})
  /\ (\E r \in Requests : Passed(r, CountAt)) => first # None

\* Request r brings, or has brought, an answer of /stats.
Told(r) == way[r] \in {"out", "done"} /\ ask[r].kind = "stats" /\ reply[r].status = 200

\* What /stats has told one request is less than what it will tell later ones.
Statistics(r) ==
  /\ before[r] \subseteq {q \in Requests : Done(q)} \ {r}
  /\ Told(r) =>
       /\ reply[r].body \in [served : Nat, first : Requests]
       /\ reply[r].body.first = first
       /\ reply[r].body.served > Cardinality(before[r])
       /\ reply[r].body.served <= served
       /\ \A q \in before[r] : Told(q) => reply[q].body.served < reply[r].body.served
  /\ way[r] = "in" /\ Passed(r, CountAt) =>
       \A q \in before[r] : Told(q) => reply[q].body.served < served

\* The lines of a request.
Started(r) == \E l \in lines : l.request = r /\ l.event = "request_started"
Ends(r)    == {l \in lines : l.request = r /\ l.event # "request_started"}

Completed(r, status) == \E l \in Ends(r) :
  Ends(r) = {l} /\ l.event = "request_completed" /\ l.status = status
Failed(r)    == \E l \in Ends(r) : Ends(r) = {l} /\ l.event = "request_error"
CompletedAny(r) == \E l \in Ends(r) : Ends(r) = {l} /\ l.event = "request_completed"

\* They follow it through the log's layer and to its end.
Logged(r) ==
  /\ Done(r) /\ ask[r].kind = "get" /\ reply[r].status = 304 =>
       Completed(r, 503) \/ ask[r].tag = Star \/ ask[r].tag \in seen[r]
  /\ way[r] = "idle" => Ends(r) = {}
  /\ way[r] # "idle" /\ ask[r].kind # "health" =>
       /\ Passed(r, LogAt) => Started(r)
       /\ ~Done(r) /\ ~Left(r, LogAt) => Ends(r) = {}
       /\ way[r] = "out" /\ Left(r, LogAt) => Completed(r, reply[r].status)
       /\ way[r] = "raise" /\ Left(r, LogAt) =>
            \/ Failed(r)
            \/ CompletedAny(r) /\ Conditional(r) /\ ask[r].tag = Malformed
       /\ Done(r) =>
            \/ Failed(r) /\ reply[r].status = 500
            \/ Completed(r, reply[r].status)
            \/ CompletedAny(r) /\ Conditional(r)
               /\ reply[r].status = IF ask[r].tag = Malformed THEN 500 ELSE 304

StackInv ==
  /\ FormOK /\ OwnIds /\ CounterOK
  /\ \A r \in Requests :
       Position(r) /\ Identified(r) /\ Current(r) /\ Statistics(r) /\ Logged(r)
=============================================================================
