----------------------------- MODULE Middleware -----------------------------
(***************************************************************************)
(* What stands between a client and a route of src/src/main.py: the five   *)
(* middlewares of src/src/core and src/src/stats, in the order in which    *)
(* they really run.  A request goes in through them to its route and its   *)
(* response comes out again, or an exception does; every layer awaits the  *)
(* next, so that requests interleave between any two layers.               *)
(*                                                                         *)
(* Starlette is external: add_middleware puts a middleware in front of the *)
(* earlier ones, a layer that calls the next one does so in a task of its  *)
(* own, with a copy of its context, and what nobody catches is answered    *)
(* 500 outside of all layers.  A document stands for its JSON, so that two *)
(* responses have one ETag exactly when they have one document.  Latencies,*)
(* addresses and the other headers are left out.                           *)
(***************************************************************************)
EXTENDS Naturals, Sequences, FiniteSets

CONSTANTS Requests,
          Users, Contents,   \* the accounts, and what GET may return of one
          Ids,               \* values of X-Correlation-ID, sent or generated
          Missing,           \* the document of a 404
          Down,              \* the document of a 503
          Alive,             \* the document of /health
          Star,              \* If-None-Match: *
          Malformed,         \* an If-None-Match that is not UTF-8
          None,
          Asks               \* what clients may send

Kinds == {"get", "delete", "stats", "health"}
Docs  == Contents \cup {Missing}

ASSUME MiddlewareConstants ==
  /\ IsFiniteSet(Requests) /\ Cardinality(Ids) >= Cardinality(Requests)
  /\ None \notin Ids \cup Docs \cup Asks \cup Requests
  /\ Asks \subseteq [kind : Kinds, user : Users, tag : Docs \cup {Down, Star, Malformed, None},
                     id : Ids \cup {None}]

\* main.py adds them in this order ...
Registered == <<"correlation", "count", "log", "version", "etag">>
\* ... and the one added last runs first.  The route is under the last layer.
Stack  == [i \in 1..Len(Registered) |-> Registered[Len(Registered) + 1 - i]]
Bottom == Len(Stack) + 1

VARIABLES doc,       \* what GET /users/{id} would return of each account
          served,    \* StatsState: _requests_served
          first,     \* StatsState: _first_request_at, as the request it came with
          ask,       \* what each request sent, None before it came
          way, depth,\* where it is, and in which direction it goes
          ctx,       \* correlation_id in its context, by depth
          named,     \* its local variable correlation_id
          reply,     \* the response on its way out, in the end what was sent
          lines,     \* the log
          seen,      \* history: documents its account has had since it came
          before     \* history: requests answered when it came

shared == <<doc, served, first>>
where  == <<way, depth>>
past   == <<seen, before>>
vars == <<shared, ask, where, ctx, named, reply, lines, past>>

NoReply == [status |-> 0, body |-> None, version |-> FALSE, id |-> None]

Init == /\ doc \in [Users -> Docs]
        /\ served = 0 /\ first = None
        /\ ask = [r \in Requests |-> None]
        /\ way = [r \in Requests |-> "idle"]
        /\ depth = [r \in Requests |-> 0]
        /\ ctx = [r \in Requests |-> [d \in 1..Bottom |-> None]]
        /\ named = [r \in Requests |-> None]
        /\ reply = [r \in Requests |-> NoReply]
        /\ lines = {}
        /\ seen = [r \in Requests |-> {}]
        /\ before = [r \in Requests |-> {}]

\* Request r is in this layer, on this way.
In(r, layer, direction) ==
  way[r] = direction /\ depth[r] \in 1..Len(Stack) /\ Stack[depth[r]] = layer

\* The next layer is called, in a task that copies the context ...
Call(r, context) ==
  /\ ctx' = [ctx EXCEPT ![r][depth[r]] = context, ![r][depth[r] + 1] = context]
  /\ depth' = [depth EXCEPT ![r] = @ + 1]
  /\ UNCHANGED way

\* ... and the layer before is returned to.
Return(r) == depth' = [depth EXCEPT ![r] = @ - 1]

Write(r, event, status) ==
  lines' = IF ask[r].kind = "health" THEN lines
           ELSE lines \cup {[event |-> event, request |-> r, status |-> status,
                             id |-> ctx[r][depth[r]]]}

\* Requests under way see account u as it becomes.
SeenWith(u, d) == [r \in Requests |-> IF way[r] \notin {"idle", "done"} /\ ask[r].user = u
                                        THEN seen[r] \cup {d} ELSE seen[r]]

\* Somebody else changes, removes or makes an account.
Change(u) ==
  /\ \E d \in Docs \ {doc[u]} : doc' = [doc EXCEPT ![u] = d] /\ seen' = SeenWith(u, d)
  /\ UNCHANGED <<served, first, ask, where, ctx, named, reply, lines, before>>

Arrive(r) ==
  /\ way[r] = "idle"
  /\ \E a \in Asks :
       /\ ask' = [ask EXCEPT ![r] = a]
       /\ seen' = [seen EXCEPT ![r] = {doc[a.user]}]
  /\ way' = [way EXCEPT ![r] = "in"]
  /\ depth' = [depth EXCEPT ![r] = 1]
  /\ before' = [before EXCEPT ![r] = {q \in Requests : way[q] = "done"}]
  /\ UNCHANGED <<shared, ctx, named, reply, lines>>

-----------------------------------------------------------------------------
\* The way in.
Forward(r) ==
  /\ In(r, "etag", "in") \/ In(r, "version", "in")
  /\ Call(r, ctx[r][depth[r]])
  /\ UNCHANGED <<shared, ask, named, reply, lines, past>>

LogStart(r) ==
  /\ In(r, "log", "in")
  /\ Write(r, "request_started", 0)
  /\ Call(r, ctx[r][depth[r]])
  /\ UNCHANGED <<shared, ask, named, reply, past>>

\* Mutant: like the log, the counter passes the probes over.
CountLogged(r) ==
  /\ In(r, "count", "in")
  /\ served' = IF ask[r].kind = "health" THEN served ELSE served + 1
  /\ first' = IF first = None THEN r ELSE first
  /\ Call(r, ctx[r][depth[r]])
  /\ UNCHANGED <<doc, ask, named, reply, lines, past>>

\* StatsState.increment, under its lock.
Count(r) ==
  /\ In(r, "count", "in")
  /\ served' = served + 1
  /\ first' = IF first = None THEN r ELSE first
  /\ Call(r, ctx[r][depth[r]])
  /\ UNCHANGED <<doc, ask, named, reply, lines, past>>

\* A sent id is taken over, otherwise uuid4 makes one that nobody has.
TakenIds == {named[q] : q \in Requests} \cup {ask[q].id : q \in {p \in Requests : ask[p] # None}}
IdsFor(r) == IF ask[r].id # None THEN {ask[r].id} ELSE Ids \ TakenIds

\* CorrelationIDMiddleware binds the id to its context.
Bind(r) ==
  /\ In(r, "correlation", "in")
  /\ \E id \in IdsFor(r) : named' = [named EXCEPT ![r] = id] /\ Call(r, id)
  /\ UNCHANGED <<shared, ask, reply, lines, past>>

-----------------------------------------------------------------------------
\* The routes.  get_stats reports what the counter holds; a response of GET
\* /users/{id} is of the account at that moment; DELETE leaves it missing.
AtRoute(r, kind) == way[r] = "in" /\ depth[r] = Bottom /\ ask[r].kind = kind

Respond(r, code, body) ==
  /\ reply' = [reply EXCEPT ![r] = [NoReply EXCEPT !.status = code, !.body = body]]
  /\ way' = [way EXCEPT ![r] = "out"]
  /\ Return(r)
  /\ UNCHANGED <<served, first, ask, ctx, named, lines, before>>

Get(r) ==
  /\ AtRoute(r, "get")
  /\ LET d == doc[ask[r].user] IN Respond(r, IF d = Missing THEN 404 ELSE 200, d)
  /\ UNCHANGED <<doc, seen>>

\* It catches SQLAlchemyError, which delete_user lets through (Raise).
Unavailable(r) ==
  /\ AtRoute(r, "get")
  /\ Respond(r, 503, Down)
  /\ UNCHANGED <<doc, seen>>

Delete(r) ==
  /\ AtRoute(r, "delete")
  /\ LET u == ask[r].user IN
       IF doc[u] = Missing
         THEN Respond(r, 404, Missing) /\ UNCHANGED <<doc, seen>>
         ELSE /\ Respond(r, 204, None)
              /\ doc' = [doc EXCEPT ![u] = Missing]
              /\ seen' = SeenWith(u, Missing)

Stats(r) ==
  /\ AtRoute(r, "stats")
  /\ Respond(r, 200, [served |-> served, first |-> first])
  /\ UNCHANGED <<doc, seen>>

Health(r) ==
  /\ AtRoute(r, "health")
  /\ Respond(r, 200, Alive)
  /\ UNCHANGED <<doc, seen>>

\* A route raises what it does not handle (the database refuses the connection).
Raise(r) ==
  /\ way[r] = "in" /\ depth[r] = Bottom /\ ask[r].kind \in {"get", "delete"}
  /\ way' = [way EXCEPT ![r] = "raise"]
  /\ Return(r)
  /\ UNCHANGED <<shared, ask, ctx, named, reply, lines, past>>

-----------------------------------------------------------------------------
\* The way out.
\* Mutant: the context is cleared before the header is taken from it.
UnbindFirst(r) ==
  /\ In(r, "correlation", "out")
  /\ ctx' = [ctx EXCEPT ![r][depth[r]] = None]
  /\ reply' = [reply EXCEPT ![r].id = ctx'[r][depth[r]]]
  /\ Return(r)
  /\ UNCHANGED <<shared, ask, way, named, lines, past>>

\* CorrelationIDMiddleware: the header, then the context is cleared.
Unbind(r) ==
  /\ In(r, "correlation", "out")
  /\ reply' = [reply EXCEPT ![r].id = named[r]]
  /\ ctx' = [ctx EXCEPT ![r][depth[r]] = None]
  /\ Return(r)
  /\ UNCHANGED <<shared, ask, way, named, lines, past>>

Counted(r) ==
  /\ In(r, "count", "out")
  /\ Return(r)
  /\ UNCHANGED <<shared, ask, way, ctx, named, reply, lines, past>>

LogEnd(r) ==
  /\ In(r, "log", "out")
  /\ Write(r, "request_completed", reply[r].status)
  /\ Return(r)
  /\ UNCHANGED <<shared, ask, way, ctx, named, reply, past>>

AddVersion(r) ==
  /\ In(r, "version", "out")
  /\ reply' = [reply EXCEPT ![r].version = TRUE]
  /\ Return(r)
  /\ UNCHANGED <<shared, ask, way, ctx, named, lines, past>>

\* Mutant: the request is logged as completed whatever came of it.
LogErrorAndEnd(r) ==
  /\ In(r, "log", "raise")
  /\ Write(r, "request_completed", reply[r].status)
  /\ Return(r)
  /\ UNCHANGED <<shared, ask, way, ctx, named, reply, past>>

LogError(r) ==
  /\ In(r, "log", "raise")
  /\ Write(r, "request_error", 0)
  /\ Return(r)
  /\ UNCHANGED <<shared, ask, way, ctx, named, reply, past>>

\* The other layers let an exception through.
Propagate(r) ==
  /\ \E layer \in {"correlation", "count", "version", "etag"} : In(r, layer, "raise")
  /\ Return(r)
  /\ UNCHANGED <<shared, ask, way, ctx, named, reply, lines, past>>

Send(r, response) ==
  /\ way' = [way EXCEPT ![r] = "done"]
  /\ reply' = [reply EXCEPT ![r] = response]
  /\ Return(r)
  /\ UNCHANGED <<shared, ask, ctx, named, lines, past>>

\* Starlette's ServerErrorMiddleware: a bare 500.
ServerError(r) ==
  /\ way[r] = "raise" /\ depth[r] = 0
  /\ way' = [way EXCEPT ![r] = "done"]
  /\ reply' = [reply EXCEPT ![r] = [NoReply EXCEPT !.status = 500]]
  /\ UNCHANGED <<shared, ask, depth, ctx, named, lines, past>>

Conditional(r) == ask[r].kind # "delete" /\ ask[r].tag # None

\* Mutant: a tag that was right once for the account is remembered.
MatchesEver(r) ==
  \/ ask[r].tag = Star
  \/ \E q \in Requests : ask[q] # None /\ ask[q].user = ask[r].user /\ ask[r].tag = reply[q].body

Matches(r) == ask[r].tag = Star \/ ask[r].tag = reply[r].body

\* ETagMiddleware._handle_etag: the response as it is, or a 304 without its body.
SendFull(r) ==
  /\ In(r, "etag", "out")
  /\ Conditional(r) => ask[r].tag # Malformed /\ ~Matches(r)
  /\ Send(r, reply[r])

SendNotModified(r) ==
  /\ In(r, "etag", "out") /\ Conditional(r)
  /\ ask[r].tag # Malformed /\ Matches(r)
  /\ Send(r, [reply[r] EXCEPT !.status = 304, !.body = None])

\* A header that cannot be decoded: the warning about it is given an argument that
\* logging does not take, and raises in its turn.
Mishandle(r) ==
  /\ In(r, "etag", "out") /\ Conditional(r) /\ ask[r].tag = Malformed
  /\ way' = [way EXCEPT ![r] = "raise"]
  /\ Return(r)
  /\ UNCHANGED <<shared, ask, ctx, named, reply, lines, past>>

Finished == (\A r \in Requests : way[r] = "done") /\ UNCHANGED vars

Next ==
  \/ \E r \in Requests :
       \/ Arrive(r) \/ Forward(r) \/ LogStart(r) \/ Count(r) \/ Bind(r)
       \/ Get(r) \/ Delete(r) \/ Unavailable(r) \/ Stats(r) \/ Health(r) \/ Raise(r)
       \/ Unbind(r) \/ Counted(r) \/ LogEnd(r) \/ AddVersion(r) \/ LogError(r)
       \/ Propagate(r) \/ ServerError(r) \/ SendFull(r) \/ SendNotModified(r) \/ Mishandle(r)
  \/ \E u \in Users : Change(u)
  \/ Finished

Spec == Init /\ [][Next]_vars

-----------------------------------------------------------------------------
Done(r) == way[r] = "done"

\* The state is well formed.  Whatever is not a 500 carries both headers, the id the
\* client sent or a generated one of its own.
TypeOK ==
  /\ doc \in [Users -> Docs] /\ served \in 0..Cardinality(Requests)
  /\ first \in Requests \cup {None}
  /\ ask \in [Requests -> Asks \cup {None}]
  /\ way \in [Requests -> {"idle", "in", "out", "raise", "done"}]
  /\ depth \in [Requests -> 0..Bottom]
  /\ ctx \in [Requests -> [1..Bottom -> Ids \cup {None}]]
  /\ named \in [Requests -> Ids \cup {None}]
  /\ \A r \in Requests : Done(r) /\ reply[r].status # 500 =>
       reply[r].version /\ reply[r].id # None /\ ask[r].id \in {None, reply[r].id}
  /\ \A q, r \in Requests : q # r /\ named[q] # None /\ named[q] = named[r] =>
       ask[q].id # None \/ ask[r].id # None

\* The status the log has of a request.
LoggedAs(r, status) ==
  \E l \in lines : l.request = r /\ l.event = "request_completed" /\ l.status = status

\* A GET is answered with the account at some moment of the request, however it and other
\* requests change meanwhile (ETagMiddleware: "Use local variables ... to support
\* concurrent requests").  A 304 stands for the copy that the client has: of the account as
\* it was then, or of a 503, if a 503 is what the route answered this time.  Only the
\* wildcard gets a 304 for whatever the route answers.
RepresentationCurrent ==
  \A r \in Requests : Done(r) /\ ask[r].kind = "get" =>
    /\ reply[r].status \in {200, 404} => reply[r].body \in seen[r]
    /\ reply[r].status = 304 =>
         \/ ask[r].tag = Star
         \/ ask[r].tag \in seen[r]
         \/ ask[r].tag = Down /\ LoggedAs(r, 503)

\* /stats counts itself and every request answered before it came, none that has not
\* come, and more than any /stats answered before; all of them report one first request.
StatsCountRequests ==
  \A r \in Requests : Done(r) /\ ask[r].kind = "stats" /\ reply[r].status = 200 =>
    /\ reply[r].body.served > Cardinality(before[r])
    /\ reply[r].body.served <= Cardinality({q \in Requests : way[q] # "idle"})
    /\ reply[r].body.first = first
    /\ \A q \in before[r] : ask[q].kind = "stats" /\ reply[q].status = 200 =>
         reply[q].body.served < reply[r].body.served

\* What is logged of a request is what became of it: one line at its start and one at
\* its end, the response of its route or an error.  The client gets that status, or a
\* 304 for it, or a 500 that the layers outside of the log made of it.
LogTellsOutcome ==
  \A r \in Requests : Done(r) /\ ask[r].kind # "health" =>
    LET ends == {l \in lines : l.request = r /\ l.event # "request_started"} IN
      /\ \E l \in lines : l.request = r /\ l.event = "request_started"
      /\ Cardinality(ends) = 1
      /\ \A l \in ends :
           \/ l.event = "request_error" /\ reply[r].status = 500
           \/ l.event = "request_completed" /\ reply[r].status = l.status
           \/ l.event = "request_completed" /\ Conditional(r)
              /\ reply[r].status = IF ask[r].tag = Malformed THEN 500 ELSE 304

\* docs/API.md: a malformed If-None-Match gets the "Full response".
MalformedGetsResource ==
  \A r \in Requests : Done(r) /\ ask[r].tag = Malformed /\ reply[r].status = 500 =>
    \E l \in lines : l.request = r /\ l.event = "request_error"
=============================================================================
