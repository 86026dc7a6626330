------------------------------ MODULE UserReads ------------------------------
(***************************************************************************)
(* The reads of src/src/users/router.py that take more than one step: the  *)
(* summary of a user, read from the database, kept in Redis and served     *)
(* from there when the database fails, and the list, a page and a total in *)
(* two statements.  They share the connection pool of src/src/db/session.py*)
(* with each other, and the table with writers (Users), whose commits      *)
(* appear here as Write and Delete.                                        *)
(*                                                                         *)
(* PostgreSQL, SQLAlchemy's pool and Redis are external.  A user's content *)
(* is the number of the write that made it.  Redis may be slow for ever:   *)
(* the client is made without a timeout.                                   *)
(***************************************************************************)
EXTENDS Naturals, FiniteSets

CONSTANTS Requests, Ids,
          PoolLimit,   \* db_pool_size + db_max_overflow
          PageLimit,   \* limit of a list request
          Skips,       \* skip of a list request
          MaxWrites    \* bound: contents a user has had

ASSUME ReadsConstants ==
  /\ {PoolLimit, PageLimit, MaxWrites} \subseteq Nat \ {0}
  /\ Skips \subseteq Nat /\ Ids \cap Nat = {}
  /\ IsFiniteSet(Requests) /\ IsFiniteSet(Ids)

VARIABLES ver,       \* the content of each user, 0 before it is created
          gone,      \* users with a deleted_at
          cache,     \* user:summary:<id> in Redis, 0 for none
          held,      \* requests that hold a connection of the pool
          pc,        \* what each request awaits next
          uid,       \* the user of a summary; for a list, the rows to skip
          got,       \* content or number of rows its first statement returned
          resp, out, \* status code, and the content or total sent
          failed,    \* requests the database failed
          stored,    \* history: requests whose summary Redis took
          before,    \* history: requests answered when this one began
          seen,      \* history: what its user has been since one under way began
          thinned    \* history: lists between whose statements a user was deleted

table   == <<ver, gone>>
answers == <<resp, out>>
past    == <<before, seen, thinned>>
vars == <<table, cache, held, pc, uid, got, answers, failed, stored, past>>

Listing(r) == uid[r] \notin Ids
InFlight   == {"queue", "read", "total", "store", "fallback"}
Live(id)   == ver[id] > 0 /\ id \notin gone
State(id)  == IF Live(id) THEN ver[id] ELSE 0
Total      == Cardinality({id \in Ids : Live(id)})

Init == /\ ver \in [Ids -> 0..1]
        /\ gone = {}
        /\ cache = [id \in Ids |-> 0]
        /\ held = {}
        /\ pc = [r \in Requests |-> "idle"]
        /\ \E x \in Skips : uid = [r \in Requests |-> x]
        /\ got = [r \in Requests |-> 0]
        /\ resp = [r \in Requests |-> 0]
        /\ out = [r \in Requests |-> 0]
        /\ failed = {}
        /\ stored = {}
        /\ before = [r \in Requests |-> {}]
        /\ seen = [r \in Requests |-> {}]
        /\ thinned = {}

Goto(r, step) == pc' = [pc EXCEPT ![r] = step]

\* Mutant: the session of a request that failed is not closed.
EndHolding(r, code, body) ==
  /\ Goto(r, "done")
  /\ resp' = [resp EXCEPT ![r] = code]
  /\ out' = [out EXCEPT ![r] = body]
  /\ got' = [got EXCEPT ![r] = 0]
  /\ seen' = [seen EXCEPT ![r] = {}] /\ thinned' = thinned \ {r}
  /\ held' = IF r \in failed THEN held ELSE held \ {r}

\* The answer is given and the session of get_db closed.
End(r, code, body) ==
  /\ Goto(r, "done")
  /\ resp' = [resp EXCEPT ![r] = code]
  /\ out' = [out EXCEPT ![r] = body]
  /\ got' = [got EXCEPT ![r] = 0]
  /\ seen' = [seen EXCEPT ![r] = {}] /\ thinned' = thinned \ {r}
  /\ held' = held \ {r}

-----------------------------------------------------------------------------
\* The requests for a user live through what it becomes.
Becomes(id, state) ==
  seen' = [r \in Requests |-> IF pc[r] \in InFlight /\ uid[r] = id
                             THEN seen[r] \cup {state} ELSE seen[r]]

\* Writers: a commit of Users makes, changes or deletes a user.
Write(id) ==
  /\ id \notin gone /\ ver[id] < MaxWrites
  /\ ver' = [ver EXCEPT ![id] = @ + 1]
  /\ Becomes(id, ver[id] + 1)
  /\ UNCHANGED <<gone, cache, held, pc, uid, got, answers, failed, stored, before, thinned>>

Delete(id) ==
  /\ Live(id)
  /\ gone' = gone \cup {id}
  /\ Becomes(id, 0)
  /\ thinned' = thinned \cup {r \in Requests : pc[r] = "total"}
  /\ UNCHANGED <<ver, cache, held, pc, uid, got, answers, failed, stored, before>>

\* Redis drops an entry: its 300 s are over, or Redis was restarted.
Evict(id) ==
  /\ cache[id] # 0
  /\ cache' = [cache EXCEPT ![id] = 0]
  /\ UNCHANGED <<table, held, pc, uid, got, answers, failed, stored, past>>

-----------------------------------------------------------------------------
Begin(r) ==
  /\ pc[r] = "idle"
  /\ \E x \in Ids \cup Skips :
       /\ uid' = [uid EXCEPT ![r] = x]
       /\ seen' = [seen EXCEPT ![r] = IF x \in Ids THEN {State(x)} ELSE {}]
  /\ Goto(r, "queue")
  /\ before' = [before EXCEPT ![r] = {q \in Requests : pc[q] = "done"}]
  /\ UNCHANGED <<table, cache, held, got, answers, failed, stored, thinned>>

\* The first statement takes a connection of the pool.
Acquire(r) ==
  /\ pc[r] = "queue"
  /\ Cardinality(held) < PoolLimit
  /\ held' = held \cup {r}
  /\ Goto(r, "read")
  /\ UNCHANGED <<table, cache, uid, got, answers, failed, stored, past>>

\* SQLAlchemyError: the list answers 503, the summary turns to Redis.
Fail(r) ==
  /\ failed' = failed \cup {r}
  /\ \/ Listing(r) /\ End(r, 503, 0)
     \/ ~Listing(r) /\ Goto(r, "fallback") /\ UNCHANGED <<held, got, answers, seen, thinned>>
  /\ UNCHANGED <<table, cache, uid, stored, before>>

\* Mutant: db_pool_timeout is not set.
WaitForever(r) == pc[r] = "gone" /\ Fail(r)

\* db_pool_timeout: none came free.
Timeout(r) == pc[r] = "queue" /\ Cardinality(held) >= PoolLimit /\ Fail(r)

\* A connection, or a statement, fails.
DatabaseFails(r) == pc[r] \in {"queue", "read", "total"} /\ Fail(r)

\* What neither route catches (the driver's OSError when the server refuses the
\* connection) is a 500.
Raise(r) ==
  /\ pc[r] = "queue"
  /\ failed' = failed \cup {r}
  /\ End(r, 500, 0)
  /\ UNCHANGED <<table, cache, uid, stored, before>>

\* Mutant: Redis is asked first.
CacheFirst(r) ==
  /\ pc[r] = "read" /\ ~Listing(r)
  /\ LET v == IF cache[uid[r]] # 0 THEN cache[uid[r]] ELSE State(uid[r]) IN
       \/ v = 0 /\ End(r, 404, 0)
       \/ v # 0 /\ got' = [got EXCEPT ![r] = v] /\ Goto(r, "store")
                  /\ UNCHANGED <<held, answers, seen, thinned>>
  /\ UNCHANGED <<table, cache, uid, failed, stored, before>>

\* Mutant: crud.get_user does not ask for deleted_at.
ReadAnyUser(r) ==
  /\ pc[r] = "read" /\ ~Listing(r)
  /\ \/ ver[uid[r]] = 0 /\ End(r, 404, 0)
     \/ /\ ver[uid[r]] # 0
        /\ got' = [got EXCEPT ![r] = ver[uid[r]]]
        /\ Goto(r, "store")
        /\ UNCHANGED <<held, answers, seen, thinned>>
  /\ UNCHANGED <<table, cache, uid, failed, stored, before>>

\* get_user_summary: crud.get_user.
ReadUser(r) ==
  /\ pc[r] = "read" /\ ~Listing(r)
  /\ \/ ~Live(uid[r]) /\ End(r, 404, 0)
     \/ /\ Live(uid[r])
        /\ got' = [got EXCEPT ![r] = ver[uid[r]]]
        /\ Goto(r, "store")
        /\ UNCHANGED <<held, answers, seen, thinned>>
  /\ UNCHANGED <<table, cache, uid, failed, stored, before>>

\* Mutant: the entry is only made when there is none.
StoreIfAbsent(r) ==
  /\ pc[r] = "store"
  /\ cache' = [cache EXCEPT ![uid[r]] = IF @ = 0 THEN got[r] ELSE @]
  /\ stored' = stored \cup {r}
  /\ End(r, 200, got[r])
  /\ UNCHANGED <<table, uid, failed, before>>

\* _set_cached_summary, then the answer.
Store(r) ==
  /\ pc[r] = "store"
  /\ cache' = [cache EXCEPT ![uid[r]] = got[r]]
  /\ stored' = stored \cup {r}
  /\ End(r, 200, got[r])
  /\ UNCHANGED <<table, uid, failed, before>>

\* _set_cached_summary swallows what Redis raises.
StoreFails(r) ==
  /\ pc[r] = "store"
  /\ End(r, 200, got[r])
  /\ UNCHANGED <<table, cache, uid, failed, stored, before>>

\* _get_cached_summary: an entry is served, a miss and an error are a 404.
Fallback(r) ==
  /\ pc[r] = "fallback"
  /\ \/ cache[uid[r]] # 0 /\ End(r, 200, cache[uid[r]])
     \/ End(r, 404, 0)
  /\ UNCHANGED <<table, cache, uid, failed, stored, before>>

\* Mutant: the page has deleted users in it.
ReadPageOfAll(r) ==
  /\ pc[r] = "read" /\ Listing(r)
  /\ LET rows == Cardinality({id \in Ids : ver[id] > 0}) - uid[r] IN
       got' = [got EXCEPT ![r] = IF rows < PageLimit THEN rows ELSE PageLimit]
  /\ Goto(r, "total")
  /\ UNCHANGED <<table, cache, held, uid, answers, failed, stored, past>>

\* crud.get_users: OFFSET and LIMIT, in no order.
ReadPage(r) ==
  LET rows == IF Total > uid[r] THEN Total - uid[r] ELSE 0 IN
  /\ pc[r] = "read" /\ Listing(r)
  /\ got' = [got EXCEPT ![r] = IF rows < PageLimit THEN rows ELSE PageLimit]
  /\ Goto(r, "total")
  /\ UNCHANGED <<table, cache, held, uid, answers, failed, stored, past>>

\* crud.count_users.
ReadTotal(r) ==
  /\ pc[r] = "total"
  /\ End(r, 200, Total)
  /\ UNCHANGED <<table, cache, uid, failed, stored, before>>

\* The process dies: nobody in it is answered, its connections are gone.
Crash ==
  /\ \E r \in Requests : pc[r] \in InFlight
  /\ pc' = [r \in Requests |-> IF pc[r] \in InFlight THEN "done" ELSE pc[r]]
  /\ held' = {}
  /\ got' = [r \in Requests |-> 0]
  /\ seen' = [r \in Requests |-> {}] /\ thinned' = {}
  /\ UNCHANGED <<table, cache, uid, answers, failed, stored, before>>

Database(r) == Acquire(r) \/ Timeout(r) \/ ReadUser(r) \/ ReadPage(r) \/ ReadTotal(r)
Redis(r)    == Store(r) \/ StoreFails(r) \/ Fallback(r)

Finished == (\A r \in Requests : pc[r] = "done") /\ UNCHANGED vars

Next == \/ \E r \in Requests : Begin(r) \/ Database(r) \/ Redis(r) \/ DatabaseFails(r) \/ Raise(r)
        \/ \E id \in Ids : Write(id) \/ Delete(id) \/ Evict(id)
        \/ Crash \/ Finished

Spec == Init /\ [][Next]_vars

\* The event loop and the database carry on, and the pool's wait is bounded; Redis
\* need not answer.
FairSpec == Spec /\ \A r \in Requests : WF_vars(Database(r))

-----------------------------------------------------------------------------
\* The state is well formed, and connections are held by requests under way, at most
\* as many as the pool has.
TypeOK ==
  /\ ver \in [Ids -> 0..MaxWrites]
  /\ gone \subseteq Ids
  /\ cache \in [Ids -> 0..MaxWrites]
  /\ held \subseteq {r \in Requests : pc[r] \in InFlight \ {"queue"}}
  /\ Cardinality(held) <= PoolLimit
  /\ pc \in [Requests -> InFlight \cup {"idle", "done"}]
  /\ uid \in [Requests -> Ids \cup Skips]
  /\ got \in [Requests -> Nat] /\ out \in [Requests -> Nat]
  /\ resp \in [Requests -> {0, 200, 404, 500, 503}]
  /\ failed \subseteq Requests /\ stored \subseteq Requests /\ thinned \subseteq Requests
  /\ before \in [Requests -> SUBSET Requests]
  /\ seen \in [Requests -> SUBSET (0..MaxWrites)]

\* A summary is what its user was, and a 404 true of its user, at some moment of the
\* request, whatever other requests put in the cache meanwhile: a user deleted before
\* the request began is a 404.  The database must have failed a request for it to be
\* told a content its user had only earlier, or a 404 without cause, and even then no
\* user is shown that was not created.
Answered(r) == pc[r] # "done" /\ pc'[r] = "done"
SummaryJustified ==
  [][\A r \in Requests : Answered(r) /\ ~Listing(r) =>
       /\ resp'[r] = 200 => \/ out'[r] \in seen[r] \ {0}
                            \/ r \in failed /\ out'[r] \in 1..ver[uid[r]]
       /\ resp'[r] = 404 => 0 \in seen[r] \/ r \in failed]_vars

\* A summary served from Redis is older than one already answered by the database only
\* where Redis did not take that one, or where a request that overlapped it stored,
\* after it, what it had read before it.
SummariesGoForward ==
  \A q, r \in Requests :
    /\ q \in before[r] /\ uid[q] = uid[r] /\ ~Listing(r)
    /\ resp[q] = 200 /\ q \notin failed
    /\ resp[r] = 200 /\ out[r] < out[q]
    => \/ q \notin stored
       \/ \E p \in stored \ {q, r} : /\ uid[p] = uid[r] /\ q \notin before[p] /\ p \notin before[q]
                                     /\ out[p] = out[r]

\* A list's page reaches past its total only when a user was deleted between the two
\* statements (list_users).
PageWithinTotal ==
  [][\A r \in Requests : Answered(r) /\ Listing(r) /\ resp'[r] = 200 =>
       got[r] = 0 \/ uid[r] + got[r] <= out'[r] \/ r \in thinned]_vars

\* Every read ends, or waits for Redis: nothing that holds a connection, not even a
\* summary that Redis keeps waiting for ever, makes another one wait for ever.
ReadsEnd ==
  \A r \in Requests : pc[r] # "idle" ~> pc[r] \in {"done", "store", "fallback"}
=============================================================================
