------------------------- MODULE UserReadsInvariant -------------------------
(***************************************************************************)
(* An inductive invariant of UserReads.  ReadsInv, for its type invariant  *)
(* and its two action properties, says what a request under way has read,  *)
(* and what the cache holds; ForwardInv compares that with what has been   *)
(* answered before.                                                        *)
(***************************************************************************)
EXTENDS UserReads

\* Nothing is answered before the end, and what a user is now has been seen.
OpenOK == \A r \in Requests :
  /\ pc[r] # "done" => resp[r] = 0
  /\ pc[r] \in InFlight /\ ~Listing(r) => State(uid[r]) \in seen[r]

\* What is to be stored is a content the user had since the request began.
StoreOK == \A r \in Requests : pc[r] = "store" =>
  ~Listing(r) /\ got[r] \in 1..ver[uid[r]] /\ got[r] \in seen[r]

\* Only a failed request turns to Redis, whose entries are contents users have had.
FallbackOK ==
  /\ \A r \in Requests : pc[r] = "fallback" => ~Listing(r) /\ r \in failed
  /\ \A id \in Ids : cache[id] <= ver[id]

\* A page reaches no further than the users there are, unless one was deleted since.
PageOK == \A r \in Requests : pc[r] = "total" =>
  Listing(r) /\ (got[r] = 0 \/ uid[r] + got[r] <= Total \/ r \in thinned)

ReadsInv == TypeOK /\ OpenOK /\ StoreOK /\ FallbackOK /\ PageOK

\* A summary the database answered.
FromDatabase(q) == resp[q] = 200 /\ q \notin failed /\ ~Listing(q)

\* p answers what it read before q was answered, after q was: neither was over when the
\* other began.
Overtaken(p, q) == uid[p] = uid[q] /\ q \notin before[p] /\ p \notin before[q]

\* What has been answered is over, what has failed is over or turns to Redis, what has
\* been stored came from the database, and no user has had fewer contents than it was
\* answered with.
PastOK ==
  /\ \A r \in Requests : \A q \in before[r] : pc[q] = "done"
  /\ \A r \in failed : pc[r] \in {"fallback", "done"}
  /\ \A r \in stored : pc[r] = "done" /\ r \notin failed
  /\ \A q \in Requests : FromDatabase(q) => out[q] <= ver[uid[q]]

\* What is to be stored was read from the database, after all that was answered before
\* its request began.
NewerOK == \A r \in Requests : pc[r] = "store" =>
  \A q \in before[r] : FromDatabase(q) /\ uid[q] = uid[r] => out[q] <= got[r]

\* The entry of a user is none, as new as an answer that Redis took, or that of a
\* request which overtook it.
CacheOK == \A q \in stored : FromDatabase(q) =>
  \/ cache[uid[q]] = 0
  \/ out[q] <= cache[uid[q]]
  \/ \E p \in stored \ {q} : Overtaken(p, q) /\ out[p] = cache[uid[q]]

ForwardInv == PastOK /\ NewerOK /\ CacheOK /\ SummariesGoForward
=============================================================================
