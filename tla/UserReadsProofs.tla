--------------------------- MODULE UserReadsProofs ---------------------------
(***************************************************************************)
(* Proofs about UserReads, for any number of requests, users and contents: *)
(* each step keeps the invariant, one lemma per step, and what it answers  *)
(* is justified.                                                           *)
(***************************************************************************)
EXTENDS UserReadsInvariant, FiniteSetTheorems, TLAPS

USE DEF Goto, Listing, InFlight, Live, State, table, answers, past

-----------------------------------------------------------------------------
\* Counting.
LEMMA TotalNat == Total \in Nat
  BY ReadsConstants, FS_Subset, FS_CardinalityType DEF Total

\* While no user is deleted, there are no fewer of them.
LEMMA TotalGrows ==
  ASSUME TypeOK, NEW id \in Ids, Write(id)
  PROVE  Total' >= Total
<1> DEFINE live  == {i \in Ids : Live(i)}
           later == {i \in Ids : Live(i)'}
<1>1. live \subseteq later
  BY DEF TypeOK, Write
<1>2. IsFiniteSet(later) /\ IsFiniteSet(live)
  BY ReadsConstants, FS_Subset
<1>3. Cardinality(live) <= Cardinality(later)
  BY <1>1, <1>2, FS_Subset
<1>4. Cardinality(live) \in Nat /\ Cardinality(later) \in Nat
  BY <1>2, FS_CardinalityType
<1> QED  BY <1>3, <1>4 DEF Total

\* A list has a number of rows to skip, and one of rows it has.
LEMMA ListingSkips ==
  ASSUME TypeOK, NEW r \in Requests, Listing(r)
  PROVE  uid[r] \in Nat /\ got[r] \in Nat
<1>1. uid[r] \in Ids \cup Skips /\ got[r] \in Nat
  BY DEF TypeOK
<1>2. Skips \subseteq Nat
  BY ReadsConstants
<1> QED  BY <1>1, <1>2

LEMMA FewerHeld ==
  ASSUME TypeOK, NEW fewer, fewer \subseteq held
  PROVE  Cardinality(fewer) <= PoolLimit
<1>1. IsFiniteSet(held)
  BY ReadsConstants, FS_Subset DEF TypeOK
<1>2. Cardinality(fewer) <= Cardinality(held) /\ IsFiniteSet(fewer)
  BY <1>1, FS_Subset
<1> QED  BY <1>1, <1>2, FS_CardinalityType, ReadsConstants DEF TypeOK

-----------------------------------------------------------------------------
\* What a user becomes is seen by the requests for it.
LEMMA SeenGrows ==
  ASSUME TypeOK, NEW id \in Ids, NEW state \in 0..MaxWrites, Becomes(id, state)
  PROVE  /\ seen' \in [Requests -> SUBSET (0..MaxWrites)]
         /\ \A r \in Requests : seen[r] \subseteq seen'[r]
         /\ \A r \in Requests : pc[r] \in InFlight /\ uid[r] = id => state \in seen'[r]
<1>1. \A r \in Requests :
        seen'[r] = IF pc[r] \in InFlight /\ uid[r] = id THEN seen[r] \cup {state} ELSE seen[r]
  BY DEF Becomes
<1>2. ASSUME NEW r \in Requests  PROVE seen'[r] \in SUBSET (0..MaxWrites)
  <2>1. seen[r] \in SUBSET (0..MaxWrites)
    BY DEF TypeOK
  <2>2. seen[r] \cup {state} \in SUBSET (0..MaxWrites)
    BY <2>1
  <2> QED  BY <1>1, <2>1, <2>2
<1> QED  BY <1>1, <1>2 DEF Becomes

LEMMA WriteKeeps ==
  ASSUME ReadsInv, NEW id \in Ids, Write(id)
  PROVE  ReadsInv'
<1>0. /\ seen' \in [Requests -> SUBSET (0..MaxWrites)]
      /\ \A r \in Requests : seen[r] \subseteq seen'[r]
      /\ \A r \in Requests : pc[r] \in InFlight /\ uid[r] = id => ver[id] + 1 \in seen'[r]
  BY SeenGrows, ReadsConstants DEF Write, ReadsInv, TypeOK
<1> USE DEF Write
<1>1. TypeOK'
  BY <1>0, ReadsConstants DEF ReadsInv, TypeOK
<1>2. \A i \in Ids : ver[i] <= ver'[i] /\ ver[i] \in Nat /\ ver'[i] \in Nat
  BY ReadsConstants DEF ReadsInv, TypeOK
<1>5. OpenOK'
  <2>1. ver'[id] = ver[id] + 1 /\ ver[id] + 1 > 0 /\ id \notin gone
        /\ \A i \in Ids \ {id} : ver'[i] = ver[i]
    BY <1>2 DEF ReadsInv, TypeOK
  <2>2. \A r \in Requests : uid[r] \in Ids => \/ uid[r] = id /\ State(uid[r])' = ver[id] + 1
                                              \/ uid[r] # id /\ State(uid[r])' = State(uid[r])
    BY <2>1
  <2> QED  BY <1>0, <2>2 DEF ReadsInv, OpenOK
<1>3. StoreOK' /\ FallbackOK'
  BY <1>0, <1>2, ReadsConstants DEF ReadsInv, TypeOK, StoreOK, FallbackOK
<1>4. PageOK'
  <2>1. Total \in Nat /\ Total' >= Total
    BY TotalNat, TotalGrows DEF ReadsInv
  <2>2. Total' \in Nat
    <3>1. IsFiniteSet({i \in Ids : Live(i)'})
      BY ReadsConstants, FS_Subset
    <3> QED  BY <3>1, FS_CardinalityType DEF Total
  <2> HIDE DEF Write
  <2>3. UNCHANGED <<pc, uid, got, thinned>>
    BY DEF Write
  <2>4. SUFFICES ASSUME NEW r \in Requests, pc[r] = "total"
                 PROVE  Listing(r) /\ (got[r] = 0 \/ uid[r] + got[r] <= Total' \/ r \in thinned)
    BY <2>3 DEF PageOK
  <2>5. Listing(r) /\ (got[r] = 0 \/ uid[r] + got[r] <= Total \/ r \in thinned)
    BY <2>4 DEF ReadsInv, PageOK
  <2>6. uid[r] \in Nat /\ got[r] \in Nat
    BY <2>5, ListingSkips DEF ReadsInv
  <2>7. \A n \in Nat : n <= Total => n <= Total'
    BY <2>1, <2>2
  <2>8. uid[r] + got[r] \in Nat
    BY <2>6
  <2> QED  BY <2>5, <2>7, <2>8
<1> QED  BY <1>1, <1>3, <1>4, <1>5 DEF ReadsInv

LEMMA DeleteKeeps ==
  ASSUME ReadsInv, NEW id \in Ids, Delete(id)
  PROVE  ReadsInv'
<1>0. /\ seen' \in [Requests -> SUBSET (0..MaxWrites)]
      /\ \A r \in Requests : seen[r] \subseteq seen'[r]
      /\ \A r \in Requests : pc[r] \in InFlight /\ uid[r] = id => 0 \in seen'[r]
  BY SeenGrows, ReadsConstants DEF Delete, ReadsInv
<1> USE DEF Delete
<1>1. TypeOK'
  BY <1>0 DEF ReadsInv, TypeOK
<1>2. OpenOK' /\ StoreOK' /\ FallbackOK'
  BY <1>0 DEF ReadsInv, OpenOK, StoreOK, FallbackOK
<1>3. PageOK'
  BY DEF ReadsInv, PageOK
<1> QED  BY <1>1, <1>2, <1>3 DEF ReadsInv

LEMMA EvictKeeps ==
  ASSUME ReadsInv, NEW id \in Ids, Evict(id)
  PROVE  ReadsInv'
<1> USE DEF Evict
<1>1. TypeOK'
  BY ReadsConstants DEF ReadsInv, TypeOK
<1>2. FallbackOK'
  BY ReadsConstants DEF ReadsInv, TypeOK, FallbackOK
<1>3. OpenOK' /\ StoreOK' /\ PageOK'
  BY DEF ReadsInv, OpenOK, StoreOK, PageOK, Total
<1> QED  BY <1>1, <1>2, <1>3 DEF ReadsInv

LEMMA BeginKeeps ==
  ASSUME ReadsInv, NEW r \in Requests, Begin(r)
  PROVE  ReadsInv'
<1> USE DEF Begin
<1>1. PICK x \in Ids \cup Skips :
        /\ uid' = [uid EXCEPT ![r] = x]
        /\ seen' = [seen EXCEPT ![r] = IF x \in Ids THEN {State(x)} ELSE {}]
  OBVIOUS
<1>2. TypeOK'
  BY <1>1, ReadsConstants DEF ReadsInv, TypeOK
<1>3. OpenOK'
  BY <1>1, ReadsConstants DEF ReadsInv, TypeOK, OpenOK
<1>4. StoreOK' /\ FallbackOK' /\ PageOK'
  BY <1>1 DEF ReadsInv, TypeOK, StoreOK, FallbackOK, PageOK, Total
<1> QED  BY <1>2, <1>3, <1>4 DEF ReadsInv

LEMMA AcquireKeeps ==
  ASSUME ReadsInv, NEW r \in Requests, Acquire(r)
  PROVE  ReadsInv'
<1> USE DEF Acquire
<1>1. Cardinality(held') <= PoolLimit
  <2>1. IsFiniteSet(held)
    BY ReadsConstants, FS_Subset DEF ReadsInv, TypeOK
  <2>2. CASE r \in held
    <3>1. held' = held
      BY <2>2
    <3> QED  BY <3>1 DEF ReadsInv, TypeOK
  <2>3. CASE r \notin held
    <3>1. Cardinality(held') = Cardinality(held) + 1
      BY <2>1, <2>3, FS_AddElement
    <3>2. Cardinality(held) \in Nat
      BY <2>1, FS_CardinalityType
    <3> QED  BY <3>1, <3>2, ReadsConstants
  <2> QED  BY <2>2, <2>3
<1>2. TypeOK'
  BY <1>1 DEF ReadsInv, TypeOK
<1>3. OpenOK' /\ StoreOK' /\ FallbackOK' /\ PageOK'
  BY DEF ReadsInv, TypeOK, OpenOK, StoreOK, FallbackOK, PageOK, Total
<1> QED  BY <1>2, <1>3 DEF ReadsInv

\* An answer, and the session that is closed with it.
LEMMA EndKeeps ==
  ASSUME ReadsInv, NEW r \in Requests, NEW code \in {200, 404, 500, 503}, NEW body \in Nat,
         End(r, code, body), pc[r] \in InFlight, UNCHANGED <<table, uid, before>>,
         cache' \in [Ids -> 0..MaxWrites], \A id \in Ids : cache'[id] <= ver[id],
         failed' \in SUBSET Requests, stored' \in SUBSET Requests, failed \subseteq failed'
  PROVE  ReadsInv'
<1> USE DEF End
<1>1. Cardinality(held') <= PoolLimit
  BY FewerHeld DEF ReadsInv
<1>2. TypeOK'
  BY <1>1, ReadsConstants DEF ReadsInv, TypeOK
<1>3. OpenOK'
  BY ReadsConstants DEF ReadsInv, TypeOK, OpenOK
<1>4. \A q \in Requests : pc'[q] # "done" =>
         q # r /\ pc[q] = pc'[q] /\ got'[q] = got[q] /\ seen'[q] = seen[q]
                /\ (q \in thinned => q \in thinned')
  BY DEF ReadsInv, TypeOK
<1>5. StoreOK'
  BY <1>4 DEF ReadsInv, StoreOK
<1>6. FallbackOK'
  BY <1>4 DEF ReadsInv, FallbackOK
<1>7. Total' = Total
  BY DEF Total
<1>8. PageOK'
  BY <1>4, <1>7 DEF ReadsInv, PageOK
<1> QED  BY <1>2, <1>3, <1>5, <1>6, <1>8 DEF ReadsInv

\* The same, of a request that puts nothing into the cache.
LEMMA AnswerKeeps ==
  ASSUME ReadsInv, NEW r \in Requests, NEW code \in {200, 404, 500, 503}, NEW body \in Nat,
         End(r, code, body), pc[r] \in InFlight,
         UNCHANGED <<table, cache, uid, stored, before>>, failed' \in {failed, failed \cup {r}}
  PROVE  ReadsInv'
<1>1. /\ cache' \in [Ids -> 0..MaxWrites] /\ \A id \in Ids : cache'[id] <= ver[id]
      /\ stored' \in SUBSET Requests
  BY DEF ReadsInv, TypeOK, FallbackOK
<1>2. failed' \in SUBSET Requests /\ failed \subseteq failed'
  BY DEF ReadsInv, TypeOK
<1> QED  BY <1>1, <1>2, EndKeeps

LEMMA FailKeeps ==
  ASSUME ReadsInv, NEW r \in Requests, Fail(r), pc[r] \in {"queue", "read", "total"}
  PROVE  ReadsInv'
<1>1. CASE Listing(r) /\ End(r, 503, 0)
  BY <1>1, AnswerKeeps DEF Fail
<1>2. CASE ~Listing(r) /\ Goto(r, "fallback") /\ UNCHANGED <<held, got, answers, seen, thinned>>
  <2> USE <1>2 DEF Fail
  <2>1. TypeOK'
    BY DEF ReadsInv, TypeOK
  <2>2. OpenOK' /\ StoreOK' /\ FallbackOK' /\ PageOK'
    BY DEF ReadsInv, TypeOK, OpenOK, StoreOK, FallbackOK, PageOK, Total
  <2> QED  BY <2>1, <2>2 DEF ReadsInv
<1> QED  BY <1>1, <1>2 DEF Fail

LEMMA RaiseKeeps ==
  ASSUME ReadsInv, NEW r \in Requests, Raise(r)
  PROVE  ReadsInv'
BY AnswerKeeps DEF Raise

LEMMA ReadUserKeeps ==
  ASSUME ReadsInv, NEW r \in Requests, ReadUser(r)
  PROVE  ReadsInv'
<1>1. CASE End(r, 404, 0)
  BY <1>1, AnswerKeeps DEF ReadUser
<1>2. CASE /\ Live(uid[r])
           /\ got' = [got EXCEPT ![r] = ver[uid[r]]]
           /\ Goto(r, "store")
           /\ UNCHANGED <<held, answers, seen, thinned>>
  <2> USE <1>2 DEF ReadUser
  <2>1. uid[r] \in Ids /\ ver[uid[r]] \in 1..MaxWrites
    BY ReadsConstants DEF ReadsInv, TypeOK
  <2>2. TypeOK'
    BY <2>1, ReadsConstants DEF ReadsInv, TypeOK
  <2>3. OpenOK' /\ StoreOK'
    BY <2>1, ReadsConstants DEF ReadsInv, TypeOK, OpenOK, StoreOK
  <2>4. FallbackOK' /\ PageOK'
    BY DEF ReadsInv, TypeOK, FallbackOK, PageOK, Total
  <2> QED  BY <2>2, <2>3, <2>4 DEF ReadsInv
<1> QED  BY <1>1, <1>2 DEF ReadUser

LEMMA RedisKeeps ==
  ASSUME ReadsInv, NEW r \in Requests, Redis(r)
  PROVE  ReadsInv'
<1>1. pc[r] = "store" => uid[r] \in Ids /\ got[r] \in 0..MaxWrites /\ got[r] <= ver[uid[r]]
  BY ReadsConstants DEF ReadsInv, TypeOK, StoreOK
<1>2. CASE Store(r)
  <2>1. cache' \in [Ids -> 0..MaxWrites] /\ \A id \in Ids : cache'[id] <= ver[id]
    BY <1>1, <1>2 DEF Store, ReadsInv, TypeOK, FallbackOK
  <2>2. failed' \in SUBSET Requests /\ stored' \in SUBSET Requests /\ failed \subseteq failed'
    BY <1>2 DEF Store, ReadsInv, TypeOK
  <2>3. got[r] \in Nat
    BY <1>1, <1>2, ReadsConstants DEF Store
  <2>4. pc[r] \in InFlight /\ End(r, 200, got[r]) /\ UNCHANGED <<table, uid, before>>
    BY <1>2 DEF Store
  <2> QED  BY <2>1, <2>2, <2>3, <2>4, EndKeeps
<1>3. CASE StoreFails(r)
  <2>1. got[r] \in Nat
    BY <1>1, <1>3, ReadsConstants DEF StoreFails
  <2> QED  BY <1>3, <2>1, AnswerKeeps DEF StoreFails
<1>4. CASE Fallback(r)
  <2>1. uid[r] \in Ids /\ cache[uid[r]] \in Nat
    BY <1>4, ReadsConstants DEF Fallback, ReadsInv, TypeOK, FallbackOK
  <2>2. CASE End(r, 200, cache[uid[r]])
    BY <1>4, <2>1, <2>2, AnswerKeeps DEF Fallback
  <2>3. CASE End(r, 404, 0)
    BY <1>4, <2>3, AnswerKeeps DEF Fallback
  <2> QED  BY <1>4, <2>2, <2>3 DEF Fallback
<1> QED  BY <1>2, <1>3, <1>4 DEF Redis

LEMMA ReadPageKeeps ==
  ASSUME ReadsInv, NEW r \in Requests, ReadPage(r)
  PROVE  ReadsInv'
<1> USE DEF ReadPage
<1>1. uid[r] \in Nat /\ Total \in Nat /\ PageLimit \in Nat
  BY TotalNat, ListingSkips, ReadsConstants DEF ReadsInv
<1>2. got'[r] \in Nat /\ (got'[r] = 0 \/ uid[r] + got'[r] <= Total)
  <2> DEFINE rows == IF Total > uid[r] THEN Total - uid[r] ELSE 0
             page == IF rows < PageLimit THEN rows ELSE PageLimit
  <2>1. page \in Nat /\ (page = 0 \/ uid[r] + page <= Total)
    BY <1>1
  <2>2. got'[r] = page
    BY DEF ReadsInv, TypeOK
  <2> QED  BY <2>1, <2>2
<1>3. TypeOK'
  BY <1>2 DEF ReadsInv, TypeOK
<1>4. OpenOK' /\ StoreOK' /\ FallbackOK'
  BY DEF ReadsInv, TypeOK, OpenOK, StoreOK, FallbackOK
<1>5. PageOK'
  BY <1>2 DEF ReadsInv, TypeOK, PageOK, Total
<1> QED  BY <1>3, <1>4, <1>5 DEF ReadsInv

LEMMA ReadTotalKeeps ==
  ASSUME ReadsInv, NEW r \in Requests, ReadTotal(r)
  PROVE  ReadsInv'
BY TotalNat, AnswerKeeps DEF ReadTotal

LEMMA CrashKeeps ==
  ASSUME ReadsInv, Crash
  PROVE  ReadsInv'
<1> USE DEF Crash
<1>1. Cardinality(held') <= PoolLimit
  BY FewerHeld DEF ReadsInv
<1>2. TypeOK'
  BY <1>1, ReadsConstants DEF ReadsInv, TypeOK
<1>3. OpenOK' /\ StoreOK' /\ FallbackOK' /\ PageOK'
  BY ReadsConstants DEF ReadsInv, TypeOK, OpenOK, StoreOK, FallbackOK, PageOK, Total
<1> QED  BY <1>2, <1>3 DEF ReadsInv

-----------------------------------------------------------------------------
LEMMA ReadsStart ==
  ASSUME Init
  PROVE  ReadsInv
<1> USE DEF Init
<1>1. Cardinality({}) = 0
  BY FS_EmptySet
<1>2. TypeOK
  BY <1>1, ReadsConstants DEF TypeOK
<1>3. OpenOK /\ StoreOK /\ FallbackOK /\ PageOK
  BY ReadsConstants DEF OpenOK, StoreOK, FallbackOK, PageOK
<1> QED  BY <1>2, <1>3 DEF ReadsInv

LEMMA ReadsStep ==
  ASSUME ReadsInv, [Next]_vars
  PROVE  ReadsInv'
<1>1. ASSUME NEW r \in Requests, Database(r)
      PROVE  ReadsInv'
  BY <1>1, AcquireKeeps, FailKeeps, ReadUserKeeps, ReadPageKeeps, ReadTotalKeeps
     DEF Database, Timeout
<1>2. ASSUME NEW r \in Requests, Begin(r) \/ Redis(r) \/ DatabaseFails(r) \/ Raise(r)
      PROVE  ReadsInv'
  BY <1>2, BeginKeeps, RedisKeeps, FailKeeps, RaiseKeeps DEF DatabaseFails
<1>3. ASSUME NEW id \in Ids, Write(id) \/ Delete(id) \/ Evict(id)
      PROVE  ReadsInv'
  BY <1>3, WriteKeeps, DeleteKeeps, EvictKeeps
<1>4. CASE UNCHANGED vars
  BY <1>4 DEF vars, ReadsInv, TypeOK, OpenOK, StoreOK, FallbackOK, PageOK, Total
<1> QED  BY <1>1, <1>2, <1>3, <1>4, CrashKeeps DEF Next, Finished

\* What requests under way have read and what the cache holds, at every step.
THEOREM ReadsInvariant == Spec => []ReadsInv
<1>1. Init => ReadsInv
  BY ReadsStart
<1>2. ReadsInv /\ [Next]_vars => ReadsInv'
  BY ReadsStep
<1> QED  BY <1>1, <1>2, PTL DEF Spec

\* The state is well formed, and no more connections are out than the pool has, whoever
\* waits, fails or dies.
THEOREM ReadsTyped == Spec => []TypeOK
<1>1. ReadsInv => TypeOK
  BY DEF ReadsInv
<1> QED  BY <1>1, ReadsInvariant, PTL

-----------------------------------------------------------------------------
SummaryStep == \A r \in Requests : Answered(r) /\ ~Listing(r) =>
  /\ resp'[r] = 200 => \/ out'[r] \in seen[r] \ {0}
                       \/ r \in failed /\ out'[r] \in 1..ver[uid[r]]
  /\ resp'[r] = 404 => 0 \in seen[r] \/ r \in failed

PageStep == \A r \in Requests : Answered(r) /\ Listing(r) /\ resp'[r] = 200 =>
  got[r] = 0 \/ uid[r] + got[r] <= out'[r] \/ r \in thinned

\* The steps that answer nobody.
LEMMA QuietStep ==
  ASSUME \A r \in Requests : ~Answered(r)
  PROVE  SummaryStep /\ PageStep
BY DEF SummaryStep, PageStep

\* The steps that answer one request, with what.
LEMMA EndSays ==
  ASSUME ReadsInv, NEW r \in Requests, NEW code, NEW body, End(r, code, body),
         ~Listing(r) => /\ code = 200 => \/ body \in seen[r] \ {0}
                                         \/ r \in failed /\ body \in 1..ver[uid[r]]
                        /\ code = 404 => 0 \in seen[r] \/ r \in failed,
         Listing(r) /\ code = 200 => got[r] = 0 \/ uid[r] + got[r] <= body \/ r \in thinned
  PROVE  SummaryStep /\ PageStep
<1>1. resp'[r] = code /\ out'[r] = body
  BY DEF End, ReadsInv, TypeOK
<1>2. \A q \in Requests : Answered(q) => q = r
  BY DEF End, ReadsInv, TypeOK, Answered
<1> QED  BY <1>1, <1>2 DEF SummaryStep, PageStep

LEMMA AnswersSay ==
  ASSUME ReadsInv, Next
  PROVE  SummaryStep /\ PageStep
<1>1. ASSUME NEW r \in Requests, Fail(r)
      PROVE  SummaryStep /\ PageStep
  <2>1. CASE End(r, 503, 0)
    BY <2>1, EndSays
  <2>2. CASE Goto(r, "fallback")
    BY <2>2, QuietStep DEF Answered, ReadsInv, TypeOK
  <2> QED  BY <1>1, <2>1, <2>2 DEF Fail
<1>2. ASSUME NEW r \in Requests, Database(r)
      PROVE  SummaryStep /\ PageStep
  <2>1. CASE Acquire(r) \/ ReadPage(r)
    BY <2>1, QuietStep DEF Acquire, ReadPage, Answered, ReadsInv, TypeOK
  <2>2. CASE Timeout(r)
    BY <1>1, <2>2 DEF Timeout
  <2>3. CASE ReadUser(r)
    <3>1. CASE ~Live(uid[r]) /\ End(r, 404, 0)
      <4>1. 0 \in seen[r]
        BY <2>3, <3>1 DEF ReadUser, ReadsInv, OpenOK
      <4> QED  BY <2>3, <3>1, <4>1, EndSays DEF ReadUser
    <3>2. CASE Goto(r, "store")
      BY <3>2, QuietStep DEF Answered, ReadsInv, TypeOK
    <3> QED  BY <2>3, <3>1, <3>2 DEF ReadUser
  <2>4. CASE ReadTotal(r)
    BY <2>4, EndSays DEF ReadTotal, ReadsInv, PageOK
  <2> QED  BY <1>2, <2>1, <2>2, <2>3, <2>4 DEF Database
<1>3. ASSUME NEW r \in Requests, Redis(r)
      PROVE  SummaryStep /\ PageStep
  <2>1. CASE Store(r) \/ StoreFails(r)
    <3>1. ~Listing(r) /\ got[r] \in seen[r] \ {0}
      BY <2>1, ReadsConstants DEF Store, StoreFails, ReadsInv, TypeOK, StoreOK
    <3>2. End(r, 200, got[r])
      BY <2>1 DEF Store, StoreFails
    <3> QED  BY <3>1, <3>2, EndSays
  <2>2. CASE Fallback(r)
    <3>1. /\ ~Listing(r) /\ r \in failed /\ uid[r] \in Ids
          /\ cache[uid[r]] \in Nat /\ ver[uid[r]] \in Nat /\ cache[uid[r]] <= ver[uid[r]]
      BY <2>2, ReadsConstants DEF Fallback, ReadsInv, TypeOK, FallbackOK
    <3>2. CASE cache[uid[r]] # 0 /\ End(r, 200, cache[uid[r]])
      BY <3>1, <3>2, EndSays
    <3>3. CASE End(r, 404, 0)
      BY <3>1, <3>3, EndSays
    <3> QED  BY <2>2, <3>2, <3>3 DEF Fallback
  <2> QED  BY <1>3, <2>1, <2>2 DEF Redis
<1>4. ASSUME NEW r \in Requests, Begin(r)
      PROVE  SummaryStep /\ PageStep
  BY <1>4, QuietStep DEF Begin, Answered, ReadsInv, TypeOK
<1>5. ASSUME NEW r \in Requests, Raise(r)
      PROVE  SummaryStep /\ PageStep
  BY <1>5, EndSays DEF Raise
<1>6. ASSUME NEW id \in Ids, Write(id) \/ Delete(id) \/ Evict(id)
      PROVE  SummaryStep /\ PageStep
  BY <1>6, QuietStep DEF Write, Delete, Evict, Answered
<1>7. CASE Crash
  <2>1. \A r \in Requests : Answered(r) => resp'[r] = 0
    BY <1>7 DEF Crash, Answered, ReadsInv, OpenOK
  <2> QED  BY <2>1 DEF SummaryStep, PageStep
<1>8. CASE Finished
  BY <1>8, QuietStep DEF Finished, vars, Answered
<1> QED  BY <1>1, <1>2, <1>3, <1>4, <1>5, <1>6, <1>7, <1>8 DEF Next, DatabaseFails

\* Every summary and every 404 is true of its user at some moment of the request, unless
\* the database failed it.
THEOREM SummariesAreJustified == Spec => SummaryJustified
<1>1. ReadsInv /\ [Next]_vars => [SummaryStep]_vars
  BY AnswersSay
<1> QED  BY <1>1, ReadsInvariant, PTL DEF Spec, SummaryJustified, SummaryStep

\* A page agrees with its total, unless a user was deleted between the two.
THEOREM PagesAreWithin == Spec => PageWithinTotal
<1>1. ReadsInv /\ [Next]_vars => [PageStep]_vars
  BY AnswersSay
<1> QED  BY <1>1, ReadsInvariant, PTL DEF Spec, PageWithinTotal, PageStep

-----------------------------------------------------------------------------
\* That summaries go forward is an invariant by what each step does to the requests that
\* are over: nothing but to add one.  Three kinds of step answer nobody or answer without
\* Redis taking it.

\* No request is answered: those that are over stay as they are, the others unanswered.
LEMMA QuietForward ==
  ASSUME ReadsInv, ForwardInv,
         \A q \in Requests : pc[q] = "done" =>
           /\ pc'[q] = "done" /\ resp'[q] = resp[q] /\ out'[q] = out[q]
           /\ uid'[q] = uid[q] /\ before'[q] = before[q]
           /\ (q \in failed' <=> q \in failed),
         \A q \in Requests : pc[q] # "done" => resp'[q] = 0,
         \A r \in Requests : before'[r] \subseteq {q \in Requests : pc[q] = "done"},
         stored' = stored, NewerOK', \A r \in failed' : pc'[r] \in {"fallback", "done"},
         \A id \in Ids : ver[id] <= ver'[id] /\ ver'[id] \in Nat,
         \A id \in Ids : cache'[id] \in {0, cache[id]}
  PROVE  ForwardInv'
<1>1. \A q \in Requests : FromDatabase(q)' =>
        /\ FromDatabase(q) /\ pc[q] = "done" /\ uid'[q] = uid[q] /\ out'[q] = out[q]
        /\ uid[q] \in Ids /\ out[q] \in Nat /\ ver[uid[q]] \in Nat /\ cache[uid[q]] \in Nat
  BY ReadsConstants DEF FromDatabase, ReadsInv, TypeOK
<1>2. PastOK'
  <2>1. \A r \in Requests : \A q \in before'[r] : pc'[q] = "done"
    OBVIOUS
  <2>2. \A r \in stored' : pc'[r] = "done" /\ r \notin failed'
    BY DEF ForwardInv, PastOK, ReadsInv, TypeOK
  <2>3. \A q \in Requests : FromDatabase(q)' => out'[q] <= ver'[uid'[q]]
    <3> SUFFICES ASSUME NEW q \in Requests, FromDatabase(q)'
                 PROVE  out'[q] <= ver'[uid'[q]]
      OBVIOUS
    <3>1. out[q] <= ver[uid[q]] /\ ver[uid[q]] <= ver'[uid[q]] /\ ver'[uid[q]] \in Nat
      BY <1>1 DEF ForwardInv, PastOK
    <3> QED  BY <1>1, <3>1
  <2>4. \A r \in failed' : pc'[r] \in {"fallback", "done"}
    OBVIOUS
  <2> QED  BY <2>1, <2>2, <2>3, <2>4 DEF PastOK
<1>3. CacheOK'
  <2> SUFFICES ASSUME NEW q \in stored, FromDatabase(q)'
               PROVE  (\/ cache[uid[q]] = 0
                       \/ out[q] <= cache[uid[q]]
                       \/ \E p \in stored \ {q} : Overtaken(p, q) /\ out[p] = cache[uid[q]])'
    BY DEF CacheOK
  <2>0. q \in Requests
    BY DEF ReadsInv, TypeOK
  <2>1. \/ cache[uid[q]] = 0
        \/ out[q] <= cache[uid[q]]
        \/ \E p \in stored \ {q} : Overtaken(p, q) /\ out[p] = cache[uid[q]]
    BY <1>1, <2>0 DEF ForwardInv, CacheOK
  <2>2. cache'[uid'[q]] \in {0, cache[uid[q]]} /\ out'[q] = out[q] /\ uid'[q] = uid[q]
    BY <1>1, <2>0
  <2>3. ASSUME NEW p \in stored \ {q}, Overtaken(p, q), out[p] = cache[uid[q]]
        PROVE  Overtaken(p, q)' /\ out'[p] = cache[uid[q]]
    <3>1. p \in Requests /\ pc[p] = "done" /\ pc[q] = "done"
      BY <1>1, <2>0 DEF ForwardInv, PastOK, ReadsInv, TypeOK
    <3> QED  BY <2>3, <3>1, <2>0 DEF Overtaken
  <2> QED  BY <2>1, <2>2, <2>3
<1>4. SummariesGoForward'
  <2> SUFFICES ASSUME NEW q \in Requests, NEW r \in Requests,
                      q \in before'[r], uid'[q] = uid'[r], ~Listing(r)', resp'[q] = 200,
                      q \notin failed', resp'[r] = 200, out'[r] < out'[q], q \in stored'
               PROVE  \E p \in stored' \ {q, r} :
                        /\ uid'[p] = uid'[r] /\ q \notin before'[p] /\ p \notin before'[q]
                        /\ out'[p] = out'[r]
    BY DEF SummariesGoForward
  <2>1. pc[r] = "done" /\ pc[q] = "done"
    OBVIOUS
  <2>2. PICK p \in stored \ {q, r} : uid[p] = uid[r] /\ q \notin before[p] /\ p \notin before[q]
                                     /\ out[p] = out[r]
    BY <2>1 DEF ForwardInv, SummariesGoForward
  <2>3. p \in Requests /\ pc[p] = "done"
    BY DEF ForwardInv, PastOK, ReadsInv, TypeOK
  <2> QED  BY <2>1, <2>2, <2>3
<1> QED  BY <1>2, <1>3, <1>4 DEF ForwardInv

\* A request is answered.
LEMMA EndForward ==
  ASSUME ReadsInv, ForwardInv, NEW r \in Requests, NEW code \in {200, 404, 500, 503}, NEW body \in Nat,
         pc[r] \in InFlight, End(r, code, body),
         UNCHANGED <<table, uid, before>>, failed' \in {failed, failed \cup {r}},
         stored' = stored \/ (stored' = stored \cup {r} /\ pc[r] = "store" /\ failed' = failed),
         code = 200 /\ ~Listing(r) =>
           \/ pc[r] = "store" /\ body = got[r]
           \/ pc[r] = "fallback" /\ body = cache[uid[r]] /\ body # 0,
         CacheOK'
  PROVE  ForwardInv'
<1>1. /\ \A q \in Requests \ {r} : /\ pc'[q] = pc[q] /\ resp'[q] = resp[q] /\ out'[q] = out[q]
                                   /\ (q \in failed' <=> q \in failed) /\ got'[q] = got[q]
      /\ pc[r] # "done" /\ pc'[r] = "done" /\ resp'[r] = code /\ out'[r] = body /\ r \notin stored
  BY DEF End, ReadsInv, TypeOK, ForwardInv, PastOK
<1>2. \A q \in Requests \ {r} : FromDatabase(q)' <=> FromDatabase(q)
  BY <1>1 DEF FromDatabase
<1>3. FromDatabase(r)' => pc[r] = "store" /\ body = got[r] /\ uid[r] \in Ids
  BY <1>1 DEF FromDatabase, ReadsInv, FallbackOK, TypeOK
<1>4. PastOK'
  <2>1. \A p \in Requests : \A q \in before'[p] : pc'[q] = "done"
    BY <1>1 DEF ForwardInv, PastOK, ReadsInv, TypeOK
  <2>2. \A p \in stored' : pc'[p] = "done" /\ p \notin failed'
    BY <1>1 DEF ForwardInv, PastOK, ReadsInv, TypeOK
  <2>3. \A q \in Requests \ {r} : FromDatabase(q)' => out'[q] <= ver'[uid'[q]]
    BY <1>1, <1>2 DEF ForwardInv, PastOK
  <2>4. FromDatabase(r)' => out'[r] <= ver'[uid'[r]]
    BY <1>1, <1>3 DEF ReadsInv, StoreOK
  <2>5. \A q \in failed' : pc'[q] \in {"fallback", "done"}
    BY <1>1 DEF ForwardInv, PastOK, ReadsInv, TypeOK
  <2> QED  BY <2>1, <2>2, <2>3, <2>4, <2>5 DEF PastOK
<1>5. NewerOK'
  <2> SUFFICES ASSUME NEW p \in Requests, pc'[p] = "store"
               PROVE  \A q \in before[p] : FromDatabase(q)' /\ uid[q] = uid[p] => out'[q] <= got'[p]
    BY DEF NewerOK
  <2>1. p # r /\ pc[p] = "store"
    BY <1>1
  <2>2. \A q \in before[p] : q \in Requests /\ q # r
    BY <1>1, <2>1 DEF ForwardInv, PastOK, ReadsInv, TypeOK
  <2> QED  BY <1>1, <1>2, <2>1, <2>2 DEF ForwardInv, NewerOK
<1>7. SummariesGoForward'
  <2> SUFFICES ASSUME NEW q \in Requests, NEW p \in Requests,
                      q \in before[p], uid[q] = uid[p], ~Listing(p), resp'[q] = 200,
                      q \notin failed', resp'[p] = 200, out'[p] < out'[q], q \in stored'
               PROVE  \E o \in stored' \ {q, p} :
                        /\ uid[o] = uid[p] /\ q \notin before[o] /\ o \notin before[q]
                        /\ out'[o] = out'[p]
    BY DEF SummariesGoForward
  <2>1. pc[q] = "done" /\ q # r /\ q \in stored /\ stored \subseteq stored'
    BY <1>1 DEF ForwardInv, PastOK
  <2>2. \A o \in stored : o \in Requests /\ out'[o] = out[o]
    BY <1>1 DEF ReadsInv, TypeOK
  <2>3. CASE p # r
    <3>1. PICK o \in stored \ {q, p} : /\ uid[o] = uid[p] /\ q \notin before[o] /\ o \notin before[q]
                                       /\ out[o] = out[p]
      BY <1>1, <2>1, <2>3 DEF ForwardInv, SummariesGoForward
    <3> QED  BY <1>1, <2>2, <2>3, <3>1
  <2>4. CASE p = r
    <3>1. FromDatabase(q) /\ out'[q] = out[q] /\ out'[r] = body /\ code = 200 /\ body \in Nat /\ out[q] \in Nat
      BY <1>1, <2>1, <2>4 DEF FromDatabase, ReadsInv, TypeOK
    <3>2. ~(out[q] <= body)
      BY <2>4, <3>1
    <3>3. ~(pc[r] = "store" /\ body = got[r])
      BY <2>4, <3>1, <3>2 DEF ForwardInv, NewerOK
    <3>4. body = cache[uid[r]] /\ body # 0
      BY <2>4, <3>1, <3>3
    <3>5. PICK o \in stored \ {q} : Overtaken(o, q) /\ out[o] = cache[uid[q]]
      BY <2>4, <3>1, <3>2, <3>4 DEF ForwardInv, CacheOK
    <3>6. o # r /\ out'[o] = out'[r]
      BY <1>1, <2>2, <2>4, <3>1, <3>4, <3>5
    <3> QED  BY <2>4, <3>5, <3>6 DEF Overtaken
  <2> QED  BY <2>3, <2>4
<1> QED  BY <1>4, <1>5, <1>7 DEF ForwardInv

\* A request is answered, and Redis takes nothing.
LEMMA AnswerForward ==
  ASSUME ReadsInv, ForwardInv, NEW r \in Requests, NEW code \in {200, 404, 500, 503}, NEW body \in Nat,
         pc[r] \in InFlight, End(r, code, body),
         UNCHANGED <<table, cache, uid, stored, before>>, failed' \in {failed, failed \cup {r}},
         code = 200 /\ ~Listing(r) =>
           \/ pc[r] = "store" /\ body = got[r]
           \/ pc[r] = "fallback" /\ body = cache[uid[r]] /\ body # 0
  PROVE  ForwardInv'
<1>1. /\ \A q \in Requests \ {r} : /\ resp'[q] = resp[q] /\ out'[q] = out[q]
                                   /\ (q \in failed' <=> q \in failed)
      /\ r \notin stored
  BY DEF End, ReadsInv, TypeOK, ForwardInv, PastOK
<1>2. \A q \in Requests \ {r} : FromDatabase(q)' <=> FromDatabase(q)
  BY <1>1 DEF FromDatabase
<1>3. CacheOK'
  <2> SUFFICES ASSUME NEW q \in stored, FromDatabase(q)'
               PROVE  (\/ cache[uid[q]] = 0
                       \/ out[q] <= cache[uid[q]]
                       \/ \E p \in stored \ {q} : Overtaken(p, q) /\ out[p] = cache[uid[q]])'
    BY DEF CacheOK
  <2>1. stored \subseteq Requests \ {r} /\ q \in Requests \ {r}
    BY <1>1 DEF ReadsInv, TypeOK
  <2>2. \/ cache[uid[q]] = 0
        \/ out[q] <= cache[uid[q]]
        \/ \E p \in stored \ {q} : Overtaken(p, q) /\ out[p] = cache[uid[q]]
    BY <1>2, <2>1 DEF ForwardInv, CacheOK
  <2>3. \A p \in stored : Overtaken(p, q)' <=> Overtaken(p, q)
    BY DEF Overtaken
  <2> QED  BY <1>1, <2>1, <2>2, <2>3
<1> QED  BY <1>3, EndForward

\* What Redis takes was read after every answer given before its request began: an answer
\* that is newer was given while the request was under way.
LEMMA StoreForward ==
  ASSUME ReadsInv, ForwardInv, NEW r \in Requests, Store(r)
  PROVE  ForwardInv'
<1>1. /\ pc[r] = "store" /\ End(r, 200, got[r]) /\ UNCHANGED <<table, uid, before, failed>>
      /\ cache' = [cache EXCEPT ![uid[r]] = got[r]] /\ stored' = stored \cup {r}
      /\ uid[r] \in Ids /\ got[r] \in Nat
  BY DEF Store, ReadsInv, TypeOK, StoreOK
<1>2. /\ \A q \in Requests \ {r} : resp'[q] = resp[q] /\ out'[q] = out[q]
      /\ r \notin stored /\ resp'[r] = 200 /\ out'[r] = got[r]
      /\ cache'[uid[r]] = got[r] /\ \A id \in Ids \ {uid[r]} : cache'[id] = cache[id]
  BY <1>1 DEF End, ReadsInv, TypeOK, ForwardInv, PastOK
<1>3. CacheOK'
  <2> SUFFICES ASSUME NEW q \in stored', FromDatabase(q)'
               PROVE  (\/ cache[uid[q]] = 0
                       \/ out[q] <= cache[uid[q]]
                       \/ \E p \in stored \ {q} : Overtaken(p, q) /\ out[p] = cache[uid[q]])'
    BY DEF CacheOK
  <2>1. CASE q = r
    BY <1>1, <1>2, <2>1
  <2>2. CASE q # r
    <3>1. q \in stored /\ q \in Requests /\ FromDatabase(q) /\ out'[q] = out[q] /\ uid[q] \in Ids
      BY <1>1, <1>2, <2>2 DEF FromDatabase, ReadsInv, TypeOK
    <3>2. CASE uid[q] # uid[r]
      <4>1. \/ cache[uid[q]] = 0
            \/ out[q] <= cache[uid[q]]
            \/ \E p \in stored \ {q} : Overtaken(p, q) /\ out[p] = cache[uid[q]]
        BY <3>1 DEF ForwardInv, CacheOK
      <4>2. \A p \in stored : out'[p] = out[p] /\ (Overtaken(p, q)' <=> Overtaken(p, q))
        BY <1>1, <1>2 DEF Overtaken, ReadsInv, TypeOK
      <4> QED  BY <1>1, <1>2, <3>1, <3>2, <4>1, <4>2
    <3>3. CASE uid[q] = uid[r]
      <4>1. q \in before[r] => out[q] <= got[r]
        BY <1>1, <3>1, <3>3 DEF ForwardInv, NewerOK
      <4>2. r \notin before[q]
        BY <1>1, <3>1 DEF ForwardInv, PastOK
      <4>3. q \notin before[r] => Overtaken(r, q)' /\ out'[r] = cache'[uid[q]]
        BY <1>1, <1>2, <3>3, <4>2 DEF Overtaken
      <4> QED  BY <1>1, <1>2, <2>2, <3>1, <3>3, <4>1, <4>3
    <3> QED  BY <3>2, <3>3
  <2> QED  BY <2>1, <2>2
<1> QED  BY <1>1, <1>3, EndForward

\* A handler that answers nobody: it begins, or goes on to another statement.
LEMMA GotoForward ==
  ASSUME ReadsInv, ForwardInv, NEW r \in Requests, NEW s \in InFlight, pc[r] # "done", Goto(r, s),
         UNCHANGED <<table, cache, answers, stored>>, failed' \in {failed, failed \cup {r}},
         \/ pc[r] = "idle" /\ \A q \in Requests \ {r} : uid'[q] = uid[q] /\ before'[q] = before[q]
         \/ UNCHANGED <<uid, before>>,
         \A p \in Requests : before'[p] \subseteq {q \in Requests : pc[q] = "done"},
         \A q \in Requests \ {r} : got'[q] = got[q],
         r \in failed' => s = "fallback",
         s = "store" => /\ pc[r] = "read"
                        /\ got'[r] = ver[uid[r]] /\ UNCHANGED <<uid, before>>
  PROVE  ForwardInv'
<1>1. /\ \A q \in Requests \ {r} : pc'[q] = pc[q] /\ (q \in failed' <=> q \in failed)
      /\ pc'[r] = s /\ \A q \in Requests : pc[q] # "done" => resp[q] = 0
  BY DEF ReadsInv, TypeOK, OpenOK
<1>2. NewerOK'
  <2> SUFFICES ASSUME NEW p \in Requests, pc'[p] = "store"
               PROVE  \A q \in before'[p] :
                        FromDatabase(q)' /\ uid'[q] = uid'[p] => out[q] <= got'[p]
    BY DEF NewerOK
  <2>1. \A q \in before'[p] : /\ q \in Requests \ {r} /\ uid'[q] = uid[q]
                              /\ (FromDatabase(q)' <=> FromDatabase(q))
    BY <1>1 DEF FromDatabase
  <2>2. CASE p = r
    <3>1. \A q \in Requests : FromDatabase(q) => out[q] <= ver[uid[q]]
      BY DEF ForwardInv, PastOK
    <3> QED  BY <1>1, <2>1, <2>2, <3>1
  <2>3. CASE p # r
    BY <1>1, <2>1, <2>3 DEF ForwardInv, NewerOK
  <2> QED  BY <2>2, <2>3
<1>3. \A id \in Ids : ver[id] <= ver'[id] /\ ver'[id] \in Nat
  BY ReadsConstants DEF ReadsInv, TypeOK
<1>4. \A q \in Requests : pc[q] = "done" =>
        /\ pc'[q] = "done" /\ resp'[q] = resp[q] /\ out'[q] = out[q]
        /\ uid'[q] = uid[q] /\ before'[q] = before[q]
        /\ (q \in failed' <=> q \in failed)
  BY <1>1
<1>5. \A q \in Requests : pc[q] # "done" => resp'[q] = 0
  BY <1>1
<1>6. \A q \in failed' : pc'[q] \in {"fallback", "done"}
  BY <1>1 DEF ForwardInv, PastOK, ReadsInv, TypeOK
<1> QED  BY <1>2, <1>3, <1>4, <1>5, <1>6, QuietForward

LEMMA BeginForward ==
  ASSUME ReadsInv, ForwardInv, NEW r \in Requests, Begin(r)
  PROVE  ForwardInv'
<1>1. /\ pc[r] = "idle" /\ Goto(r, "queue") /\ UNCHANGED <<table, cache, answers, stored, failed>>
      /\ \A q \in Requests \ {r} : uid'[q] = uid[q] /\ before'[q] = before[q] /\ got'[q] = got[q]
      /\ before'[r] = {q \in Requests : pc[q] = "done"}
  BY DEF Begin, ReadsInv, TypeOK
<1>2. \A p \in Requests : before'[p] \subseteq {q \in Requests : pc[q] = "done"}
  BY <1>1 DEF ForwardInv, PastOK, ReadsInv, TypeOK
<1>3. r \notin failed
  BY <1>1 DEF ForwardInv, PastOK
<1> QED  BY <1>1, <1>2, <1>3, GotoForward

\* A handler under way goes on.
LEMMA ProceedForward ==
  ASSUME ReadsInv, ForwardInv, NEW r \in Requests, NEW s \in InFlight \ {"store"}, pc[r] \in InFlight,
         Goto(r, s), UNCHANGED <<table, cache, answers, stored, uid, before>>,
         \A q \in Requests \ {r} : got'[q] = got[q],
         failed' = failed \/ (s = "fallback" /\ failed' = failed \cup {r}),
         r \in failed => s = "fallback"
  PROVE  ForwardInv'
<1>1. \A p \in Requests : before'[p] \subseteq {q \in Requests : pc[q] = "done"}
  BY DEF ForwardInv, PastOK, ReadsInv, TypeOK
<1> QED  BY <1>1, GotoForward

LEMMA FailForward ==
  ASSUME ReadsInv, ForwardInv, NEW r \in Requests, Fail(r), pc[r] \in {"queue", "read", "total"}
  PROVE  ForwardInv'
<1>1. CASE End(r, 503, 0)
  BY <1>1, AnswerForward DEF Fail
<1>2. CASE Goto(r, "fallback") /\ UNCHANGED <<held, got, answers, seen, thinned>>
  BY <1>2, ProceedForward DEF Fail
<1> QED  BY <1>1, <1>2 DEF Fail

LEMMA ReadUserForward ==
  ASSUME ReadsInv, ForwardInv, NEW r \in Requests, ReadUser(r)
  PROVE  ForwardInv'
<1>1. CASE End(r, 404, 0)
  BY <1>1, AnswerForward DEF ReadUser
<1>2. CASE got' = [got EXCEPT ![r] = ver[uid[r]]] /\ Goto(r, "store") /\ UNCHANGED answers
  <2>1. /\ pc[r] = "read" /\ r \notin failed /\ failed' = failed
        /\ UNCHANGED <<table, cache, answers, stored, uid, before>>
        /\ got'[r] = ver[uid[r]] /\ \A q \in Requests \ {r} : got'[q] = got[q]
    BY <1>2 DEF ReadUser, ForwardInv, PastOK, ReadsInv, TypeOK
  <2>2. \A p \in Requests : before'[p] \subseteq {q \in Requests : pc[q] = "done"}
    BY <2>1 DEF ForwardInv, PastOK, ReadsInv, TypeOK
  <2> QED  BY <1>2, <2>1, <2>2, GotoForward
<1> QED  BY <1>1, <1>2 DEF ReadUser

LEMMA DatabaseForward ==
  ASSUME ReadsInv, ForwardInv, NEW r \in Requests, Database(r)
  PROVE  ForwardInv'
<1>0. pc[r] \in {"queue", "read", "total"} => r \notin failed
  BY DEF ForwardInv, PastOK
<1>1. CASE Acquire(r)
  BY <1>0, <1>1, ProceedForward DEF Acquire
<1>2. CASE Timeout(r)
  BY <1>2, FailForward DEF Timeout
<1>3. CASE ReadPage(r)
  <2>1. /\ pc[r] = "read" /\ Goto(r, "total") /\ UNCHANGED <<table, cache, answers, stored, uid, before, failed>>
        /\ \A q \in Requests \ {r} : got'[q] = got[q]
    BY <1>3 DEF ReadPage, ReadsInv, TypeOK
  <2> QED  BY <1>0, <2>1, ProceedForward
<1>4. CASE ReadTotal(r)
  <2>1. Listing(r) /\ pc[r] = "total" /\ Total \in Nat
    BY <1>4, TotalNat DEF ReadTotal, ReadsInv, PageOK
  <2> QED  BY <1>4, <2>1, AnswerForward DEF ReadTotal
<1> QED  BY <1>1, <1>2, <1>3, <1>4, ReadUserForward DEF Database

LEMMA RedisForward ==
  ASSUME ReadsInv, ForwardInv, NEW r \in Requests, Redis(r)
  PROVE  ForwardInv'
<1>1. CASE StoreFails(r)
  <2>1. got[r] \in Nat
    BY DEF ReadsInv, TypeOK
  <2> QED  BY <1>1, <2>1, AnswerForward DEF StoreFails
<1>2. CASE Fallback(r)
  <2>1. cache[uid[r]] \in Nat
    BY <1>2, ReadsConstants DEF Fallback, ReadsInv, TypeOK, FallbackOK
  <2>2. CASE cache[uid[r]] # 0 /\ End(r, 200, cache[uid[r]])
    BY <1>2, <2>1, <2>2, AnswerForward DEF Fallback
  <2>3. CASE End(r, 404, 0)
    BY <1>2, <2>3, AnswerForward DEF Fallback
  <2> QED  BY <1>2, <2>2, <2>3 DEF Fallback
<1> QED  BY <1>1, <1>2, StoreForward DEF Redis

LEMMA TableForward ==
  ASSUME ReadsInv, ForwardInv, NEW id \in Ids, Write(id) \/ Delete(id) \/ Evict(id)
  PROVE  ForwardInv'
<1>1. /\ UNCHANGED <<pc, uid, got, answers, failed, stored, before>>
      /\ \A i \in Ids : ver[i] <= ver'[i] /\ ver'[i] \in Nat
      /\ \A i \in Ids : cache'[i] \in {0, cache[i]}
  BY ReadsConstants DEF Write, Delete, Evict, ReadsInv, TypeOK
<1>2. NewerOK' /\ \A r \in failed' : pc'[r] \in {"fallback", "done"}
  BY <1>1 DEF ForwardInv, NewerOK, PastOK, FromDatabase
<1>3. /\ \A q \in Requests : pc[q] # "done" => resp'[q] = 0
      /\ \A r \in Requests : before'[r] \subseteq {q \in Requests : pc[q] = "done"}
  BY <1>1 DEF ForwardInv, PastOK, ReadsInv, TypeOK, OpenOK
<1> QED  BY <1>1, <1>2, <1>3, QuietForward

LEMMA CrashForward ==
  ASSUME ReadsInv, ForwardInv, Crash
  PROVE  ForwardInv'
<1>1. /\ UNCHANGED <<table, cache, uid, answers, failed, stored, before>>
      /\ \A q \in Requests : pc'[q] \in {"idle", "done"} /\ (pc[q] = "done" => pc'[q] = "done")
      /\ \A q \in Requests : pc[q] = "fallback" => pc'[q] = "done"
  BY DEF Crash, ReadsInv, TypeOK
<1>2. \A i \in Ids : ver[i] <= ver'[i] /\ ver'[i] \in Nat
  BY <1>1, ReadsConstants DEF ReadsInv, TypeOK
<1>3. NewerOK' /\ \A r \in failed' : pc'[r] \in {"fallback", "done"}
  BY <1>1 DEF NewerOK, ForwardInv, PastOK, ReadsInv, TypeOK
<1>4. /\ \A q \in Requests : pc[q] # "done" => resp'[q] = 0
      /\ \A r \in Requests : before'[r] \subseteq {q \in Requests : pc[q] = "done"}
  BY <1>1 DEF ForwardInv, PastOK, ReadsInv, TypeOK, OpenOK
<1> QED  BY <1>1, <1>2, <1>3, <1>4, QuietForward

LEMMA ForwardStart ==
  ASSUME Init
  PROVE  ForwardInv
BY DEF Init, ForwardInv, PastOK, NewerOK, CacheOK, FromDatabase, SummariesGoForward

LEMMA ForwardStep ==
  ASSUME ReadsInv, ForwardInv, [Next]_vars
  PROVE  ForwardInv'
<1>1. ASSUME NEW r \in Requests, Begin(r) \/ Database(r) \/ Redis(r) \/ DatabaseFails(r)
      PROVE  ForwardInv'
  BY <1>1, BeginForward, DatabaseForward, RedisForward, FailForward DEF DatabaseFails
<1>2. ASSUME NEW r \in Requests, Raise(r)
      PROVE  ForwardInv'
  BY <1>2, AnswerForward DEF Raise
<1>3. ASSUME NEW id \in Ids, Write(id) \/ Delete(id) \/ Evict(id)
      PROVE  ForwardInv'
  BY <1>3, TableForward
<1>4. CASE UNCHANGED vars
  BY <1>4 DEF vars, ForwardInv, PastOK, NewerOK, CacheOK, Overtaken, FromDatabase, SummariesGoForward
<1> QED  BY <1>1, <1>2, <1>3, <1>4, CrashForward DEF Next, Finished

\* A summary from Redis is older than one the database answered before only where Redis
\* did not take that one, or a request that overlapped it stored its own after it.
THEOREM SummariesAreForward == Spec => []SummariesGoForward
<1>1. Init => ForwardInv
  BY ForwardStart
<1>2. ReadsInv /\ ForwardInv /\ [Next]_vars => ForwardInv'
  BY ForwardStep
<1>3. ForwardInv => SummariesGoForward
  BY DEF ForwardInv
<1> QED  BY <1>1, <1>2, <1>3, ReadsInvariant, PTL DEF Spec
=============================================================================
