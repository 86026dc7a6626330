----------------------------- MODULE QueriesProofs -----------------------------
(***************************************************************************)
(* Proofs about Queries, for any number of users, days and domains: what   *)
(* created-per-day has said of a day is never taken back, a short page is  *)
(* the last, the counts, the days and the domains of separate routes       *)
(* agree, and no route with a literal path is hidden.  The sums need an    *)
(* induction over the arguments of a function; it is done by a least       *)
(* counterexample (LeastOf).                                               *)
(***************************************************************************)
EXTENDS Queries, FiniteSetTheorems, SequenceTheorems, WellFoundedInduction, TLAPS

\* The table is well formed.
RowsOK == row \in [Users -> Rows \cup {None}] /\ now \in Nat

\* The first statement of a page and its total has been asked.
Paged == req # None /\ req.path \in {"users", "recent-users"}

\* Of the users there were when a short page was read, no more are left than it ends at.
ShortOK ==
  /\ newer \subseteq Users
  /\ Paged => /\ req.page \subseteq Users /\ req.skip \in Nat
              /\ Cardinality(req.page) < req.limit
                   => Cardinality(Live \ newer) <= req.skip + Cardinality(req.page)

-----------------------------------------------------------------------------
\* What every write to the table leaves of it.
Kept == \A u \in Users : row[u] # None => row'[u] # None /\ row'[u].created = row[u].created

\* A write of a row leaves the table well formed.
LEMMA WrittenTyped ==
  ASSUME RowsOK, NEW u \in Users, NEW r \in Rows, Written(u, r)
  PROVE  RowsOK' /\ row' = [row EXCEPT ![u] = r] /\ row'[u] = r
BY DEF RowsOK, Written

\* Every commit is such a write, and keeps who has a row and since when.
LEMMA WriteKeeps ==
  ASSUME RowsOK, NEW u \in Users, Create(u) \/ Update(u) \/ Delete(u)
  PROVE  RowsOK' /\ Kept
<1>1. CASE Create(u)
  <2>1. PICK e \in EmailsOf[u], d \in EmailsOf[u] :
          Written(u, [email |-> e, domain |-> d, active |-> TRUE, deleted |-> FALSE, created |-> now])
    BY <1>1 DEF Create
  <2>2. e \in Domains /\ d \in Domains
    BY QueriesConstants
  <2>3. [email |-> e, domain |-> d, active |-> TRUE, deleted |-> FALSE, created |-> now] \in Rows
    BY <2>2 DEF RowsOK, Rows
  <2>4. row[u] = None
    BY <1>1 DEF Create
  <2> QED  BY <2>1, <2>3, <2>4, WrittenTyped DEF Kept, RowsOK
<1>2. CASE Update(u)
  <2>1. PICK e \in EmailsOf[u], a \in BOOLEAN : Written(u, [row[u] EXCEPT !.email = e, !.active = a])
    BY <1>2 DEF Update
  <2>2. e \in Domains
    BY QueriesConstants
  <2>3. row[u] \in Rows
    BY <1>2 DEF Update, Live, Made, RowsOK
  <2> DEFINE new == [row[u] EXCEPT !.email = e, !.active = a]
  <2>4. new \in Rows /\ new.created = row[u].created
    BY <2>2, <2>3 DEF Rows
  <2>5. Written(u, new)
    BY <2>1
  <2> HIDE DEF new
  <2>6. RowsOK' /\ row' = [row EXCEPT ![u] = new] /\ row'[u] = new
    BY <2>4, <2>5, WrittenTyped
  <2> QED  BY <2>4, <2>6, NoneIsNoRow DEF Kept, RowsOK
<1>3. CASE Delete(u)
  <2> DEFINE new == [row[u] EXCEPT !.deleted = TRUE]
  <2>1. row[u] \in Rows /\ Written(u, new)
    BY <1>3 DEF Delete, Live, Made, RowsOK
  <2>2. new \in Rows /\ new.created = row[u].created
    BY <2>1 DEF Rows
  <2> HIDE DEF new
  <2>3. RowsOK' /\ row' = [row EXCEPT ![u] = new] /\ row'[u] = new
    BY <2>1, <2>2, WrittenTyped
  <2> QED  BY <2>2, <2>3, NoneIsNoRow DEF Kept, RowsOK
<1> QED  BY <1>1, <1>2, <1>3

\* The table is well formed when it is empty.
LEMMA RowsStart ==
  ASSUME Init
  PROVE  RowsOK
BY QueriesConstants DEF Init, RowsOK

\* And every step leaves it so.
LEMMA RowsStep ==
  ASSUME RowsOK, [Next]_vars
  PROVE  RowsOK' /\ Kept
<1>1. ASSUME UNCHANGED row, now' \in {now, now + 1}
      PROVE  RowsOK' /\ Kept
  BY <1>1 DEF RowsOK, Kept
<1>2. CASE Tick
  BY <1>1, <1>2 DEF Tick
<1>3. CASE RefuseWrite \/ RefuseRead \/ AnswerOne \/ TakeDate \/ AnswerDate \/ ReadPage \/ Total \/ Fail
  <2>1. UNCHANGED <<row, now>>
    BY <1>3 DEF RefuseWrite, RefuseRead, AnswerOne, TakeDate, AnswerDate, ReadPage, Total, Fail,
                Answer, Await
  <2> QED  BY <1>1, <2>1
<1>4. CASE UNCHANGED vars
  BY <1>1, <1>4 DEF vars
<1> QED  BY <1>2, <1>3, <1>4, WriteKeeps DEF Next

-----------------------------------------------------------------------------
\* Who was made on a day is counted for it ever after.
LEMMA DaysKeepTheirUsers ==
  ASSUME Kept, NEW day
  PROVE  get_created_per_day(<<day>>)[1]' >= get_created_per_day(<<day>>)[1]
<1> DEFINE then == {u \in Made : InDay(u, day)}
           next == {u \in Made' : InDay(u, day)'}
<1>1. then \subseteq next
  BY DEF Kept, Made, InDay, Midnight
<1>2. IsFiniteSet(then) /\ IsFiniteSet(next)
  BY QueriesConstants, FS_Subset DEF Made
<1>3. Cardinality(then) <= Cardinality(next) /\ Cardinality(then) \in Nat /\ Cardinality(next) \in Nat
  BY <1>1, <1>2, FS_Subset, FS_CardinalityType
<1>4. get_created_per_day(<<day>>)[1] = Cardinality(then)
  BY DEF get_created_per_day
<1>5. get_created_per_day(<<day>>)[1]' = Cardinality(next)
  BY DEF get_created_per_day
<1> QED  BY <1>3, <1>4, <1>5

\* A deleted user keeps its place in the count of the day it was created on, however
\* it was changed before.
THEOREM DaysNeverShrink == Spec => PerDayNeverShrinks
<1> DEFINE Grows == \A day \in 0..Day(LastInstant) :
                      get_created_per_day(<<day>>)[1]' >= get_created_per_day(<<day>>)[1]
<1>1. Init => RowsOK
  BY RowsStart
<1>2. RowsOK /\ [Next]_vars => RowsOK'
  BY RowsStep
<1>3. RowsOK /\ [Next]_vars => [Grows]_row
  BY RowsStep, DaysKeepTheirUsers
<1> QED  BY <1>1, <1>2, <1>3, PTL DEF Spec, PerDayNeverShrinks

-----------------------------------------------------------------------------
\* The table is finite.
LEMMA UsersFinite ==
  ASSUME RowsOK
  PROVE  /\ IsFiniteSet(Made) /\ IsFiniteSet(Live) /\ Live \subseteq Made
         /\ Cardinality(Live) \in Nat
BY QueriesConstants, FS_Subset, FS_CardinalityType DEF Made, Live

\* A page is of users of the table, and a short one leaves no live user behind its end.
LEMMA PagesEnd ==
  ASSUME RowsOK, NEW skip \in Nat, NEW limit \in Nat, NEW page,
         page \in get_users(skip, limit), Cardinality(page) < limit
  PROVE  Cardinality(Live) <= skip + Cardinality(page)
<1> DEFINE size == IF limit < Rest(skip) THEN limit ELSE Rest(skip)
<1>1. Cardinality(page) = size
  BY DEF get_users, kSubset
<1>2. Cardinality(Live) \in Nat
  BY UsersFinite
<1> QED  BY <1>1, <1>2 DEF Rest, count_users

\* So is one of the recent users: it holds every row.
LEMMA RecentEnd ==
  ASSUME RowsOK, NEW limit \in Nat, NEW page,
         page \in get_recent_users(limit), Cardinality(page) < limit
  PROVE  Cardinality(Live) <= Cardinality(page)
<1>1. Cardinality(page) = IF limit < Cardinality(Made) THEN limit ELSE Cardinality(Made)
  BY DEF get_recent_users
<1>2. Cardinality(Made) \in Nat /\ Cardinality(Live) <= Cardinality(Made)
  BY UsersFinite, FS_Subset, FS_CardinalityType
<1>3. Cardinality(page) = Cardinality(Made)
  BY <1>1, <1>2
<1> QED  BY <1>2, <1>3

\* Of the live users, those that are not in a set are no more than all of them.
LEMMA WithoutIsFewer ==
  ASSUME NEW S, IsFiniteSet(S), NEW T \in SUBSET S
  PROVE  Cardinality(T) <= Cardinality(S) /\ Cardinality(T) \in Nat /\ Cardinality(S) \in Nat
BY FS_Subset, FS_CardinalityType

\* The first statement leaves it so.
LEMMA ReadPageShort ==
  ASSUME RowsOK, ShortOK, ReadPage
  PROVE  ShortOK'
<1>1. PICK l \in Limits :
        \/ \E skip \in Skips :
             /\ Begin("users", validate_limit(l)) /\ skip >= 0
             /\ \E page \in get_users(skip, l) :
                  Await([path |-> "users", skip |-> skip, limit |-> l, page |-> page])
        \/ /\ Begin("recent-users", validate_limit(l))
           /\ \E page \in get_recent_users(l) :
                Await([path |-> "recent-users", skip |-> 0, limit |-> l, page |-> page])
  BY DEF ReadPage
<1>2. l \in Nat
  <2>1. l \in 1..MAX_LIMIT
    BY <1>1 DEF Begin, validate_limit
  <2> QED  BY <2>1, QueriesConstants
<1>3. PICK skip \in Nat, page \in SUBSET Users, path \in {"users", "recent-users"} :
        /\ Await([path |-> path, skip |-> skip, limit |-> l, page |-> page])
        /\ Cardinality(page) < l => Cardinality(Live) <= skip + Cardinality(page)
  <2>1. CASE \E skip \in Skips :
               /\ skip >= 0
               /\ \E page \in get_users(skip, l) :
                    Await([path |-> "users", skip |-> skip, limit |-> l, page |-> page])
    <3>1. PICK skip \in Skips :
            /\ skip >= 0
            /\ \E page \in get_users(skip, l) :
                 Await([path |-> "users", skip |-> skip, limit |-> l, page |-> page])
      BY <2>1
    <3>2. skip \in Nat
      BY <3>1, QueriesConstants
    <3>3. PICK page \in get_users(skip, l) :
            Await([path |-> "users", skip |-> skip, limit |-> l, page |-> page])
      BY <3>1
    <3>4. page \in SUBSET Users
      BY <3>3, UsersFinite DEF get_users, kSubset, Live, Made
    <3>5. Cardinality(page) < l => Cardinality(Live) <= skip + Cardinality(page)
      BY <1>2, <3>2, <3>3, PagesEnd
    <3> QED  BY <3>2, <3>3, <3>4, <3>5
  <2>2. CASE \E page \in get_recent_users(l) :
               Await([path |-> "recent-users", skip |-> 0, limit |-> l, page |-> page])
    <3>1. PICK page \in get_recent_users(l) :
            Await([path |-> "recent-users", skip |-> 0, limit |-> l, page |-> page])
      BY <2>2
    <3>2. page \in SUBSET Made /\ page \in SUBSET Users
      BY <3>1 DEF get_recent_users, Made
    <3>3. Cardinality(page) \in Nat
      BY <3>2, UsersFinite, WithoutIsFewer
    <3>4. Cardinality(page) < l => Cardinality(Live) <= 0 + Cardinality(page)
      BY <1>2, <3>1, <3>3, RecentEnd
    <3> QED  BY <3>1, <3>2, <3>4
  <2> QED  BY <1>1, <2>1, <2>2
<1>4. /\ Live' = Live /\ newer' = newer
      /\ req' = [path |-> path, skip |-> skip, limit |-> l, page |-> page]
  BY <1>3 DEF Await, Live, IsLive, Made
<1>5. Cardinality(Live \ newer) <= Cardinality(Live) /\ Cardinality(Live \ newer) \in Nat
      /\ Cardinality(Live) \in Nat
  BY UsersFinite, WithoutIsFewer
<1>6. Cardinality(page) \in Nat
  <2>1. IsFiniteSet(Users)
    BY QueriesConstants
  <2> QED  BY <1>3, <2>1, WithoutIsFewer
<1>7. req'.page = page /\ req'.skip = skip /\ req'.limit = l
  BY <1>4
<1>8. Cardinality(page) < l => Cardinality(Live \ newer) <= skip + Cardinality(page)
  BY <1>3, <1>5, <1>6
<1> QED  BY <1>3, <1>4, <1>7, <1>8 DEF ShortOK

\* A commit brings no user back, and one it creates meanwhile is new.
LEMMA WriteShort ==
  ASSUME RowsOK, ShortOK, NEW u \in Users, Create(u) \/ Update(u) \/ Delete(u)
  PROVE  ShortOK'
<1>1. PICK r \in Rows :
        Written(u, r) /\ (row[u] = None \/ (row[u] # None /\ r.deleted = FALSE => IsLive(u)))
  <2>1. CASE Create(u)
    <3>1. PICK e \in EmailsOf[u], d \in EmailsOf[u] :
            Written(u, [email |-> e, domain |-> d, active |-> TRUE, deleted |-> FALSE, created |-> now])
      BY <2>1 DEF Create
    <3>2. e \in Domains /\ d \in Domains
      BY QueriesConstants
    <3>3. [email |-> e, domain |-> d, active |-> TRUE, deleted |-> FALSE, created |-> now] \in Rows
      BY <3>2 DEF RowsOK, Rows
    <3> QED  BY <2>1, <3>1, <3>3 DEF Create
  <2>2. CASE Update(u)
    <3>1. PICK e \in EmailsOf[u], a \in BOOLEAN : Written(u, [row[u] EXCEPT !.email = e, !.active = a])
      BY <2>2 DEF Update
    <3>2. e \in Domains /\ row[u] \in Rows /\ u \in Live
      BY QueriesConstants, <2>2 DEF Update, Live, Made, RowsOK
    <3>3. [row[u] EXCEPT !.email = e, !.active = a] \in Rows
      BY <3>2 DEF Rows
    <3>4. IsLive(u)
      BY <3>2 DEF Live
    <3> QED  BY <3>1, <3>3, <3>4
  <2>3. CASE Delete(u)
    <3>1. row[u] \in Rows /\ Written(u, [row[u] EXCEPT !.deleted = TRUE]) /\ IsLive(u)
      BY <2>3 DEF Delete, Live, Made, RowsOK
    <3>2. [row[u] EXCEPT !.deleted = TRUE] \in Rows
      BY <3>1 DEF Rows
    <3> QED  BY <3>1, <3>2
  <2> QED  BY <2>1, <2>2, <2>3
<1>2. row' = [row EXCEPT ![u] = r] /\ row' \in [Users -> Rows \cup {None}] /\ row'[u] = r /\ req' = req
  BY <1>1, WrittenTyped DEF Written, RowsOK
<1>3. newer' = IF row[u] = None /\ req # None THEN newer \cup {u} ELSE newer
  BY <1>1 DEF Written
<1>4. newer' \subseteq Users
  BY <1>3 DEF ShortOK
<1>5. ASSUME Paged, Cardinality(req.page) < req.limit
      PROVE  Cardinality(Live' \ newer') <= req.skip + Cardinality(req.page)
  <2>1. Live' \ newer' \subseteq Live \ newer
    <3> SUFFICES ASSUME NEW v \in Live', v \notin newer'
                 PROVE  v \in Live /\ v \notin newer
      OBVIOUS
    <3>1. v \in Users /\ row'[v] # None /\ ~row'[v].deleted
      BY DEF Live, Made, IsLive
    <3>2. CASE v # u
      <4>1. row'[v] = row[v]
        BY <1>2, <3>1, <3>2 DEF RowsOK
      <4> QED  BY <1>3, <3>1, <4>1 DEF Live, Made, IsLive
    <3>3. CASE v = u
      <4>1. row[u] # None
        BY <1>3, <1>5, <3>3 DEF Paged
      <4>2. r.deleted = FALSE
        BY <1>2, <3>1, <3>3 DEF Rows
      <4> QED  BY <1>1, <1>3, <3>3, <4>1, <4>2 DEF Live, Made
    <3> QED  BY <3>2, <3>3
  <2>2. IsFiniteSet(Live \ newer)
    BY UsersFinite, FS_Subset
  <2>3. /\ Cardinality(Live' \ newer') <= Cardinality(Live \ newer)
        /\ Cardinality(Live' \ newer') \in Nat /\ Cardinality(Live \ newer) \in Nat
    BY <2>1, <2>2, WithoutIsFewer
  <2>4. Cardinality(req.page) \in Nat /\ req.skip \in Nat
    BY <1>5, QueriesConstants, WithoutIsFewer DEF ShortOK
  <2> QED  BY <1>5, <2>3, <2>4 DEF ShortOK
<1> QED  BY <1>2, <1>4, <1>5 DEF ShortOK, Paged

\* Every step leaves it so: an answer ends the read.
LEMMA ShortStep ==
  ASSUME RowsOK, ShortOK, [Next]_vars
  PROVE  ShortOK'
<1>1. ASSUME UNCHANGED row, \/ newer' = newer /\ req' = req
                            \/ newer' \in {newer, {}} /\ ~Paged'
      PROVE  ShortOK'
  BY <1>1 DEF ShortOK, Paged, Live, IsLive, Made
<1>2. CASE Tick \/ UNCHANGED vars
  BY <1>1, <1>2 DEF Tick, vars
<1>3. ASSUME NEW status, NEW body, Answer(status, body)
      PROVE  ShortOK'
  BY <1>1, <1>3 DEF Answer, Paged
<1>4. CASE RefuseWrite \/ RefuseRead \/ AnswerOne \/ AnswerDate \/ Total \/ Fail
  BY <1>3, <1>4 DEF RefuseWrite, RefuseRead, AnswerOne, AnswerDate, Total, Fail
<1>5. CASE TakeDate
  <2>1. PICK path \in {"count-today", "created-per-day"} : Await([path |-> path, today |-> Today])
    BY <1>5 DEF TakeDate
  <2>2. UNCHANGED <<row, newer>> /\ req' = [path |-> path, today |-> Today]
    BY <2>1 DEF Await
  <2>3. req'.path = path
    BY <2>2
  <2> QED  BY <1>1, <2>2, <2>3 DEF Paged
<1> QED  BY <1>2, <1>4, <1>5, WriteShort, ReadPageShort DEF Next

\* A short page of the list or of the recent users is the last: its total counts beyond
\* it only what was created between their two statements.
THEOREM ShortPagesAreLast == Spec => ShortPageIsLast
<1> DEFINE Ends == req # None /\ req.path \in {"users", "recent-users"} /\ req' = None
                     /\ ans'.status = 200 /\ Cardinality(req.page) < req.limit
                   => ans'.body.total <= req.skip + Cardinality(ans'.body.page) + Cardinality(newer)
<1>1. Init => RowsOK /\ ShortOK
  BY RowsStart DEF Init, ShortOK, Paged
<1>2. RowsOK /\ ShortOK /\ [Next]_vars => (RowsOK /\ ShortOK)'
  BY RowsStep, ShortStep
<1>3. RowsOK /\ ShortOK /\ [Next]_vars => [Ends]_vars
  <2> SUFFICES ASSUME RowsOK, ShortOK, Next, Paged, req' = None, ans'.status = 200,
                      Cardinality(req.page) < req.limit
               PROVE  ans'.body.total <= req.skip + Cardinality(ans'.body.page) + Cardinality(newer)
    BY DEF Paged
  <2>1. ~Tick /\ \A u \in Users : ~Create(u) /\ ~Update(u) /\ ~Delete(u)
    BY DEF Tick, Create, Update, Delete, Written, Paged
  <2>2. ~RefuseWrite /\ ~RefuseRead /\ ~AnswerOne /\ ~TakeDate /\ ~ReadPage
    BY DEF RefuseWrite, RefuseRead, AnswerOne, TakeDate, ReadPage, Begin, Paged
  <2>3. ~AnswerDate
    BY DEF AnswerDate, Paged
  <2>4. ~Fail
    <3>1. \A status, body : Answer(status, body) => ans'.status = status
      BY DEF Answer
    <3> QED  BY <3>1 DEF Fail, Begin, Paged
  <2>5. Total
    BY <2>1, <2>2, <2>3, <2>4 DEF Next
  <2>6. ans' = [status |-> 200, body |-> [page |-> req.page, total |-> count_users]]
    BY <2>5 DEF Total, Answer
  <2>7. ans'.body.total = Cardinality(Live) /\ ans'.body.page = req.page
    BY <2>6 DEF count_users
  <2>8. Cardinality(Live) <= Cardinality(Live \ newer) + Cardinality(newer)
        /\ Cardinality(Live \ newer) \in Nat /\ Cardinality(newer) \in Nat /\ Cardinality(Live) \in Nat
    <3>1. IsFiniteSet(newer) /\ IsFiniteSet(Live) /\ newer \cap Live \in SUBSET newer
          /\ IsFiniteSet(Live \ newer)
      BY QueriesConstants, FS_Subset, UsersFinite DEF ShortOK
    <3>2. Cardinality(Live \cap newer) <= Cardinality(newer) /\ Cardinality(Live \cap newer) \in Nat
          /\ Cardinality(newer) \in Nat /\ Cardinality(Live \ newer) \in Nat /\ Cardinality(Live) \in Nat
      BY <3>1, WithoutIsFewer, FS_CardinalityType
    <3>3. Cardinality(Live \ newer) = Cardinality(Live) - Cardinality(Live \cap newer)
      BY <3>1, FS_Difference
    <3> QED  BY <3>2, <3>3
  <2>9. Cardinality(req.page) \in Nat /\ req.skip \in Nat
    BY QueriesConstants, WithoutIsFewer DEF ShortOK
  <2>10. Cardinality(Live \ newer) <= req.skip + Cardinality(req.page)
    BY DEF ShortOK
  <2> HIDE DEF Paged
  <2> QED  BY <2>7, <2>8, <2>9, <2>10
<1> QED  BY <1>1, <1>2, <1>3, PTL DEF Spec, ShortPageIsLast

-----------------------------------------------------------------------------
\* The sum of a function, as the fold of the library computes it.
SumsOn(f, S, sum) ==
  sum = [s \in S |-> IF s = {} THEN 0 ELSE LET i == CHOOSE x \in s : TRUE IN f[i] + sum[s \ {i}]]
SumsOf(f, sum) == SumsOn(f, SUBSET DOMAIN f, sum)

\* Of naturals, what has a member has a least one: induction without a parameter.
LEMMA LeastOf ==
  ASSUME NEW bad, bad \subseteq Nat, bad # {}
  PROVE  \E n \in bad : \A m \in Nat : m < n => m \notin bad
<1>1. IsWellFoundedOn(OpToRel(<, Nat), Nat)
  BY NatLessThanWellFounded
<1>2. PICK n \in bad : \A m \in bad : ~(<<m, n>> \in OpToRel(<, Nat))
  BY <1>1, WFMin
<1> QED  BY <1>2 DEF OpToRel

\* On sets of up to n arguments there are such sums, for every n.
LEMMA SumsUpTo ==
  ASSUME NEW f, IsFiniteSet(DOMAIN f), NEW n \in Nat
  PROVE  \E sum : SumsOn(f, {t \in SUBSET DOMAIN f : Cardinality(t) <= n}, sum)
<1> DEFINE Small(m) == {t \in SUBSET DOMAIN f : Cardinality(t) <= m}
           First(s)  == CHOOSE x \in s : TRUE
           Body(sum, m) == [s \in Small(m) |-> IF s = {} THEN 0 ELSE f[First(s)] + sum[s \ {First(s)}]]
           bad == {m \in Nat : ~\E sum : sum = Body(sum, m)}
<1>1. \A s \in SUBSET DOMAIN f : /\ IsFiniteSet(s) /\ Cardinality(s) \in Nat
                                 /\ Cardinality(s) = 0 <=> s = {}
                                 /\ s # {} => First(s) \in s
  BY FS_Subset, FS_CardinalityType, FS_EmptySet
<1>2. \A s \in SUBSET DOMAIN f : s # {} => Cardinality(s \ {First(s)}) = Cardinality(s) - 1
  BY <1>1, FS_RemoveElement
<1>3. 0 \notin bad
  <2>1. Small(0) = {{}}
    BY <1>1
  <2>2. [s \in Small(0) |-> 0] = Body([s \in Small(0) |-> 0], 0)
    BY <2>1
  <2> QED  BY <2>2
<1>4. ASSUME NEW m \in Nat, m \notin bad
      PROVE  m + 1 \notin bad
  <2>1. PICK sum : sum = Body(sum, m)
    BY <1>4
  <2> DEFINE next == Body(sum, m + 1)
  <2>2. \A s \in Small(m) : next[s] = sum[s]
    <3>1. \A s \in Small(m) : s \in Small(m + 1)
      BY <1>1
    <3>2. \A s \in Small(m) : sum[s] = IF s = {} THEN 0 ELSE f[First(s)] + sum[s \ {First(s)}]
      BY <2>1
    <3> QED  BY <3>1, <3>2
  <2>3. \A s \in Small(m + 1) : s # {} => s \ {First(s)} \in Small(m)
    BY <1>1, <1>2
  <2>4. \A s \in Small(m + 1) :
          (IF s = {} THEN 0 ELSE f[First(s)] + sum[s \ {First(s)}])
            = (IF s = {} THEN 0 ELSE f[First(s)] + next[s \ {First(s)}])
    <3> HIDE DEF next, Small, First
    <3> QED  BY <2>2, <2>3
  <2>5. next = Body(next, m + 1)
    <3> DEFINE again == Body(next, m + 1)
    <3>1. \A s \in Small(m + 1) : next[s] = again[s]
      <4> HIDE DEF Small, First
      <4>1. \A s \in Small(m + 1) :
              again[s] = IF s = {} THEN 0 ELSE f[First(s)] + next[s \ {First(s)}]
        <5> HIDE DEF next
        <5> QED  OBVIOUS
      <4>2. \A s \in Small(m + 1) :
              next[s] = IF s = {} THEN 0 ELSE f[First(s)] + sum[s \ {First(s)}]
        OBVIOUS
      <4> HIDE DEF next, again
      <4> QED  BY <2>4, <4>1, <4>2
    <3>2. next = [s \in Small(m + 1) |-> next[s]]
      OBVIOUS
    <3>3. again = [s \in Small(m + 1) |-> again[s]]
      <4> HIDE DEF next
      <4> QED  OBVIOUS
    <3>4. next = again
      <4> HIDE DEF next, again
      <4>1. [s \in Small(m + 1) |-> next[s]] = [s \in Small(m + 1) |-> again[s]]
        BY <3>1
      <4> QED  BY <3>2, <3>3, <4>1
    <3> HIDE DEF next
    <3> QED  BY <3>4
  <2> QED  BY <2>5
<1>5. bad = {}
  <2> SUFFICES ASSUME bad # {}
               PROVE  FALSE
    OBVIOUS
  <2>1. PICK m \in bad : \A k \in Nat : k < m => k \notin bad
    <3>1. bad \subseteq Nat
      OBVIOUS
    <3> HIDE DEF bad
    <3> QED  BY <3>1, LeastOf
  <2>2. m # 0 /\ m \in Nat
    BY <1>3, <2>1
  <2> HIDE DEF bad
  <2>3. m - 1 \in Nat /\ m - 1 < m /\ (m - 1) + 1 = m
    BY <2>2
  <2>4. m - 1 \notin bad
    BY <2>1, <2>3
  <2>5. (m - 1) + 1 \notin bad
    BY <1>4, <2>3, <2>4
  <2> QED  BY <2>1, <2>3, <2>5
<1> QED  BY <1>5 DEF SumsOn

\* The sums of f on the sets of its arguments, and on all of them.
Sums(f)  == CHOOSE sum : SumsOf(f, sum)
SumOf(f) == Sums(f)[DOMAIN f]

\* With as many arguments as f has, the sums that the fold chooses are such sums.
LEMMA SumsAre ==
  ASSUME NEW f, IsFiniteSet(DOMAIN f)
  PROVE  SumsOf(f, Sums(f))
<1> DEFINE n == Cardinality(DOMAIN f)
<1>1. n \in Nat
  BY FS_CardinalityType
<1>2. {t \in SUBSET DOMAIN f : Cardinality(t) <= n} = SUBSET DOMAIN f
  <2>1. \A t \in SUBSET DOMAIN f : Cardinality(t) <= n
    BY FS_Subset
  <2> QED  BY <2>1
<1>3. \E sum : SumsOf(f, sum)
  <2> HIDE DEF n
  <2>1. \E sum : SumsOn(f, {t \in SUBSET DOMAIN f : Cardinality(t) <= n}, sum)
    BY <1>1, SumsUpTo
  <2> QED  BY <1>2, <2>1 DEF SumsOf
<1> QED  BY <1>3 DEF Sums

\* The cardinalities of sets without a common member add up to that of their union.
LEMMA CountsAddUp ==
  ASSUME NEW f, IsFiniteSet(DOMAIN f), NEW C,
         \A i \in DOMAIN f : IsFiniteSet(C[i]) /\ f[i] = Cardinality(C[i]),
         \A i, j \in DOMAIN f : i # j => C[i] \cap C[j] = {}
  PROVE  SumOf(f) = Cardinality(UNION {C[i] : i \in DOMAIN f})
<1> DEFINE First(s) == CHOOSE x \in s : TRUE
           All(s)   == UNION {C[i] : i \in s}
           Right(s) == IsFiniteSet(All(s)) /\ Sums(f)[s] = Cardinality(All(s))
           bad      == {n \in Nat : \E s \in SUBSET DOMAIN f : Cardinality(s) = n /\ ~Right(s)}
<1>1. \A s \in SUBSET DOMAIN f : /\ IsFiniteSet(s) /\ Cardinality(s) \in Nat
                                 /\ Cardinality(s) = 0 <=> s = {}
                                 /\ s # {} => First(s) \in s
  BY FS_Subset, FS_CardinalityType, FS_EmptySet
<1>2. \A s \in SUBSET DOMAIN f : s # {} => Cardinality(s \ {First(s)}) = Cardinality(s) - 1
  BY <1>1, FS_RemoveElement
<1>3. \A s \in SUBSET DOMAIN f :
        Sums(f)[s] = IF s = {} THEN 0 ELSE f[First(s)] + Sums(f)[s \ {First(s)}]
  <2> DEFINE sums == Sums(f)
  <2>1. sums = [s \in SUBSET DOMAIN f |->
                  IF s = {} THEN 0 ELSE LET i == CHOOSE x \in s : TRUE IN f[i] + sums[s \ {i}]]
    BY SumsAre DEF SumsOf, SumsOn
  <2> HIDE DEF sums
  <2>2. \A s \in SUBSET DOMAIN f :
          sums[s] = IF s = {} THEN 0 ELSE LET i == CHOOSE x \in s : TRUE IN f[i] + sums[s \ {i}]
    BY <2>1
  <2> QED  BY <2>2 DEF sums
<1>4. Right({})
  <2>1. All({}) = {} /\ Sums(f)[{}] = 0
    BY <1>3
  <2> QED  BY <2>1, FS_EmptySet
<1>5. ASSUME NEW s \in SUBSET DOMAIN f, s # {}, Right(s \ {First(s)})
      PROVE  Right(s)
  <2> DEFINE rest == s \ {First(s)}
  <2>1. First(s) \in s /\ rest \in SUBSET DOMAIN f
    BY <1>1, <1>5
  <2> HIDE DEF First
  <2>2. All(s) = C[First(s)] \cup All(rest) /\ C[First(s)] \cap All(rest) = {}
    BY <2>1
  <2>3. IsFiniteSet(C[First(s)]) /\ f[First(s)] = Cardinality(C[First(s)])
    BY <2>1
  <2> HIDE DEF All
  <2>4. /\ IsFiniteSet(All(s))
        /\ Cardinality(All(s)) = Cardinality(C[First(s)]) + Cardinality(All(rest))
    <3>1. IsFiniteSet(All(rest)) /\ Cardinality(C[First(s)] \cap All(rest)) = 0
      BY <1>5, <2>2, FS_EmptySet
    <3>2. Cardinality(C[First(s)]) \in Nat /\ Cardinality(All(rest)) \in Nat
      BY <2>3, <3>1, FS_CardinalityType
    <3>3. /\ IsFiniteSet(C[First(s)] \cup All(rest))
          /\ Cardinality(C[First(s)] \cup All(rest)) =
               Cardinality(C[First(s)]) + Cardinality(All(rest)) - Cardinality(C[First(s)] \cap All(rest))
      BY <2>3, <3>1, FS_Union
    <3> QED  BY <2>2, <3>1, <3>2, <3>3
  <2>5. Sums(f)[s] = f[First(s)] + Sums(f)[rest]
    BY <1>3, <1>5
  <2> QED  BY <1>5, <2>3, <2>4, <2>5
<1>6. bad = {}
  <2> SUFFICES ASSUME bad # {}
               PROVE  FALSE
    OBVIOUS
  <2>1. PICK n \in bad : \A m \in Nat : m < n => m \notin bad
    <3>1. bad \subseteq Nat
      OBVIOUS
    <3> HIDE DEF bad
    <3> QED  BY <3>1, LeastOf
  <2>2. PICK s \in SUBSET DOMAIN f : Cardinality(s) = n /\ ~Right(s)
    BY <2>1
  <2> HIDE DEF Right, First
  <2>3. s # {} /\ n \in Nat /\ s \ {First(s)} \in SUBSET DOMAIN f
    BY <1>4, <2>1, <2>2
  <2>4. Cardinality(s \ {First(s)}) = n - 1 /\ n - 1 \in Nat /\ n - 1 < n
    BY <1>1, <1>2, <2>2, <2>3
  <2>5. Right(s \ {First(s)})
    BY <2>1, <2>3, <2>4
  <2> QED  BY <1>5, <2>2, <2>3, <2>5
<1>7. Right(DOMAIN f)
  BY <1>1, <1>6
<1> QED  BY <1>7 DEF SumOf

-----------------------------------------------------------------------------
\* The two parts of a set add up to it.
LEMMA PartsAddUp ==
  ASSUME NEW S, IsFiniteSet(S), NEW A, NEW B, S = A \cup B, A \cap B = {}
  PROVE  Cardinality(S) = Cardinality(A) + Cardinality(B)
<1>1. IsFiniteSet(A) /\ IsFiniteSet(B)
  BY FS_Subset
<1>2. Cardinality(S) = Cardinality(A) + Cardinality(B) - Cardinality(A \cap B)
  BY <1>1, FS_Union
<1>3. Cardinality(A) \in Nat /\ Cardinality(B) \in Nat /\ Cardinality(A \cap B) = 0
  BY <1>1, FS_CardinalityType, FS_EmptySet
<1> QED  BY <1>2, <1>3

\* A user was made in a day when its instant is of that day (half-open in UTC).
LEMMA InDayIsDay ==
  ASSUME RowsOK, NEW u \in Made, NEW day \in Int
  PROVE  InDay(u, day) <=> Day(row[u].created) = day
<1>1. row[u].created \in Nat
  BY DEF RowsOK, Made, Rows
<1> QED  BY <1>1 DEF InDay, Day, Midnight

\* The window is that many days, none twice, and today is its last.
LEMMA WindowIs ==
  ASSUME RowsOK
  PROVE  /\ Today \in Int /\ WINDOW_DAYS \in Nat \ {0}
         /\ DOMAIN window(Today) = 1..WINDOW_DAYS /\ window(Today)[WINDOW_DAYS] = Today
         /\ \A i \in 1..WINDOW_DAYS : window(Today)[i] \in Int
         /\ \A i, j \in 1..WINDOW_DAYS : i # j => window(Today)[i] # window(Today)[j]
<1>1. Today \in Int /\ WINDOW_DAYS \in Nat \ {0}
  BY QueriesConstants DEF RowsOK, Today, Day
<1>2. /\ DOMAIN window(Today) = 1..WINDOW_DAYS
      /\ \A i \in 1..WINDOW_DAYS : window(Today)[i] = Today - WINDOW_DAYS + i
  BY DEF window
<1> HIDE DEF Today
<1> QED  BY <1>1, <1>2

\* What created-per-day says adds up to the users made in its days.
LEMMA DaysAddUp ==
  ASSUME RowsOK
  PROVE  LET days == window(Today)  counts == get_created_per_day(days) IN
           MapThenSumSet(LAMBDA i : counts[i], DOMAIN counts)
             = Cardinality({u \in Made : Day(row[u].created) \in ToSet(days)})
<1> DEFINE days == window(Today)
           counts == get_created_per_day(days)
           C == [i \in 1..WINDOW_DAYS |-> {u \in Made : InDay(u, days[i])}]
<1>1. /\ DOMAIN days = 1..WINDOW_DAYS /\ WINDOW_DAYS \in Nat
      /\ \A i \in 1..WINDOW_DAYS : days[i] \in Int
      /\ \A i, j \in 1..WINDOW_DAYS : i # j => days[i] # days[j]
  BY WindowIs
<1> HIDE DEF days
<1>2. /\ DOMAIN counts = 1..WINDOW_DAYS
      /\ \A i \in 1..WINDOW_DAYS : counts[i] = Cardinality(C[i])
  BY <1>1 DEF get_created_per_day
<1>3. \A i \in 1..WINDOW_DAYS : C[i] = {u \in Made : Day(row[u].created) = days[i]}
  BY <1>1, InDayIsDay
<1>4. ToSet(days) = {days[i] : i \in 1..WINDOW_DAYS}
  BY <1>1 DEF ToSet
<1> HIDE DEF counts, C
<1>5. \A i \in 1..WINDOW_DAYS : IsFiniteSet(C[i])
  BY <1>3, UsersFinite, FS_Subset
<1>6. \A i, j \in 1..WINDOW_DAYS : i # j => C[i] \cap C[j] = {}
  BY <1>1, <1>3
<1>7. UNION {C[i] : i \in 1..WINDOW_DAYS} = {u \in Made : Day(row[u].created) \in ToSet(days)}
  BY <1>3, <1>4
<1>8. IsFiniteSet(1..WINDOW_DAYS)
  BY <1>1, FS_Interval
<1>9. SumOf(counts) = Cardinality(UNION {C[i] : i \in 1..WINDOW_DAYS})
  <2>1. IsFiniteSet(DOMAIN counts)
    BY <1>2, <1>8
  <2>2. \A i \in DOMAIN counts : IsFiniteSet(C[i]) /\ counts[i] = Cardinality(C[i])
    BY <1>2, <1>5
  <2>3. \A i, j \in DOMAIN counts : i # j => C[i] \cap C[j] = {}
    BY <1>2, <1>6
  <2>4. SumOf(counts) = Cardinality(UNION {C[i] : i \in DOMAIN counts})
    BY <2>1, <2>2, <2>3, CountsAddUp
  <2> QED  BY <1>2, <2>4
<1>10. MapThenSumSet(LAMBDA i : counts[i], DOMAIN counts) = SumOf(counts)
  BY DEF MapThenSumSet, MapThenFoldSet, SumOf, Sums, SumsOf, SumsOn
<1>11. MapThenSumSet(LAMBDA i : counts[i], DOMAIN counts)
         = Cardinality({u \in Made : Day(row[u].created) \in ToSet(days)})
  BY <1>7, <1>9, <1>10
<1> QED  BY <1>11 DEF days, counts

\* Of a well-formed table the counts agree.
LEMMA CountsOf ==
  ASSUME RowsOK
  PROVE  CountsAgree
<1>1. get_active_user_counts.active + get_active_user_counts.inactive = count_users
  <2>1. Cardinality(Live) = Cardinality({u \in Live : row[u].active}) + Cardinality({u \in Live : ~row[u].active})
    BY UsersFinite, PartsAddUp
  <2> QED  BY <2>1 DEF get_active_user_counts, count_users
<1>2. LET days == window(Today)  counts == get_created_per_day(days) IN
        counts[WINDOW_DAYS] = count_users_today(Today)
                              + Cardinality({u \in Made \ Live : InDay(u, Today)})
  <2> DEFINE days == window(Today)
  <2>1. WINDOW_DAYS \in DOMAIN days /\ days[WINDOW_DAYS] = Today
    BY WindowIs
  <2> HIDE DEF days
  <2>5. get_created_per_day(days)[WINDOW_DAYS] = Cardinality({u \in Made : InDay(u, Today)})
    BY <2>1 DEF get_created_per_day
  <2>2. IsFiniteSet({u \in Made : InDay(u, Today)})
    BY UsersFinite, FS_Subset
  <2>3. Cardinality({u \in Made : InDay(u, Today)})
          = Cardinality({u \in Live : InDay(u, Today)}) + Cardinality({u \in Made \ Live : InDay(u, Today)})
    BY <2>2, UsersFinite, PartsAddUp
  <2> QED  BY <2>5, <2>3 DEF count_users_today, days
<1>3. ASSUME count_users <= SCAN_LIMIT
      PROVE  search("") = {{u \in Live : NameOf[u] # None}}
  <2>1. SCAN_LIMIT \in Nat /\ count_users \in Nat
    BY QueriesConstants, UsersFinite DEF count_users
  <2>2. (IF SCAN_LIMIT < Rest(0) THEN SCAN_LIMIT ELSE Rest(0)) = count_users
    BY <1>3, <2>1 DEF Rest
  <2>3. get_users(0, SCAN_LIMIT) = {s \in SUBSET Live : Cardinality(s) = count_users}
    BY <2>2 DEF get_users, kSubset
  <2>4. \A s \in SUBSET Live : Cardinality(s) = count_users <=> s = Live
    BY UsersFinite, FS_Subset DEF count_users
  <2>5. get_users(0, SCAN_LIMIT) = {Live}
    BY <2>3, <2>4
  <2>6. \A u : Hit(u, "") <=> NameOf[u] # None
    BY DEF Hit
  <2> QED  BY <2>5, <2>6 DEF search
<1> QED  BY <1>1, <1>2, <1>3, DaysAddUp DEF CountsAgree

\* Without a min_count the groups are those of the emails.
LEMMA GroupsAre ==
  LET groups == count_users_by_domain(None) IN
  /\ DOMAIN groups = {row[u].email : u \in Live}
  /\ \A d \in DOMAIN groups : groups[d] = Cardinality({u \in Live : row[u].email = d})
BY DEF count_users_by_domain, RestrictValues, Restrict

\* Of a well-formed table the domains agree.
LEMMA DomainsOf ==
  ASSUME RowsOK
  PROVE  DomainsAgree
<1> DEFINE groups == count_users_by_domain(None)
           emails == {row[u].email : u \in Live}
           C == [d \in emails |-> {u \in Live : row[u].email = d}]
<1>1. DOMAIN groups = emails /\ \A d \in emails : groups[d] = Cardinality(C[d])
  BY GroupsAre
<1> HIDE DEF groups
<1>2. IsFiniteSet(emails)
  <2>1. [u \in Live |-> row[u].email] \in Surjection(Live, emails)
    BY DEF Surjection
  <2> QED  BY <2>1, UsersFinite, FS_Surjection
<1>3. \A d \in emails : IsFiniteSet(C[d])
  BY UsersFinite, FS_Subset
<1>4. UNION {C[d] : d \in emails} = Live /\ \A c, d \in emails : c # d => C[c] \cap C[d] = {}
  <2>1. \A d \in emails : C[d] = {u \in Live : row[u].email = d}
    OBVIOUS
  <2>2. \A u \in Live : row[u].email \in emails
    OBVIOUS
  <2> HIDE DEF C, emails
  <2> QED  BY <2>1, <2>2
<1>5. emails \cap Usable = get_distinct_domains /\ \A u \in Live : row[u].email \in emails
  BY DEF get_distinct_domains, extract_domains
<1> HIDE DEF C, emails
<1>6. SumOf(groups) = Cardinality(UNION {C[d] : d \in emails})
  BY <1>1, <1>2, <1>3, <1>4, CountsAddUp
<1>7. MapThenSumSet(LAMBDA d : groups[d], DOMAIN groups) = SumOf(groups)
  BY DEF MapThenSumSet, MapThenFoldSet, SumOf, Sums, SumsOf, SumsOn
<1> QED  BY <1>1, <1>4, <1>5, <1>6, <1>7 DEF DomainsAgree, groups, count_users

-----------------------------------------------------------------------------
\* What three joined sequences have at each index.
LEMMA Joined ==
  ASSUME NEW S, NEW a \in Seq(S), NEW b \in Seq(S), NEW c \in Seq(S), NEW s, s = a \o b \o c
  PROVE  /\ DOMAIN s = 1..(Len(a) + Len(b) + Len(c))
         /\ \A i \in 1..Len(a) : s[i] = a[i]
         /\ \A i \in 1..Len(b) : s[Len(a) + i] = b[i]
         /\ \A i \in 1..Len(c) : s[Len(a) + Len(b) + i] = c[i]
OBVIOUS

\* A function on 1..n is a sequence.
LEMMA TuplesAreSequences ==
  ASSUME NEW S, NEW n \in Nat, NEW s \in [1..n -> S]
  PROVE  s \in Seq(S)
BY SeqDef, Zenon

\* The routes that main.py includes last.
Others == <<Get("recent-users"), Get("search")>>

\* The three lists of routes are sequences over one set.
LEMMA RoutesTyped ==
  \E All : AnalyticsRoutes \in Seq(All) /\ UsersRoutes \in Seq(All) /\ Others \in Seq(All)
<1> DEFINE All == {UsersRoutes[i] : i \in 1..13} \cup {AnalyticsRoutes[1], Others[1], Others[2]}
<1>1. UsersRoutes = [i \in 1..13 |-> UsersRoutes[i]]
  BY DEF UsersRoutes
<1>2. AnalyticsRoutes = [i \in 1..1 |-> AnalyticsRoutes[1]]
  BY DEF AnalyticsRoutes
<1>3. Others = [i \in 1..2 |-> Others[i]]
  BY DEF Others
<1>4. UsersRoutes \in [1..13 -> All]
  BY <1>1
<1>5. AnalyticsRoutes \in [1..1 -> All]
  BY <1>2
<1>6. Others \in [1..2 -> All]
  BY <1>3
<1> HIDE DEF All
<1>7. AnalyticsRoutes \in Seq(All) /\ UsersRoutes \in Seq(All) /\ Others \in Seq(All)
  BY <1>4, <1>5, <1>6, TuplesAreSequences
<1> QED  BY <1>7

\* So the route at an index is that of the list it falls in.
LEMMA RoutesAre ==
  /\ DOMAIN Routes = 1..16 /\ Routes[1] = AnalyticsRoutes[1]
  /\ \A i \in 1..13 : Routes[1 + i] = UsersRoutes[i]
  /\ \A i \in 1..2 : Routes[14 + i] = Others[i]
<1>1. PICK All : AnalyticsRoutes \in Seq(All) /\ UsersRoutes \in Seq(All) /\ Others \in Seq(All)
  BY RoutesTyped
<1>2. Routes = AnalyticsRoutes \o UsersRoutes \o Others
  BY DEF Routes, Others
<1>3. /\ DOMAIN Routes = 1..(Len(AnalyticsRoutes) + Len(UsersRoutes) + Len(Others))
      /\ \A i \in 1..Len(AnalyticsRoutes) : Routes[i] = AnalyticsRoutes[i]
      /\ \A i \in 1..Len(UsersRoutes) : Routes[Len(AnalyticsRoutes) + i] = UsersRoutes[i]
      /\ \A i \in 1..Len(Others) : Routes[Len(AnalyticsRoutes) + Len(UsersRoutes) + i] = Others[i]
  BY <1>1, <1>2, Joined
<1>4. Len(AnalyticsRoutes) = 1 /\ Len(UsersRoutes) = 13 /\ Len(Others) = 2
  BY DEF AnalyticsRoutes, UsersRoutes, Others
<1> QED  BY <1>3, <1>4

\* The routes of the users router, one by one.
LEMMA UsersRoutesAre ==
  /\ UsersRoutes[1] = Route({"POST"}, "users", "create") /\ UsersRoutes[2] = Get("users")
  /\ UsersRoutes[3] = Get("count") /\ UsersRoutes[4] = Get("count-today")
  /\ UsersRoutes[5] = Get("count-by-domain") /\ UsersRoutes[6] = Get("domains")
  /\ UsersRoutes[7] = Get("active-count")
  /\ UsersRoutes[8] = Route({"POST", "PUT", "PATCH", "DELETE"}, "active-count", "refuse")
  /\ UsersRoutes[9] = Get("by-email") /\ UsersRoutes[10] = Route({"GET"}, "user_id", "get")
  /\ UsersRoutes[11] = Route({"PUT"}, "user_id", "update")
  /\ UsersRoutes[12] = Route({"DELETE"}, "by-email", "delete_by_email")
  /\ UsersRoutes[13] = Route({"DELETE"}, "user_id", "delete")
BY DEF UsersRoutes

\* Route i is the one that a request takes which it is the first to match.
LEMMA FirstIsTaken ==
  ASSUME NEW i \in DOMAIN Routes, NEW m \in Routes[i].methods, m \in Methods,
         Routes[i].path \in Literals,
         \A j \in 1..(i - 1) : ~(PathMatches(j, Routes[i].path) /\ m \in Routes[j].methods)
  PROVE  HandlerOf[m][Routes[i].path] = Routes[i].handler
<1> DEFINE p == Routes[i].path
           full == {j \in DOMAIN Routes : PathMatches(j, p) /\ m \in Routes[j].methods}
<1>1. DOMAIN Routes = 1..16
  BY RoutesAre
<1>2. i \in full
  BY DEF PathMatches
<1>3. full \subseteq i..16
  <2> SUFFICES ASSUME NEW j \in 1..16, PathMatches(j, p), m \in Routes[j].methods
               PROVE  j >= i
    BY <1>1
  <2>1. j \notin 1..(i - 1)
    OBVIOUS
  <2> QED  BY <1>1, <2>1
<1>4. HandlerOf[m][p] = IF full = {} THEN "refuse" ELSE Routes[Min(full)].handler
  <2>1. m \in Methods /\ p \in Literals
    OBVIOUS
  <2> HIDE DEF p
  <2> QED  BY <2>1 DEF HandlerOf
<1> HIDE DEF full
<1>5. Min(full) = i
  BY <1>1, <1>2, <1>3 DEF Min
<1> QED  BY <1>2, <1>4, <1>5

\* The methods and the path of every route.
LEMMA RouteOf ==
  /\ Routes[1] = Get("created-per-day")
  /\ Routes[2] = Route({"POST"}, "users", "create") /\ Routes[3] = Get("users")
  /\ Routes[4] = Get("count") /\ Routes[5] = Get("count-today")
  /\ Routes[6] = Get("count-by-domain") /\ Routes[7] = Get("domains")
  /\ Routes[8] = Get("active-count")
  /\ Routes[9] = Route({"POST", "PUT", "PATCH", "DELETE"}, "active-count", "refuse")
  /\ Routes[10] = Get("by-email") /\ Routes[11] = Route({"GET"}, "user_id", "get")
  /\ Routes[12] = Route({"PUT"}, "user_id", "update")
  /\ Routes[13] = Route({"DELETE"}, "by-email", "delete_by_email")
  /\ Routes[14] = Route({"DELETE"}, "user_id", "delete")
  /\ Routes[15] = Get("recent-users") /\ Routes[16] = Get("search")
<1>1. /\ Routes[1] = AnalyticsRoutes[1] /\ AnalyticsRoutes[1] = Get("created-per-day")
      /\ Others[1] = Get("recent-users") /\ Others[2] = Get("search")
  BY RoutesAre DEF AnalyticsRoutes, Others
<1>2. \A i \in 1..13 : Routes[1 + i] = UsersRoutes[i]
  BY RoutesAre
<1>3. \A i \in 1..2 : Routes[14 + i] = Others[i]
  BY RoutesAre
<1> HIDE DEF Get, Route
<1>4. /\ Routes[1+1] = UsersRoutes[1] /\ Routes[1+2] = UsersRoutes[2] /\ Routes[1+3] = UsersRoutes[3]
      /\ Routes[1+4] = UsersRoutes[4] /\ Routes[1+5] = UsersRoutes[5] /\ Routes[1+6] = UsersRoutes[6]
      /\ Routes[1+7] = UsersRoutes[7] /\ Routes[1+8] = UsersRoutes[8] /\ Routes[1+9] = UsersRoutes[9]
      /\ Routes[1+10] = UsersRoutes[10] /\ Routes[1+11] = UsersRoutes[11]
      /\ Routes[1+12] = UsersRoutes[12] /\ Routes[1+13] = UsersRoutes[13]
      /\ Routes[14+1] = Others[1] /\ Routes[14+2] = Others[2]
  BY <1>2, <1>3
<1>5. /\ Routes[2] = UsersRoutes[1] /\ Routes[3] = UsersRoutes[2] /\ Routes[4] = UsersRoutes[3]
      /\ Routes[5] = UsersRoutes[4] /\ Routes[6] = UsersRoutes[5] /\ Routes[7] = UsersRoutes[6]
      /\ Routes[8] = UsersRoutes[7] /\ Routes[9] = UsersRoutes[8] /\ Routes[10] = UsersRoutes[9]
      /\ Routes[11] = UsersRoutes[10] /\ Routes[12] = UsersRoutes[11]
      /\ Routes[13] = UsersRoutes[12] /\ Routes[14] = UsersRoutes[13]
      /\ Routes[15] = Others[1] /\ Routes[16] = Others[2]
  BY <1>4
<1> QED  BY <1>1, <1>5, UsersRoutesAre, Zenon

\* What a route is made of.
LEMMA FieldsOf ==
  /\ \A m, p, h : Route(m, p, h).path = p /\ Route(m, p, h).methods = m
  /\ \A p : Get(p).path = p /\ Get(p).methods = {"GET"}
BY DEF Get, Route

\* The path of each route.
LEMMA PathsAre ==
  /\ Routes[1].path = "created-per-day" /\ Routes[2].path = "users" /\ Routes[3].path = "users"
  /\ Routes[4].path = "count" /\ Routes[5].path = "count-today"
  /\ Routes[6].path = "count-by-domain" /\ Routes[7].path = "domains"
  /\ Routes[8].path = "active-count" /\ Routes[9].path = "active-count"
  /\ Routes[10].path = "by-email" /\ Routes[11].path = "user_id" /\ Routes[12].path = "user_id"
  /\ Routes[13].path = "by-email" /\ Routes[14].path = "user_id"
  /\ Routes[15].path = "recent-users" /\ Routes[16].path = "search"
BY RouteOf, FieldsOf

\* The methods of each route.
LEMMA MethodsAre ==
  /\ Routes[1].methods = {"GET"} /\ Routes[2].methods = {"POST"}
  /\ \A i \in 3..8 : Routes[i].methods = {"GET"}
  /\ Routes[9].methods = {"POST", "PUT", "PATCH", "DELETE"}
  /\ Routes[10].methods = {"GET"} /\ Routes[11].methods = {"GET"}
  /\ Routes[12].methods = {"PUT"} /\ Routes[13].methods = {"DELETE"}
  /\ Routes[14].methods = {"DELETE"}
  /\ Routes[15].methods = {"GET"} /\ Routes[16].methods = {"GET"}
BY RouteOf, FieldsOf

\* No route before one with a literal path matches a request for it.
LEMMA LiteralsFirst ==
  ASSUME NEW i \in 1..16, NEW m \in Routes[i].methods, Routes[i].path # "user_id",
         NEW j \in 1..16, j < i, PathMatches(j, Routes[i].path), m \in Routes[j].methods
  PROVE  FALSE
<1>1. i \in {1, 2, 3, 4, 5, 6, 7, 8, 9, 10, 13, 15, 16}
  BY PathsAre
<1>2. CASE Routes[j].path = Routes[i].path
  <2>1. \/ j = 2 /\ i = 3
        \/ j = 8 /\ i = 9
        \/ j = 10 /\ i = 13
    BY <1>1, <1>2, PathsAre
  <2> QED  BY <2>1, MethodsAre
<1>3. CASE Routes[j].path = "user_id" /\ Routes[i].path \notin TopLevel
  <2>1. i = 13 /\ j \in {11, 12}
    <3>1. j > 10
      BY <1>3, PathsAre
    <3> QED  BY <1>1, <1>3, <3>1, PathsAre DEF TopLevel
  <2> QED  BY <2>1, MethodsAre
<1> QED  BY <1>2, <1>3 DEF PathMatches

\* All of them are among the methods of requests.
LEMMA MethodsKnown ==
  ASSUME NEW i \in 1..16
  PROVE  Routes[i].methods \subseteq Methods
BY MethodsAre DEF Methods

\* A literal path is answered by the route written for it.
LEMMA LiteralsAreReached == LiteralRoutesReached
<1> SUFFICES ASSUME NEW i \in DOMAIN Routes, NEW m \in Routes[i].methods, Routes[i].path \in Literals
             PROVE  HandlerOf[m][Routes[i].path] = Routes[i].handler
  BY DEF LiteralRoutesReached
<1>1. i \in 1..16 /\ Routes[i].path # "user_id"
  BY RoutesAre DEF Literals
<1>2. m \in Methods
  BY <1>1, MethodsKnown
<1>3. \A j \in 1..(i - 1) : ~(PathMatches(j, Routes[i].path) /\ m \in Routes[j].methods)
  <2> SUFFICES ASSUME NEW j \in 1..(i - 1), PathMatches(j, Routes[i].path), m \in Routes[j].methods
               PROVE  FALSE
    OBVIOUS
  <2>1. j \in 1..16 /\ j < i
    BY <1>1
  <2> QED  BY <1>1, <2>1, LiteralsFirst
<1> QED  BY <1>2, <1>3, FirstIsTaken

-----------------------------------------------------------------------------
\* active-count adds up to count, the days of created-per-day to the users made in
\* them, its last day to count-today and the users deleted since, and an empty search
\* within its limit finds who has a name (the statements of crud.py).
THEOREM CountsAlwaysAgree == Spec => []CountsAgree
<1>1. Init => RowsOK
  BY RowsStart
<1>2. RowsOK /\ [Next]_vars => RowsOK'
  BY RowsStep
<1>3. RowsOK => CountsAgree
  BY CountsOf
<1> QED  BY <1>1, <1>2, <1>3, PTL DEF Spec

\* Every live user is in one group of count-by-domain, and the usable groups are the
\* domains /users/domains lists, whatever the domain column has kept.
THEOREM DomainsAlwaysAgree == Spec => []DomainsAgree
<1>1. Init => RowsOK
  BY RowsStart
<1>2. RowsOK /\ [Next]_vars => RowsOK'
  BY RowsStep
<1>3. RowsOK => DomainsAgree
  BY DomainsOf
<1> QED  BY <1>1, <1>2, <1>3, PTL DEF Spec

\* In the order main.py includes the routers, no literal path is hidden by a route
\* with {user_id} before it, for any method.
THEOREM LiteralsReached == Spec => []LiteralRoutesReached
BY LiteralsAreReached, PTL
=============================================================================
