-------------------------- MODULE MiddlewareProofs --------------------------
(***************************************************************************)
(* Proofs about Middleware, for any number of requests, accounts, contents *)
(* and ids.  A step moves one request by one layer: what the others have   *)
(* is kept, the counter counts those that have come through its layer, and *)
(* what remains is what the layer leaves behind for the request itself.    *)
(***************************************************************************)
EXTENDS MiddlewareInvariant, FiniteSetTheorems, TLAPS

USE DEF shared, where, past, Done

-----------------------------------------------------------------------------
\* The order in which the layers run.
LEMMA StackIs ==
  /\ Bottom = 6 /\ Len(Stack) = 5
  /\ Stack[1] = "etag" /\ Stack[2] = "version" /\ Stack[3] = "log"
  /\ Stack[4] = "count" /\ Stack[5] = "correlation"
<1>1. Len(Registered) = 5
  BY DEF Registered
<1>2. Stack = [i \in 1..5 |-> Registered[6 - i]]
  BY <1>1 DEF Stack
<1>3. Len(Stack) = 5
  BY <1>2
<1> QED  BY <1>2, <1>3 DEF Registered, Bottom

LEMMA InLayer ==
  ASSUME NEW r, NEW direction
  PROVE  /\ In(r, "etag", direction) => way[r] = direction /\ depth[r] = 1
         /\ In(r, "version", direction) => way[r] = direction /\ depth[r] = VersionAt
         /\ In(r, "log", direction) => way[r] = direction /\ depth[r] = LogAt
         /\ In(r, "count", direction) => way[r] = direction /\ depth[r] = CountAt
         /\ In(r, "correlation", direction) => way[r] = direction /\ depth[r] = CorrelationAt
<1>1. 1..Len(Stack) = {1, 2, 3, 4, 5}
  BY StackIs
<1> QED  BY <1>1, StackIs DEF In, VersionAt, LogAt, CountAt, CorrelationAt

\* A request to which nothing happens: other than its account changing, which it sees.
Same(q) ==
  /\ ask'[q] = ask[q] /\ way'[q] = way[q] /\ depth'[q] = depth[q]
  /\ named'[q] = named[q] /\ reply'[q] = reply[q]

SameLines(q) == \A l : l.request = q => (l \in lines' <=> l \in lines)

Sees(q) ==
  /\ seen[q] \subseteq seen'[q]
  /\ way[q] = "done" => seen'[q] = seen[q]
  /\ way[q] \in {"in", "out", "raise"} => doc'[ask[q].user] \in seen'[q]

LEMMA LinesSame ==
  ASSUME NEW q, SameLines(q)
  PROVE  Ends(q)' = Ends(q) /\ Started(q)' = Started(q)
  BY DEF SameLines, Ends, Started

LEMMA OtherKept ==
  ASSUME StackInv, NEW q \in Requests, Same(q), SameLines(q), Sees(q)
  PROVE  Position(q)' /\ Identified(q)' /\ Current(q)' /\ Logged(q)'
<1> USE DEF Same
<1>1. Position(q)'
  BY DEF StackInv, Position
<1>2. Identified(q)'
  BY DEF StackInv, Identified, Passed
<1>3. Current(q)'
  BY DEF StackInv, Current, Sees
<1>4. Logged(q)'
  <2>1. Ends(q)' = Ends(q) /\ Started(q)' = Started(q)
    BY LinesSame
  <2>2. Logged(q)
    BY DEF StackInv
  <2>3. Passed(q, LogAt)' = Passed(q, LogAt) /\ Left(q, LogAt)' = Left(q, LogAt)
        /\ Conditional(q)' = Conditional(q)
    BY DEF Passed, Left, Conditional, LogAt
  <2> QED  BY <2>1, <2>2, <2>3 DEF Logged, Failed, Completed, CompletedAny, Sees
<1> QED  BY <1>1, <1>2, <1>3, <1>4

-----------------------------------------------------------------------------
\* Counting.
LEMMA CountersFinite ==
  ASSUME NEW S \in SUBSET Requests
  PROVE  IsFiniteSet(S) /\ Cardinality(S) \in Nat
  BY MiddlewareConstants, FS_Subset, FS_CardinalityType

\* Steps at which nobody comes through the counter's layer and no statistics are told.
Uncounted ==
  /\ UNCHANGED <<served, first, before>>
  /\ \A q \in Requests :
       /\ Passed(q, CountAt)' = Passed(q, CountAt)
       /\ Told(q)' => Told(q) /\ reply'[q].body = reply[q].body
       /\ way[q] = "done" => way'[q] = "done"
       /\ way'[q] = "in" => way[q] = "in"

LEMMA UncountedKeeps ==
  ASSUME StackInv, Uncounted
  PROVE  CounterOK' /\ \A r \in Requests : Statistics(r)'
<1>1. {r \in Requests : Passed(r, CountAt)'} = {r \in Requests : Passed(r, CountAt)}
  BY DEF Uncounted
<1>2. CounterOK'
  BY <1>1 DEF Uncounted, CounterOK, StackInv
<1>3. ASSUME NEW r \in Requests
      PROVE  Statistics(r)'
  <2>1. Statistics(r)
    BY DEF StackInv
  <2>2. before[r] \subseteq Requests /\ before'[r] = before[r]
    BY DEF StackInv, FormOK, Uncounted
  <2>3. before'[r] \subseteq {q \in Requests : Done(q)'} \ {r}
    BY <2>1, <2>2 DEF Statistics, Uncounted
  <2>4. ASSUME Told(r)'
        PROVE  /\ reply'[r].body \in [served : Nat, first : Requests]
               /\ reply'[r].body.first = first'
               /\ reply'[r].body.served > Cardinality(before'[r])
               /\ reply'[r].body.served <= served'
               /\ \A q \in before'[r] : Told(q)' => reply'[q].body.served < reply'[r].body.served
    BY <2>1, <2>2, <2>4 DEF Statistics, Uncounted
  <2>5. ASSUME way'[r] = "in", Passed(r, CountAt)', NEW q \in before'[r], Told(q)'
        PROVE  reply'[q].body.served < served'
    BY <2>1, <2>2, <2>5 DEF Statistics, Uncounted
  <2> QED  BY <2>3, <2>4, <2>5 DEF Statistics
<1> QED  BY <1>2, <1>3

-----------------------------------------------------------------------------
\* A step of r leaves the others alone, and the ids as they are.
Step(r) ==
  /\ \A q \in Requests \ {r} : Same(q) /\ SameLines(q) /\ Sees(q)
  /\ UNCHANGED <<ask, named>>

LEMMA Joined ==
  ASSUME StackInv, NEW r \in Requests, FormOK', Step(r), CounterOK',
         \A q \in Requests : Statistics(q)',
         Position(r)', Identified(r)', Current(r)', Logged(r)'
  PROVE  StackInv'
<1>1. OwnIds'
  BY DEF StackInv, OwnIds, Step
<1>2. ASSUME NEW q \in Requests
      PROVE  Position(q)' /\ Identified(q)' /\ Current(q)' /\ Logged(q)'
  <2>1. CASE q = r
    BY <2>1
  <2>2. CASE q # r
    BY <2>2, OtherKept DEF Step
  <2> QED  BY <2>1, <2>2
<1> QED  BY <1>1, <1>2 DEF StackInv

\* Most steps touch neither accounts nor the log ...
LEMMA Quiet ==
  ASSUME StackInv, NEW r \in Requests, UNCHANGED <<doc, seen, ask, named>>,
         \A q \in Requests \ {r} :
           way'[q] = way[q] /\ depth'[q] = depth[q] /\ reply'[q] = reply[q] /\ SameLines(q)
  PROVE  Step(r)
  BY DEF Step, Same, Sees, StackInv, Current

\* ... and a line is of the request that writes it.
LEMMA Written ==
  ASSUME FormOK, NEW r \in Requests, depth[r] \in 1..Bottom, NEW status \in Nat,
         NEW event \in Events,
         Write(r, event, status)
  PROVE  /\ \A q \in Requests \ {r} : SameLines(q)
         /\ lines' \subseteq Lines
         /\ ask[r].kind # "health" => \E l :
              /\ l.event = event /\ l.request = r /\ l.status = status
              /\ lines' = lines \cup {l}
<1> DEFINE line == [event |-> event, request |-> r, status |-> status, id |-> ctx[r][depth[r]]]
<1>1. lines' = lines \/ lines' = lines \cup {line}
  BY DEF Write
<1>2. line.request = r /\ line.event = event /\ line.status = status
  OBVIOUS
<1>3. line \in Lines
  <2>1. ctx[r] \in [1..Bottom -> Ids \cup {None}]
    BY DEF FormOK
  <2> QED  BY <2>1 DEF Lines
<1>4. \A q \in Requests \ {r} : SameLines(q)
  BY <1>1, <1>2 DEF SameLines
<1>5. ask[r].kind # "health" => lines' = lines \cup {line}
  BY DEF Write
<1> QED  BY <1>1, <1>2, <1>3, <1>4, <1>5 DEF FormOK

LEMMA Called ==
  ASSUME FormOK, NEW r \in Requests, depth[r] \in 1..5, NEW context \in Ids \cup {None},
         Call(r, context)
  PROVE  /\ depth' = [depth EXCEPT ![r] = depth[r] + 1] /\ depth'[r] = depth[r] + 1
         /\ depth' \in [Requests -> 0..Bottom] /\ way' = way
         /\ ctx' \in [Requests -> [1..Bottom -> Ids \cup {None}]]
<1>1. depth' = [depth EXCEPT ![r] = depth[r] + 1] /\ way' = way
  BY DEF Call
<1>2. depth'[r] = depth[r] + 1 /\ depth' \in [Requests -> 0..Bottom]
  BY <1>1, StackIs DEF FormOK
<1>3. depth[r] \in 1..Bottom /\ depth[r] + 1 \in 1..Bottom
  BY StackIs
<1>4. ctx' \in [Requests -> [1..Bottom -> Ids \cup {None}]]
  BY <1>3 DEF FormOK, Call
<1> QED  BY <1>1, <1>2, <1>4

LEMMA Returned ==
  ASSUME FormOK, NEW r \in Requests, depth[r] \in 1..6, Return(r)
  PROVE  /\ depth' = [depth EXCEPT ![r] = depth[r] - 1] /\ depth'[r] = depth[r] - 1
         /\ depth' \in [Requests -> 0..Bottom]
  BY StackIs DEF FormOK, Return

-----------------------------------------------------------------------------
\* The way in.
LEMMA ForwardKeeps ==
  ASSUME StackInv, NEW r \in Requests, Forward(r)
  PROVE  StackInv'
<1> USE DEF VersionAt, LogAt, CountAt, CorrelationAt
<1>0. way[r] = "in" /\ depth[r] \in {1, 2}
  BY InLayer DEF Forward
<1>1. ctx[r][depth[r]] \in Ids \cup {None} /\ FormOK
  BY <1>0, StackIs DEF StackInv, FormOK
<1>2. Call(r, ctx[r][depth[r]]) /\ UNCHANGED <<shared, ask, named, reply, lines, past>>
  BY DEF Forward
<1>3. /\ depth' = [depth EXCEPT ![r] = depth[r] + 1] /\ depth'[r] = depth[r] + 1
      /\ depth' \in [Requests -> 0..Bottom] /\ way' = way
      /\ ctx' \in [Requests -> [1..Bottom -> Ids \cup {None}]]
  BY <1>0, <1>1, <1>2, Called
<1>4. FormOK'
  BY <1>1, <1>2, <1>3 DEF FormOK
<1>5. Step(r)
  BY <1>1, <1>2, <1>3, Quiet DEF SameLines, FormOK
<1>6. CounterOK' /\ \A q \in Requests : Statistics(q)'
  <2>1. \A q \in Requests : Passed(q, CountAt)' = Passed(q, CountAt)
    BY <1>0, <1>1, <1>3 DEF Passed, FormOK
  <2> QED  BY <2>1, <1>2, <1>3, UncountedKeeps DEF Uncounted, Told
<1>7. Position(r)' /\ Current(r)' /\ Identified(r)'
  BY <1>0, <1>2, <1>3, StackIs DEF StackInv, Position, Current, Identified, Passed
<1>8. Logged(r)'
  <2>1. Ends(r)' = Ends(r) /\ Started(r)' = Started(r)
    BY <1>2, LinesSame DEF SameLines
  <2> QED  BY <1>0, <1>2, <1>3, <2>1 DEF StackInv, Logged, Passed, Left
<1> QED  BY <1>4, <1>5, <1>6, <1>7, <1>8, Joined

LEMMA LogStartKeeps ==
  ASSUME StackInv, NEW r \in Requests, LogStart(r)
  PROVE  StackInv'
<1> USE DEF VersionAt, LogAt, CountAt, CorrelationAt
<1>0. way[r] = "in" /\ depth[r] = 3
  BY InLayer DEF LogStart
<1>1. ctx[r][depth[r]] \in Ids \cup {None} /\ FormOK
  BY <1>0, StackIs DEF StackInv, FormOK
<1>2. /\ Call(r, ctx[r][depth[r]]) /\ Write(r, "request_started", 0)
      /\ UNCHANGED <<shared, ask, named, reply, past>>
  BY DEF LogStart
<1>3. /\ depth' = [depth EXCEPT ![r] = depth[r] + 1] /\ depth'[r] = depth[r] + 1
      /\ depth' \in [Requests -> 0..Bottom] /\ way' = way
      /\ ctx' \in [Requests -> [1..Bottom -> Ids \cup {None}]]
  BY <1>0, <1>1, <1>2, Called
<1>w. /\ \A q \in Requests \ {r} : SameLines(q)
      /\ lines' \subseteq Lines
      /\ ask[r].kind # "health" => \E l :
           /\ l.event = "request_started" /\ l.request = r /\ l.status = 0
           /\ lines' = lines \cup {l}
  BY <1>0, <1>1, <1>2, Written, StackIs DEF Events
<1>4. FormOK'
  BY <1>1, <1>2, <1>3, <1>w DEF FormOK
<1>5. Step(r)
  BY <1>1, <1>2, <1>3, <1>w, Quiet DEF FormOK
<1>6. CounterOK' /\ \A q \in Requests : Statistics(q)'
  <2>1. \A q \in Requests : Passed(q, CountAt)' = Passed(q, CountAt)
    BY <1>0, <1>1, <1>3 DEF Passed, FormOK
  <2> QED  BY <2>1, <1>2, <1>3, UncountedKeeps DEF Uncounted, Told
<1>7. Position(r)' /\ Current(r)' /\ Identified(r)'
  BY <1>0, <1>2, <1>3, StackIs DEF StackInv, Position, Current, Identified, Passed
<1>8. Logged(r)'
  <2> SUFFICES ASSUME ask[r].kind # "health"
               PROVE  Started(r)' /\ Ends(r)' = {}
    BY <1>0, <1>2, <1>3 DEF Logged, Passed, Left
  <2>1. Ends(r) = {}
    BY <1>0 DEF StackInv, Logged, Position, Left
  <2> QED  BY <1>w, <2>1 DEF Started, Ends
<1> QED  BY <1>4, <1>5, <1>6, <1>7, <1>8, Joined

LEMMA CountKeeps ==
  ASSUME StackInv, NEW r \in Requests, Count(r)
  PROVE  StackInv'
<1> USE DEF VersionAt, LogAt, CountAt, CorrelationAt
<1>0. way[r] = "in" /\ depth[r] = 4
  BY InLayer DEF Count
<1>1. ctx[r][depth[r]] \in Ids \cup {None} /\ FormOK
  BY <1>0, StackIs DEF StackInv, FormOK
<1>2. /\ Call(r, ctx[r][depth[r]]) /\ UNCHANGED <<doc, ask, named, reply, lines, past>>
      /\ served' = served + 1 /\ first' = IF first = None THEN r ELSE first
  BY DEF Count
<1>3. /\ depth' = [depth EXCEPT ![r] = depth[r] + 1] /\ depth'[r] = depth[r] + 1
      /\ depth' \in [Requests -> 0..Bottom] /\ way' = way
      /\ ctx' \in [Requests -> [1..Bottom -> Ids \cup {None}]]
  BY <1>0, <1>1, <1>2, Called
<1>4. FormOK'
  BY <1>1, <1>2, <1>3 DEF FormOK
<1>5. Step(r)
  BY <1>1, <1>2, <1>3, Quiet DEF SameLines, FormOK
<1> DEFINE P == {q \in Requests : Passed(q, CountAt)}
<1>p. /\ {q \in Requests : Passed(q, CountAt)'} = P \cup {r} /\ r \notin P
      /\ \A q \in Requests : Passed(q, CountAt)' <=> Passed(q, CountAt) \/ q = r
  BY <1>0, <1>1, <1>3 DEF Passed, FormOK
<1>s. served \in Nat /\ served' = Cardinality(P \cup {r})
  <2>1. IsFiniteSet(P) /\ Cardinality(P) \in Nat
    BY CountersFinite
  <2>2. served = Cardinality(P)
    BY DEF StackInv, CounterOK
  <2> QED  BY <1>2, <1>p, <2>1, <2>2, FS_AddElement
<1>f. first # None => first' = first
  BY <1>2
<1>6. CounterOK'
  <2>1. first' # None
    BY <1>2, MiddlewareConstants
  <2> QED  BY <1>p, <1>s, <2>1 DEF CounterOK
<1>7. ASSUME NEW q \in Requests
      PROVE  Statistics(q)'
  <2>1. Statistics(q) /\ before[q] \subseteq Requests
    BY DEF StackInv, FormOK
  <2>2. \A p \in Requests : Told(p)' => Told(p) /\ reply'[p].body = reply[p].body
    BY <1>2, <1>3 DEF Told
  <2>t. \A p \in Requests : Told(p) => reply[p].body \in [served : Nat, first : Requests]
                                       /\ reply[p].body.served <= served
    BY DEF StackInv, Statistics
  <2>3. Told(q)' => first # None
    <3>1. Told(q) => Passed(q, CountAt)
      BY DEF Told, Passed
    <3> QED  BY <2>2, <3>1 DEF StackInv, CounterOK
  <2>4. Told(q)' =>
          /\ reply'[q].body \in [served : Nat, first : Requests]
          /\ reply'[q].body.first = first'
          /\ reply'[q].body.served > Cardinality(before'[q])
          /\ reply'[q].body.served <= served'
          /\ \A p \in before'[q] : Told(p)' => reply'[p].body.served < reply'[q].body.served
    BY <1>2, <1>f, <1>s, <2>1, <2>2, <2>3 DEF Statistics
  <2>5. ASSUME NEW p \in before[q], Told(p)'
        PROVE  reply'[p].body.served < served'
    BY <1>2, <1>s, <2>1, <2>2, <2>t, <2>5
  <2> QED  BY <1>2, <1>3, <2>1, <2>4, <2>5 DEF Statistics
<1>8. Position(r)' /\ Current(r)' /\ Identified(r)'
  BY <1>0, <1>2, <1>3, StackIs DEF StackInv, Position, Current, Identified, Passed
<1>9. Logged(r)'
  <2>1. Ends(r)' = Ends(r) /\ Started(r)' = Started(r)
    BY <1>2, LinesSame DEF SameLines
  <2> QED  BY <1>0, <1>2, <1>3, <2>1 DEF StackInv, Logged, Passed, Left
<1> QED  BY <1>4, <1>5, <1>6, <1>7, <1>8, <1>9, Joined

LEMMA BindKeeps ==
  ASSUME StackInv, NEW r \in Requests, Bind(r)
  PROVE  StackInv'
<1> USE DEF VersionAt, LogAt, CountAt, CorrelationAt
<1>0. way[r] = "in" /\ depth[r] = 5
  BY InLayer DEF Bind
<1>1. FormOK /\ ask[r] # None /\ ask[r] \in Asks /\ named[r] = None
  <2>1. FormOK /\ Position(r) /\ Identified(r)
    BY DEF StackInv
  <2>2. ask[r] # None /\ named[r] = None
    BY <1>0, <2>1 DEF Position, Identified, Passed
  <2> QED  BY <2>1, <2>2 DEF FormOK
<1>2. PICK id \in IdsFor(r) : named' = [named EXCEPT ![r] = id] /\ Call(r, id)
  BY DEF Bind
<1>3. UNCHANGED <<shared, ask, reply, lines, past>>
  BY DEF Bind
<1>4. id \in Ids /\ id # None
  <2>1. ask[r].id \in Ids \cup {None}
    BY <1>1, MiddlewareConstants
  <2> QED  BY <1>2, <2>1, MiddlewareConstants DEF IdsFor
<1>5. /\ depth' = [depth EXCEPT ![r] = depth[r] + 1] /\ depth'[r] = depth[r] + 1
      /\ depth' \in [Requests -> 0..Bottom] /\ way' = way
      /\ ctx' \in [Requests -> [1..Bottom -> Ids \cup {None}]]
  BY <1>0, <1>1, <1>2, <1>4, Called
<1>6. FormOK'
  BY <1>1, <1>2, <1>3, <1>4, <1>5 DEF FormOK
<1>7. OwnIds'
  <2> SUFFICES ASSUME NEW q \in Requests, q # r, named[q] = id, ask[r].id = None
               PROVE  FALSE
    BY <1>1, <1>2, <1>3, <1>4 DEF StackInv, OwnIds, FormOK
  <2>1. id \notin TakenIds
    BY <1>2, <1>4 DEF IdsFor
  <2> QED  BY <2>1 DEF TakenIds
<1>8. CounterOK' /\ \A q \in Requests : Statistics(q)'
  <2>1. \A q \in Requests : Passed(q, CountAt)' = Passed(q, CountAt)
    BY <1>0, <1>1, <1>5 DEF Passed, FormOK
  <2> QED  BY <2>1, <1>3, <1>5, UncountedKeeps DEF Uncounted, Told
<1>9. Position(r)' /\ Current(r)'
  BY <1>0, <1>3, <1>5, StackIs DEF StackInv, Position, Current
<1>10. Identified(r)'
  <2>1. named'[r] = id /\ ask[r].id \in {None, id}
    BY <1>1, <1>2 DEF FormOK, IdsFor
  <2> QED  BY <1>0, <1>3, <1>4, <1>5, <2>1 DEF Identified, Passed
<1>11. Logged(r)'
  <2>1. Ends(r)' = Ends(r) /\ Started(r)' = Started(r)
    BY <1>3, LinesSame DEF SameLines
  <2> QED  BY <1>0, <1>3, <1>5, <2>1 DEF StackInv, Logged, Passed, Left
<1>12. ASSUME NEW q \in Requests \ {r}
       PROVE  Position(q)' /\ Identified(q)' /\ Current(q)' /\ Logged(q)'
  <2>1. Same(q) /\ SameLines(q) /\ Sees(q)
    BY <1>1, <1>2, <1>3, <1>5 DEF Same, SameLines, Sees, FormOK, StackInv, Current
  <2> QED  BY <2>1, OtherKept
<1> QED  BY <1>6, <1>7, <1>8, <1>9, <1>10, <1>11, <1>12 DEF StackInv

LEMMA ArriveKeeps ==
  ASSUME StackInv, NEW r \in Requests, Arrive(r)
  PROVE  StackInv'
<1> USE DEF VersionAt, LogAt, CountAt, CorrelationAt
<1>0. way[r] = "idle" /\ FormOK /\ Position(r) /\ Identified(r) /\ Statistics(r) /\ Logged(r)
  BY DEF StackInv, Arrive
<1>1. PICK a \in Asks : /\ ask' = [ask EXCEPT ![r] = a]
                        /\ seen' = [seen EXCEPT ![r] = {doc[a.user]}]
  BY DEF Arrive
<1>2. /\ way' = [way EXCEPT ![r] = "in"] /\ depth' = [depth EXCEPT ![r] = 1]
      /\ before' = [before EXCEPT ![r] = {q \in Requests : way[q] = "done"}]
      /\ UNCHANGED <<shared, ctx, named, reply, lines>>
  BY DEF Arrive
<1>3. a # None /\ doc[a.user] \in Docs /\ ask'[r] = a
  <2>1. a \in [kind : Kinds, user : Users, tag : Docs \cup {Down, Star, Malformed, None},
                id : Ids \cup {None}] /\ a # None
    BY MiddlewareConstants
  <2> QED  BY <1>0, <1>1, <2>1 DEF FormOK
<1>4. FormOK'
  <2>1. depth' \in [Requests -> 0..Bottom]
    BY <1>0, <1>2, StackIs DEF FormOK
  <2> QED  BY <1>0, <1>1, <1>2, <1>3, <2>1 DEF FormOK
<1>5. OwnIds'
  <2>1. named[r] = None
    BY <1>0 DEF Identified, Passed
  <2> QED  BY <1>0, <1>1, <1>2, <2>1 DEF OwnIds, StackInv, FormOK
<1>6. \A q \in Requests : /\ Passed(q, CountAt)' = Passed(q, CountAt)
                          /\ q # r => Told(q)' = Told(q)
                          /\ Done(q)' = Done(q)
  BY <1>0, <1>1, <1>2 DEF Passed, Told, FormOK
<1>7. CounterOK'
  <2>1. {q \in Requests : Passed(q, CountAt)'} = {q \in Requests : Passed(q, CountAt)}
    BY <1>6
  <2> QED  BY <1>2, <1>6, <2>1 DEF StackInv, CounterOK
<1>8. ~Told(r)' /\ ~Passed(r, CountAt)'
  BY <1>0, <1>2 DEF Told, Passed, FormOK
<1>9. Statistics(r)'
  <2>1. before'[r] \subseteq {q \in Requests : Done(q)'} \ {r}
    BY <1>0, <1>2, <1>6 DEF FormOK
  <2> QED  BY <1>8, <2>1 DEF Statistics
<1>10. ASSUME NEW q \in Requests, q # r
       PROVE  Statistics(q)'
  <2>1. before'[q] = before[q] /\ r \notin before[q] /\ Statistics(q)
    BY <1>0, <1>2, <1>10 DEF StackInv, Statistics, FormOK
  <2>2. before[q] \subseteq Requests
    BY <1>0 DEF FormOK
  <2>3. /\ way'[q] = way[q] /\ reply' = reply /\ served' = served /\ first' = first
        /\ Told(q)' = Told(q) /\ Passed(q, CountAt)' = Passed(q, CountAt)
        /\ \A p \in before[q] : Told(p)' = Told(p)
    BY <1>0, <1>2, <1>6, <1>10, <2>1, <2>2 DEF FormOK
  <2>4. before[q] \subseteq {p \in Requests : Done(p)'} \ {q}
    BY <1>6, <2>1, <2>2 DEF Statistics
  <2> QED  BY <2>1, <2>3, <2>4 DEF Statistics
<1>11. Position(r)' /\ Identified(r)' /\ Current(r)' /\ Logged(r)'
  <2>1. Position(r)'
    BY <1>0, <1>1, <1>2, <1>3, StackIs DEF Position, FormOK
  <2>2. Identified(r)'
    BY <1>0, <1>2 DEF Identified, Passed, FormOK
  <2>3. Current(r)'
    BY <1>0, <1>1, <1>2, <1>3 DEF Current, FormOK
  <2>4. Ends(r)' = {}
    BY <1>0, <1>2 DEF Logged, Ends
  <2>5. way'[r] = "in" /\ ~Passed(r, LogAt)'
    BY <1>0, <1>2 DEF FormOK, Passed
  <2> QED  BY <2>1, <2>2, <2>3, <2>4, <2>5 DEF Logged
<1>12. ASSUME NEW q \in Requests \ {r}
       PROVE  Position(q)' /\ Identified(q)' /\ Current(q)' /\ Logged(q)'
  <2>1. Same(q) /\ SameLines(q) /\ Sees(q)
    BY <1>0, <1>1, <1>2 DEF Same, SameLines, Sees, FormOK, StackInv, Current
  <2> QED  BY <2>1, OtherKept
<1> QED  BY <1>4, <1>5, <1>7, <1>9, <1>10, <1>11, <1>12 DEF StackInv

-----------------------------------------------------------------------------
\* Accounts change, and the requests under way have seen it.
LEMMA AccountChanges ==
  ASSUME StackInv, NEW u \in Users, NEW d \in Docs,
         doc' = [doc EXCEPT ![u] = d], seen' = SeenWith(u, d)
  PROVE  /\ doc' \in [Users -> Docs] /\ seen' \in [Requests -> SUBSET Docs]
         /\ \A q \in Requests : Sees(q)
<1>1. doc' \in [Users -> Docs] /\ seen' \in [Requests -> SUBSET Docs]
  BY DEF StackInv, FormOK, SeenWith
<1>2. ASSUME NEW q \in Requests
      PROVE  Sees(q)
  <2>1. seen[q] \subseteq seen'[q] /\ (way[q] = "done" => seen'[q] = seen[q])
    BY DEF SeenWith
  <2>2. CASE ask[q].user = u
    BY <2>1, <2>2 DEF StackInv, FormOK, SeenWith, Sees
  <2>3. CASE ask[q].user # u
    <3>1. way[q] \in {"in", "out", "raise"} => doc[ask[q].user] \in seen[q]
      BY DEF StackInv, Current
    <3>2. doc'[ask[q].user] = doc[ask[q].user] \/ ask[q].user \notin Users
      BY <2>3 DEF StackInv, FormOK
    <3>3. way[q] \in {"in", "out", "raise"} => ask[q].user \in Users
      <4>1. way[q] # "idle" => ask[q] \in Asks
        BY DEF StackInv, FormOK, Position
      <4> QED  BY <4>1, MiddlewareConstants
    <3> QED  BY <2>1, <3>1, <3>2, <3>3 DEF Sees
  <2> QED  BY <2>2, <2>3
<1> QED  BY <1>1, <1>2

LEMMA ChangeKeeps ==
  ASSUME StackInv, NEW u \in Users, Change(u)
  PROVE  StackInv'
<1>1. PICK d \in Docs : doc' = [doc EXCEPT ![u] = d] /\ seen' = SeenWith(u, d)
  BY DEF Change
<1>2. UNCHANGED <<served, first, ask, where, ctx, named, reply, lines, before>>
  BY DEF Change
<1>3. /\ doc' \in [Users -> Docs] /\ seen' \in [Requests -> SUBSET Docs]
      /\ \A q \in Requests : Sees(q)
  BY <1>1, AccountChanges
<1>4. FormOK' /\ OwnIds'
  BY <1>2, <1>3 DEF StackInv, FormOK, OwnIds
<1>5. CounterOK' /\ \A q \in Requests : Statistics(q)'
  BY <1>2, UncountedKeeps DEF Uncounted, Told, Passed
<1>6. \A q \in Requests : Same(q) /\ SameLines(q)
  BY <1>2 DEF Same, SameLines
<1>7. \A q \in Requests : Position(q)' /\ Identified(q)' /\ Current(q)' /\ Logged(q)'
  BY <1>3, <1>6, OtherKept
<1> QED  BY <1>4, <1>5, <1>7 DEF StackInv

-----------------------------------------------------------------------------
\* The routes: what they have in common.
LEMMA Responded ==
  ASSUME StackInv, NEW r \in Requests, way[r] = "in", depth[r] = Bottom,
         NEW code \in Nat, NEW body \in Bodies, Respond(r, code, body),
         doc' \in [Users -> Docs], seen' \in [Requests -> SUBSET Docs],
         \A q \in Requests : Sees(q)
  PROVE  /\ FormOK' /\ Step(r)
         /\ Position(r)' /\ Identified(r)' /\ Logged(r)'
         /\ way' = [way EXCEPT ![r] = "out"]
         /\ reply' = [reply EXCEPT ![r] = reply'[r]]
         /\ reply'[r].status = code /\ reply'[r].body = body
         /\ UNCHANGED <<served, first, ask, before>>
         /\ \A q \in Requests : Passed(q, CountAt)' = Passed(q, CountAt)
<1> USE DEF VersionAt, LogAt, CountAt, CorrelationAt
<1>1. FormOK /\ Position(r) /\ Identified(r) /\ Logged(r) /\ depth[r] = 6
  BY StackIs DEF StackInv
<1>2. /\ reply' = [reply EXCEPT ![r] = [NoReply EXCEPT !.status = code, !.body = body]]
      /\ way' = [way EXCEPT ![r] = "out"] /\ Return(r)
      /\ UNCHANGED <<served, first, ask, ctx, named, lines, before>>
  BY DEF Respond
<1>3. /\ depth' = [depth EXCEPT ![r] = depth[r] - 1] /\ depth'[r] = 5
      /\ depth' \in [Requests -> 0..Bottom]
  BY <1>1, <1>2, Returned
<1>4. reply'[r] = [status |-> code, body |-> body, version |-> FALSE, id |-> None]
  BY <1>1, <1>2 DEF FormOK, NoReply
<1>5. FormOK'
  <2>1. reply'[r] \in Replies
    BY <1>4 DEF Replies
  <2>2. reply' = [reply EXCEPT ![r] = reply'[r]]
    BY <1>1, <1>2, <1>4 DEF FormOK
  <2> QED  BY <1>1, <1>2, <1>3, <2>1, <2>2 DEF FormOK
<1>6. Step(r)
  BY <1>1, <1>2, <1>3 DEF Step, Same, SameLines, FormOK
<1>7. way'[r] = "out" /\ ask'[r] = ask[r] /\ named'[r] = named[r]
  BY <1>1, <1>2 DEF FormOK
<1>8. Position(r)'
  BY <1>1, <1>3, <1>7, StackIs DEF Position
<1>9. Identified(r)'
  <2>1. Passed(r, CorrelationAt)' /\ Passed(r, CorrelationAt)
    BY <1>1, <1>7 DEF Passed
  <2> QED  BY <1>1, <1>3, <1>7, <2>1 DEF Identified
<1>10. Logged(r)'
  <2>1. Ends(r)' = Ends(r) /\ Started(r)' = Started(r)
    BY <1>2, LinesSame DEF SameLines
  <2>2. ask[r].kind # "health" => Started(r) /\ Ends(r) = {}
    BY <1>1 DEF Logged, Passed, Left
  <2> QED  BY <1>3, <1>7, <2>1, <2>2 DEF Logged, Left
<1>11. \A q \in Requests : Passed(q, CountAt)' = Passed(q, CountAt)
  BY <1>1, <1>2, <1>3 DEF Passed, FormOK
<1>12. reply' = [reply EXCEPT ![r] = reply'[r]] /\ reply'[r].status = code /\ reply'[r].body = body
  BY <1>1, <1>2, <1>4 DEF FormOK
<1> QED  BY <1>2, <1>5, <1>6, <1>8, <1>9, <1>10, <1>11, <1>12

\* A response of another kind tells no statistics.
LEMMA TellsNothing ==
  ASSUME StackInv, NEW r \in Requests, ask[r].kind # "stats", UNCHANGED <<served, first, ask, before>>,
         NEW w, way' = [way EXCEPT ![r] = w], w # "in", way[r] # "done",
         \A q \in Requests \ {r} : reply'[q] = reply[q],
         \A q \in Requests : Passed(q, CountAt)' = Passed(q, CountAt)
  PROVE  CounterOK' /\ \A q \in Requests : Statistics(q)'
<1>1. way \in [Requests -> {"idle", "in", "out", "raise", "done"}]
  BY DEF StackInv, FormOK
<1>2. Uncounted
  BY <1>1 DEF Uncounted, Told
<1> QED  BY <1>2, UncountedKeeps

LEMMA Account ==
  ASSUME StackInv, NEW r \in Requests, way[r] # "idle"
  PROVE  ask[r] \in Asks /\ ask[r].user \in Users /\ doc[ask[r].user] \in Docs
<1>1. ask[r] \in Asks /\ doc \in [Users -> Docs]
  BY DEF StackInv, FormOK, Position
<1> QED  BY <1>1, MiddlewareConstants

LEMMA GetKeeps ==
  ASSUME StackInv, NEW r \in Requests, Get(r)
  PROVE  StackInv'
<1> DEFINE d == doc[ask[r].user]
           code == IF d = Missing THEN 404 ELSE 200
<1>1. /\ way[r] = "in" /\ depth[r] = Bottom /\ ask[r].kind = "get"
      /\ Respond(r, code, d) /\ UNCHANGED <<doc, seen>>
  BY DEF Get, AtRoute
<1>2. d \in Bodies /\ code \in Nat
  BY <1>1, Account DEF Bodies
<1>3. doc \in [Users -> Docs] /\ seen \in [Requests -> SUBSET Docs] /\ d \in seen[r]
  BY <1>1 DEF StackInv, FormOK, Current
<1>4. \A q \in Requests : Sees(q)
  BY <1>1 DEF StackInv, Current, Sees
<1> HIDE DEF d
<1>5. /\ FormOK' /\ Step(r) /\ Position(r)' /\ Identified(r)' /\ Logged(r)'
      /\ way' = [way EXCEPT ![r] = "out"] /\ reply' = [reply EXCEPT ![r] = reply'[r]]
      /\ reply'[r].status = code /\ reply'[r].body = d
      /\ UNCHANGED <<served, first, ask, before>>
      /\ \A q \in Requests : Passed(q, CountAt)' = Passed(q, CountAt)
  BY <1>1, <1>2, <1>3, <1>4, Responded
<1>6. Current(r)'
  BY <1>1, <1>3, <1>4, <1>5 DEF Current, Sees, StackInv, FormOK
<1>7. CounterOK' /\ \A q \in Requests : Statistics(q)'
  <2>1. \A q \in Requests \ {r} : reply'[q] = reply[q]
    BY <1>5 DEF StackInv, FormOK
  <2> QED  BY <1>1, <1>5, <2>1, TellsNothing
<1> QED  BY <1>5, <1>6, <1>7, Joined

LEMMA HealthKeeps ==
  ASSUME StackInv, NEW r \in Requests, Health(r)
  PROVE  StackInv'
<1>1. /\ way[r] = "in" /\ depth[r] = Bottom /\ ask[r].kind = "health"
      /\ Respond(r, 200, Alive) /\ UNCHANGED <<doc, seen>>
  BY DEF Health, AtRoute
<1>2. Alive \in Bodies /\ 200 \in Nat
  BY DEF Bodies
<1>3. doc \in [Users -> Docs] /\ seen \in [Requests -> SUBSET Docs]
  BY DEF StackInv, FormOK
<1>4. \A q \in Requests : Sees(q)
  BY <1>1 DEF StackInv, Current, Sees
<1>5. /\ FormOK' /\ Step(r) /\ Position(r)' /\ Identified(r)' /\ Logged(r)'
      /\ way' = [way EXCEPT ![r] = "out"] /\ reply' = [reply EXCEPT ![r] = reply'[r]]
      /\ UNCHANGED <<served, first, ask, before>>
      /\ \A q \in Requests : Passed(q, CountAt)' = Passed(q, CountAt)
  BY <1>1, <1>2, <1>3, <1>4, Responded
<1>6. Current(r)'
  BY <1>1, <1>3, <1>5 DEF Current, StackInv, FormOK
<1>7. CounterOK' /\ \A q \in Requests : Statistics(q)'
  <2>1. \A q \in Requests \ {r} : reply'[q] = reply[q]
    BY <1>5 DEF StackInv, FormOK
  <2> QED  BY <1>1, <1>5, <2>1, TellsNothing
<1> QED  BY <1>5, <1>6, <1>7, Joined

LEMMA UnavailableKeeps ==
  ASSUME StackInv, NEW r \in Requests, Unavailable(r)
  PROVE  StackInv'
<1>1. /\ way[r] = "in" /\ depth[r] = Bottom /\ ask[r].kind \in {"get", "delete"}
      /\ Respond(r, 503, Down) /\ UNCHANGED <<doc, seen>>
  BY DEF Unavailable, AtRoute
<1>2. Down \in Bodies /\ 503 \in Nat
  BY DEF Bodies
<1>3. doc \in [Users -> Docs] /\ seen \in [Requests -> SUBSET Docs]
  BY DEF StackInv, FormOK
<1>4. \A q \in Requests : Sees(q)
  BY <1>1 DEF StackInv, Current, Sees
<1>5. /\ FormOK' /\ Step(r) /\ Position(r)' /\ Identified(r)' /\ Logged(r)'
      /\ way' = [way EXCEPT ![r] = "out"] /\ reply' = [reply EXCEPT ![r] = reply'[r]]
      /\ reply'[r].status = 503 /\ reply'[r].body = Down
      /\ UNCHANGED <<served, first, ask, before>>
      /\ \A q \in Requests : Passed(q, CountAt)' = Passed(q, CountAt)
  BY <1>1, <1>2, <1>3, <1>4, Responded
<1>6. Current(r)'
  BY <1>1, <1>3, <1>5 DEF Current, StackInv, FormOK
<1>7. CounterOK' /\ \A q \in Requests : Statistics(q)'
  <2>1. \A q \in Requests \ {r} : reply'[q] = reply[q]
    BY <1>5 DEF StackInv, FormOK
  <2>2. ask[r].kind # "stats"
    BY <1>1
  <2>3. way[r] # "done" /\ way' = [way EXCEPT ![r] = "out"]
    BY <1>1, <1>5
  <2>4. /\ UNCHANGED <<served, first, ask, before>>
        /\ \A q \in Requests : Passed(q, CountAt)' = Passed(q, CountAt)
    BY <1>5
  <2> QED  BY <2>1, <2>2, <2>3, <2>4, TellsNothing
<1> QED  BY <1>5, <1>6, <1>7, Joined

LEMMA DeleteKeeps ==
  ASSUME StackInv, NEW r \in Requests, Delete(r)
  PROVE  StackInv'
<1> DEFINE u == ask[r].user
<1>1. way[r] = "in" /\ depth[r] = Bottom /\ ask[r].kind = "delete" /\ u \in Users
  BY Account DEF Delete, AtRoute
<1>2. PICK code \in Nat, body \in Bodies :
        /\ Respond(r, code, body)
        /\ \/ UNCHANGED <<doc, seen>>
           \/ doc' = [doc EXCEPT ![u] = Missing] /\ seen' = SeenWith(u, Missing)
  <2>1. Missing \in Bodies /\ None \in Bodies /\ 404 \in Nat /\ 204 \in Nat
    BY DEF Bodies, Docs
  <2> QED  BY <2>1 DEF Delete
<1>3. /\ doc' \in [Users -> Docs] /\ seen' \in [Requests -> SUBSET Docs]
      /\ \A q \in Requests : Sees(q)
  <2>1. CASE UNCHANGED <<doc, seen>>
    BY <2>1 DEF StackInv, FormOK, Current, Sees
  <2>2. CASE doc' = [doc EXCEPT ![u] = Missing] /\ seen' = SeenWith(u, Missing)
    <3>1. Missing \in Docs
      BY DEF Docs
    <3> QED  BY <1>1, <2>2, <3>1, AccountChanges
  <2> QED  BY <1>2, <2>1, <2>2
<1>5. /\ FormOK' /\ Step(r) /\ Position(r)' /\ Identified(r)' /\ Logged(r)'
      /\ way' = [way EXCEPT ![r] = "out"] /\ reply' = [reply EXCEPT ![r] = reply'[r]]
      /\ UNCHANGED <<served, first, ask, before>>
      /\ \A q \in Requests : Passed(q, CountAt)' = Passed(q, CountAt)
  BY <1>1, <1>2, <1>3, Responded
<1>6. Current(r)'
  BY <1>1, <1>3, <1>5 DEF Current, Sees, StackInv, FormOK
<1>7. CounterOK' /\ \A q \in Requests : Statistics(q)'
  <2>1. \A q \in Requests \ {r} : reply'[q] = reply[q]
    BY <1>5 DEF StackInv, FormOK
  <2> QED  BY <1>1, <1>5, <2>1, TellsNothing
<1> QED  BY <1>5, <1>6, <1>7, Joined

LEMMA StatsKeeps ==
  ASSUME StackInv, NEW r \in Requests, Stats(r)
  PROVE  StackInv'
<1> DEFINE body == [served |-> served, first |-> first]
           P == {q \in Requests : Passed(q, CountAt)}
<1>1. /\ way[r] = "in" /\ depth[r] = Bottom /\ ask[r].kind = "stats"
      /\ Respond(r, 200, body) /\ UNCHANGED <<doc, seen>>
  BY DEF Stats, AtRoute
<1>p. r \in P /\ IsFiniteSet(P) /\ served = Cardinality(P) /\ served \in Nat /\ first \in Requests
  <2>1. r \in P
    BY <1>1, StackIs DEF Passed, CountAt
  <2>2. IsFiniteSet(P) /\ Cardinality(P) \in Nat
    BY CountersFinite
  <2> QED  BY <2>1, <2>2 DEF StackInv, CounterOK, FormOK
<1>2. body \in [served : Nat, first : Requests]
  BY <1>p
<1>3. doc \in [Users -> Docs] /\ seen \in [Requests -> SUBSET Docs]
  BY DEF StackInv, FormOK
<1>4. \A q \in Requests : Sees(q)
  BY <1>1 DEF StackInv, Current, Sees
<1>5. /\ FormOK' /\ Step(r) /\ Position(r)' /\ Identified(r)' /\ Logged(r)'
      /\ way' = [way EXCEPT ![r] = "out"] /\ reply' = [reply EXCEPT ![r] = reply'[r]]
      /\ reply'[r].status = 200 /\ reply'[r].body = body
      /\ UNCHANGED <<served, first, ask, before>>
      /\ \A q \in Requests : Passed(q, CountAt)' = Passed(q, CountAt)
  <2>1. body \in Bodies /\ 200 \in Nat
    BY <1>2 DEF Bodies
  <2> HIDE DEF body
  <2> QED  BY <1>1, <1>3, <1>4, <2>1, Responded
<1>6. Current(r)'
  BY <1>1, <1>3, <1>5 DEF Current, StackInv, FormOK
<1>7. CounterOK'
  <2>1. {q \in Requests : Passed(q, CountAt)'} = P
    BY <1>5
  <2> QED  BY <1>5, <2>1 DEF StackInv, CounterOK
<1>8. /\ way' \in [Requests -> {"idle", "in", "out", "raise", "done"}]
      /\ way \in [Requests -> {"idle", "in", "out", "raise", "done"}]
      /\ reply \in [Requests -> Replies]
      /\ \A q \in Requests : before[q] \subseteq {p \in Requests : Done(p)} \ {q}
  BY <1>5 DEF StackInv, FormOK, Statistics
<1>9. \A q \in Requests : Done(q) => q # r /\ Done(q)' /\ Told(q)' = Told(q) /\ reply'[q] = reply[q]
  BY <1>1, <1>5, <1>8 DEF Told
<1>10. Statistics(r)'
  <2>1. before'[r] \subseteq {q \in Requests : Done(q)'} \ {r}
    BY <1>5, <1>8, <1>9
  <2>2. Cardinality(before[r]) < served
    <3>1. before[r] \subseteq P \ {r}
      BY <1>8 DEF Passed
    <3>2. Cardinality(P \ {r}) = served - 1 /\ IsFiniteSet(P \ {r})
      BY <1>p, FS_RemoveElement
    <3>3. Cardinality(before[r]) <= Cardinality(P \ {r}) /\ Cardinality(before[r]) \in Nat
      BY <3>1, <3>2, FS_Subset, FS_CardinalityType
    <3> QED  BY <1>p, <3>2, <3>3
  <2>3. \A q \in before[r] : Told(q)' => reply'[q].body.served < served
    <3>1. Passed(r, CountAt) /\ Statistics(r)
      BY <1>p DEF StackInv
    <3> QED  BY <1>1, <1>8, <1>9, <3>1 DEF Statistics
  <2>4. way'[r] = "out"
    BY <1>5, <1>8
  <2> QED  BY <1>2, <1>5, <1>p, <2>1, <2>2, <2>3, <2>4 DEF Statistics
<1>11. ASSUME NEW q \in Requests, q # r
       PROVE  Statistics(q)'
  <2>1. Statistics(q)
    BY DEF StackInv
  <2>2. /\ way'[q] = way[q] /\ reply'[q] = reply[q] /\ Told(q)' = Told(q)
        /\ Passed(q, CountAt)' = Passed(q, CountAt)
    BY <1>5, <1>8, <1>11 DEF Told
  <2>3. \A p \in before[q] : Done(p)' /\ p # q /\ p \in Requests
                            /\ Told(p)' = Told(p) /\ reply'[p] = reply[p]
    BY <1>8, <1>9
  <2> QED  BY <1>5, <2>1, <2>2, <2>3 DEF Statistics
<1>12. \A q \in Requests : Statistics(q)'
  BY <1>10, <1>11
<1> QED  BY <1>5, <1>6, <1>7, <1>12, Joined

-----------------------------------------------------------------------------
\* The way out: the counter has counted, and what was told stays told.
LEMMA LeavingCounted ==
  ASSUME StackInv, NEW r \in Requests, Passed(r, CountAt), way[r] # "done",
         NEW w \in {"out", "raise", "done"}, way' = [way EXCEPT ![r] = w],
         \A q \in Requests \ {r} : reply'[q] = reply[q] /\ depth'[q] = depth[q],
         UNCHANGED <<served, first, ask, before>>,
         Told(r)' => Told(r) /\ reply'[r].body = reply[r].body
  PROVE  CounterOK' /\ \A q \in Requests : Statistics(q)'
<1>1. way \in [Requests -> {"idle", "in", "out", "raise", "done"}]
  BY DEF StackInv, FormOK
<1>2. \A q \in Requests : Passed(q, CountAt)' = Passed(q, CountAt)
  BY <1>1 DEF Passed
<1>3. \A q \in Requests : Told(q)' => Told(q) /\ reply'[q].body = reply[q].body
  BY <1>1 DEF Told
<1>4. Uncounted
  BY <1>1, <1>2, <1>3 DEF Uncounted
<1> QED  BY <1>4, UncountedKeeps

\* A layer that is returned to changes the headers of the response at most.
LEMMA Headed ==
  ASSUME StackInv, NEW r \in Requests, way[r] = "out", depth[r] # 1, way' = way,
         NEW headed \in Replies,
         reply' = [reply EXCEPT ![r] = headed],
         headed.status = reply[r].status, headed.body = reply[r].body,
         Return(r), UNCHANGED <<shared, ask, named, past>>,
         ctx' \in [Requests -> [1..Bottom -> Ids \cup {None}]],
         lines' \subseteq Lines,
         \A q \in Requests \ {r} : SameLines(q)
  PROVE  /\ FormOK' /\ Step(r) /\ Position(r)' /\ Current(r)'
         /\ CounterOK' /\ \A q \in Requests : Statistics(q)'
         /\ depth'[r] = depth[r] - 1 /\ depth[r] \in 1..5 /\ way'[r] = "out"
         /\ reply'[r] = headed
<1>1. FormOK /\ Position(r) /\ Current(r) /\ depth[r] \in 1..5
  BY StackIs DEF StackInv, FormOK, Position
<1>2. /\ depth' = [depth EXCEPT ![r] = depth[r] - 1] /\ depth'[r] = depth[r] - 1
      /\ depth' \in [Requests -> 0..Bottom]
  BY <1>1, Returned
<1>3. FormOK' /\ reply'[r] = headed
  BY <1>1, <1>2 DEF FormOK
<1>4. Step(r)
  BY <1>1, <1>2, Quiet DEF FormOK
<1>5. Position(r)' /\ Current(r)'
  <2>1. Position(r)'
    BY <1>1, <1>2, StackIs DEF Position
  <2>2. reply'[r].status = reply[r].status /\ reply'[r].body = reply[r].body
    <3> HIDE DEF Replies
    <3> QED  BY <1>3
  <2> QED  BY <1>1, <2>1, <2>2 DEF Current
<1>6. CounterOK' /\ \A q \in Requests : Statistics(q)'
  <2>1. Passed(r, CountAt) /\ way' = [way EXCEPT ![r] = "out"]
    BY <1>1 DEF Passed, FormOK
  <2>2. \A q \in Requests \ {r} : reply'[q] = reply[q] /\ depth'[q] = depth[q]
    BY <1>1, <1>2 DEF FormOK
  <2>3. Told(r)' => Told(r) /\ reply'[r].body = reply[r].body
    BY <1>3 DEF Told
  <2> QED  BY <2>1, <2>2, <2>3, LeavingCounted
<1> QED  BY <1>1, <1>2, <1>3, <1>4, <1>5, <1>6

\* It writes to the log only if it is the log.
LEMMA HeadedLogged ==
  ASSUME StackInv, NEW r \in Requests, way[r] = "out", way' = way, UNCHANGED <<ask, lines>>,
         depth[r] # LogAt, depth[r] \in 1..5, depth'[r] = depth[r] - 1,
         reply'[r].status = reply[r].status
  PROVE  Logged(r)'
<1>1. Ends(r)' = Ends(r) /\ Started(r)' = Started(r)
  BY LinesSame DEF SameLines
<1>2. Left(r, LogAt)' = Left(r, LogAt) /\ Passed(r, LogAt)' = Passed(r, LogAt)
  BY DEF Left, Passed, LogAt
<1> QED  BY <1>1, <1>2 DEF StackInv, Logged, Completed

LEMMA UnbindKeeps ==
  ASSUME StackInv, NEW r \in Requests, Unbind(r)
  PROVE  StackInv'
<1> DEFINE headed == [reply[r] EXCEPT !.id = named[r]]
<1>0. way[r] = "out" /\ depth[r] = 5 /\ depth[r] # 1
  BY InLayer DEF Unbind, CorrelationAt
<1>1. /\ reply' = [reply EXCEPT ![r] = headed] /\ ctx' = [ctx EXCEPT ![r][depth[r]] = None]
      /\ Return(r) /\ UNCHANGED <<shared, ask, way, named, lines, past>>
  BY DEF Unbind, StackInv, FormOK
<1>2. /\ headed \in Replies
      /\ headed.status = reply[r].status /\ headed.body = reply[r].body
      /\ headed.id = named[r] /\ headed.version = reply[r].version
  BY DEF StackInv, FormOK, Replies
<1>3. ctx' \in [Requests -> [1..Bottom -> Ids \cup {None}]]
  BY <1>1 DEF StackInv, FormOK
<1> HIDE DEF headed
<1>4. /\ FormOK' /\ Step(r) /\ Position(r)' /\ Current(r)'
      /\ CounterOK' /\ \A q \in Requests : Statistics(q)'
      /\ depth'[r] = depth[r] - 1 /\ reply'[r] = headed
  BY <1>0, <1>1, <1>2, <1>3, Headed DEF SameLines, StackInv, FormOK
<1>5. Identified(r)'
  BY <1>0, <1>1, <1>2, <1>4 DEF StackInv, Identified, Passed, CorrelationAt, VersionAt
<1>6. Logged(r)'
  BY <1>0, <1>1, <1>2, <1>4, HeadedLogged DEF LogAt
<1> QED  BY <1>4, <1>5, <1>6, Joined

LEMMA CountedKeeps ==
  ASSUME StackInv, NEW r \in Requests, Counted(r)
  PROVE  StackInv'
<1>0. way[r] = "out" /\ depth[r] = 4 /\ depth[r] # 1
  BY InLayer DEF Counted, CountAt
<1>1. Return(r) /\ UNCHANGED <<shared, ask, way, ctx, named, reply, lines, past>>
  BY DEF Counted
<1>2. /\ reply[r] \in Replies
      /\ reply' = [reply EXCEPT ![r] = reply[r]]
      /\ ctx' \in [Requests -> [1..Bottom -> Ids \cup {None}]]
  BY <1>1 DEF StackInv, FormOK
<1>4. /\ FormOK' /\ Step(r) /\ Position(r)' /\ Current(r)'
      /\ CounterOK' /\ \A q \in Requests : Statistics(q)'
      /\ depth'[r] = depth[r] - 1 /\ reply'[r] = reply[r]
  BY <1>0, <1>1, <1>2, Headed DEF SameLines, StackInv, FormOK
<1>5. Identified(r)'
  BY <1>0, <1>1, <1>4 DEF StackInv, Identified, Passed, CorrelationAt, VersionAt
<1>6. Logged(r)'
  BY <1>0, <1>1, <1>4, HeadedLogged DEF LogAt
<1> QED  BY <1>4, <1>5, <1>6, Joined

LEMMA AddVersionKeeps ==
  ASSUME StackInv, NEW r \in Requests, AddVersion(r)
  PROVE  StackInv'
<1> DEFINE headed == [reply[r] EXCEPT !.version = TRUE]
<1>0. way[r] = "out" /\ depth[r] = 2 /\ depth[r] # 1
  BY InLayer DEF AddVersion, VersionAt
<1>1. /\ reply' = [reply EXCEPT ![r] = headed]
      /\ Return(r) /\ UNCHANGED <<shared, ask, way, ctx, named, lines, past>>
  BY DEF AddVersion, StackInv, FormOK
<1>2. /\ headed \in Replies
      /\ headed.status = reply[r].status /\ headed.body = reply[r].body
      /\ headed.id = reply[r].id /\ headed.version
      /\ ctx' \in [Requests -> [1..Bottom -> Ids \cup {None}]]
  BY <1>1 DEF StackInv, FormOK, Replies
<1> HIDE DEF headed
<1>4. /\ FormOK' /\ Step(r) /\ Position(r)' /\ Current(r)'
      /\ CounterOK' /\ \A q \in Requests : Statistics(q)'
      /\ depth'[r] = depth[r] - 1 /\ reply'[r] = headed
  BY <1>0, <1>1, <1>2, Headed DEF SameLines, StackInv, FormOK
<1>5. Identified(r)'
  BY <1>0, <1>1, <1>2, <1>4 DEF StackInv, Identified, Passed, CorrelationAt, VersionAt
<1>6. Logged(r)'
  BY <1>0, <1>1, <1>2, <1>4, HeadedLogged DEF LogAt
<1> QED  BY <1>4, <1>5, <1>6, Joined

LEMMA LogEndKeeps ==
  ASSUME StackInv, NEW r \in Requests, LogEnd(r)
  PROVE  StackInv'
<1>0. way[r] = "out" /\ depth[r] = 3 /\ depth[r] # 1
  BY InLayer DEF LogEnd, LogAt
<1>1. /\ Return(r) /\ Write(r, "request_completed", reply[r].status)
      /\ UNCHANGED <<shared, ask, way, ctx, named, reply, past>>
  BY DEF LogEnd
<1>2. /\ reply[r] \in Replies
      /\ reply[r].status \in Nat
      /\ reply' = [reply EXCEPT ![r] = reply[r]]
      /\ ctx' \in [Requests -> [1..Bottom -> Ids \cup {None}]]
  BY <1>1 DEF StackInv, FormOK, Replies
<1>3. /\ \A q \in Requests \ {r} : SameLines(q)
      /\ lines' \subseteq Lines
      /\ ask[r].kind # "health" => \E l :
           /\ l.event = "request_completed" /\ l.request = r /\ l.status = reply[r].status
           /\ lines' = lines \cup {l}
  BY <1>0, <1>1, <1>2, Written, StackIs DEF StackInv, Events
<1>4. /\ FormOK' /\ Step(r) /\ Position(r)' /\ Current(r)'
      /\ CounterOK' /\ \A q \in Requests : Statistics(q)'
      /\ depth'[r] = depth[r] - 1 /\ reply'[r] = reply[r]
  BY <1>0, <1>1, <1>2, <1>3, Headed
<1>5. Identified(r)'
  BY <1>0, <1>1, <1>4 DEF StackInv, Identified, Passed, CorrelationAt, VersionAt
<1>6. Logged(r)'
  <2> SUFFICES ASSUME ask[r].kind # "health"
               PROVE  Started(r)' /\ Completed(r, reply[r].status)'
    BY <1>0, <1>1, <1>4 DEF Logged, Left, LogAt
  <2>1. Ends(r) = {} /\ Started(r)
    BY <1>0 DEF StackInv, Logged, Left, LogAt, Passed
  <2>2. PICK l : /\ l.event = "request_completed" /\ l.request = r
                 /\ l.status = reply[r].status /\ lines' = lines \cup {l}
    BY <1>3
  <2>3. Ends(r)' = {l} /\ Started(r)'
    BY <2>1, <2>2 DEF Ends, Started
  <2> QED  BY <1>1, <2>2, <2>3 DEF Completed
<1> QED  BY <1>4, <1>5, <1>6, Joined

-----------------------------------------------------------------------------
\* The other ways on: an exception, or the answer.
LEMMA Moved ==
  ASSUME StackInv, NEW r \in Requests, Passed(r, CountAt), way[r] # "done",
         NEW w \in {"out", "raise", "done"}, way' = [way EXCEPT ![r] = w],
         NEW e \in 0..6, depth' = [depth EXCEPT ![r] = e],
         NEW answer \in Replies,
         reply' = [reply EXCEPT ![r] = answer],
         Told(r)' => Told(r) /\ reply'[r].body = reply[r].body,
         UNCHANGED <<shared, ask, ctx, named, past>>,
         lines' \subseteq Lines,
         \A q \in Requests \ {r} : SameLines(q)
  PROVE  /\ FormOK' /\ Step(r) /\ CounterOK' /\ \A q \in Requests : Statistics(q)'
         /\ way'[r] = w /\ depth'[r] = e /\ reply'[r] = answer
<1>1. FormOK
  BY DEF StackInv
<1>2. way'[r] = w /\ depth'[r] = e /\ reply'[r] = answer
  BY <1>1 DEF FormOK
<1>3. FormOK'
  BY <1>1, StackIs DEF FormOK
<1>4. Step(r)
  BY <1>1, Quiet DEF FormOK
<1>5. CounterOK' /\ \A q \in Requests : Statistics(q)'
  BY <1>1, LeavingCounted DEF FormOK
<1> QED  BY <1>2, <1>3, <1>4, <1>5

\* With its response as it is.
LEMMA MovedOn ==
  ASSUME StackInv, NEW r \in Requests, Passed(r, CountAt), way[r] # "done",
         way' = [way EXCEPT ![r] = "raise"],
         NEW e \in 0..6, depth' = [depth EXCEPT ![r] = e],
         UNCHANGED <<shared, ask, ctx, named, reply, past>>,
         lines' \subseteq Lines, \A q \in Requests \ {r} : SameLines(q)
  PROVE  /\ FormOK' /\ Step(r) /\ CounterOK' /\ \A q \in Requests : Statistics(q)'
         /\ way'[r] = "raise" /\ depth'[r] = e
<1>1. reply[r] \in Replies /\ reply' = [reply EXCEPT ![r] = reply[r]]
  BY DEF StackInv, FormOK
<1>2. ~Told(r)'
  BY DEF StackInv, FormOK, Told
<1> QED  BY <1>1, <1>2, Moved

LEMMA RaisingOK ==
  ASSUME StackInv, NEW r \in Requests, way'[r] = "raise", UNCHANGED <<doc, seen, ask, named>>,
         way[r] \in {"in", "out", "raise"}, Passed(r, CorrelationAt), depth'[r] \in 0..5
  PROVE  Position(r)' /\ Identified(r)' /\ Current(r)'
<1>1. Position(r) /\ Identified(r) /\ Current(r)
  BY DEF StackInv
<1>2. Passed(r, CorrelationAt)'
  BY DEF Passed
<1> QED  BY <1>1, <1>2, StackIs DEF Position, Identified, Current

LEMMA Form ==
  ASSUME StackInv, NEW r \in Requests
  PROVE  /\ FormOK /\ Position(r)
         /\ way[r] \in {"idle", "in", "out", "raise", "done"} /\ depth[r] \in 0..6
         /\ reply[r] \in Replies
         /\ reply = [reply EXCEPT ![r] = reply[r]] /\ way = [way EXCEPT ![r] = way[r]]
         /\ lines \subseteq Lines
  BY StackIs DEF StackInv, FormOK

LEMMA RaiseKeeps ==
  ASSUME StackInv, NEW r \in Requests, Raise(r)
  PROVE  StackInv'
<1>1. /\ way[r] = "in" /\ depth[r] = 6 /\ way' = [way EXCEPT ![r] = "raise"] /\ Return(r)
      /\ UNCHANGED <<shared, ask, ctx, named, reply, lines, past>>
  BY StackIs DEF Raise
<1>2. depth' = [depth EXCEPT ![r] = 5] /\ 5 \in 0..6
  BY <1>1 DEF Return
<1>3. Passed(r, CountAt) /\ Passed(r, CorrelationAt)
  BY <1>1 DEF Passed, CountAt, CorrelationAt
<1>4. way'[r] = "raise" /\ ~Told(r)' /\ lines' \subseteq Lines /\ \A q : SameLines(q)
  BY <1>1, Form DEF Told, FormOK, SameLines
<1>5. /\ FormOK' /\ Step(r) /\ CounterOK' /\ \A q \in Requests : Statistics(q)'
      /\ depth'[r] = 5
  BY <1>1, <1>2, <1>3, <1>4, MovedOn
<1>6. Position(r)' /\ Identified(r)' /\ Current(r)'
  BY <1>1, <1>3, <1>4, <1>5, RaisingOK
<1>7. Logged(r)'
  <2>1. Ends(r)' = Ends(r) /\ Started(r)' = Started(r)
    BY <1>4, LinesSame
  <2>2. ask[r].kind # "health" => Started(r) /\ Ends(r) = {}
    BY <1>1 DEF StackInv, Logged, Passed, Left, LogAt
  <2> QED  BY <1>1, <1>4, <1>5, <2>1, <2>2 DEF Logged, Left, LogAt
<1> QED  BY <1>5, <1>6, <1>7, Joined

LEMMA PropagateKeeps ==
  ASSUME StackInv, NEW r \in Requests, Propagate(r)
  PROVE  StackInv'
<1>1. /\ way[r] = "raise" /\ depth[r] \in {1, 2, 4, 5} /\ Return(r)
      /\ UNCHANGED <<shared, ask, way, ctx, named, reply, lines, past>>
  BY InLayer DEF Propagate, VersionAt, CountAt, CorrelationAt
<1>2. depth' = [depth EXCEPT ![r] = depth[r] - 1] /\ depth[r] - 1 \in 0..6
  BY <1>1 DEF Return
<1>3. Passed(r, CountAt) /\ Passed(r, CorrelationAt) /\ way' = [way EXCEPT ![r] = "raise"]
  BY <1>1, Form DEF Passed
<1>4. way'[r] = "raise" /\ ~Told(r)' /\ lines' \subseteq Lines /\ \A q : SameLines(q)
  BY <1>1, Form DEF Told, SameLines
<1>5. /\ FormOK' /\ Step(r) /\ CounterOK' /\ \A q \in Requests : Statistics(q)'
      /\ depth'[r] = depth[r] - 1
  BY <1>1, <1>2, <1>3, <1>4, MovedOn
<1>6. Position(r)' /\ Identified(r)' /\ Current(r)'
  BY <1>1, <1>3, <1>4, <1>5, RaisingOK
<1>7. Logged(r)'
  <2>1. Ends(r)' = Ends(r) /\ Started(r)' = Started(r)
    BY <1>4, LinesSame
  <2>2. Left(r, LogAt)' = Left(r, LogAt) /\ Passed(r, LogAt) /\ Conditional(r)' = Conditional(r)
    BY <1>1, <1>4, <1>5 DEF Left, LogAt, Passed, Conditional
  <2>3. Logged(r)
    BY DEF StackInv
  <2> QED  BY <1>1, <1>4, <2>1, <2>2, <2>3 DEF Logged, Failed, CompletedAny
<1> QED  BY <1>5, <1>6, <1>7, Joined

LEMMA MishandleKeeps ==
  ASSUME StackInv, NEW r \in Requests, Mishandle(r)
  PROVE  StackInv'
<1>1. /\ way[r] = "out" /\ depth[r] = 1 /\ way' = [way EXCEPT ![r] = "raise"] /\ Return(r)
      /\ Conditional(r) /\ ask[r].tag = Malformed
      /\ UNCHANGED <<shared, ask, ctx, named, reply, lines, past>>
  BY InLayer DEF Mishandle
<1>2. depth' = [depth EXCEPT ![r] = 0] /\ 0 \in 0..6
  BY <1>1 DEF Return
<1>3. Passed(r, CountAt) /\ Passed(r, CorrelationAt)
  BY <1>1 DEF Passed
<1>4. way'[r] = "raise" /\ ~Told(r)' /\ lines' \subseteq Lines /\ \A q : SameLines(q)
  BY <1>1, Form DEF Told, FormOK, SameLines
<1>5. /\ FormOK' /\ Step(r) /\ CounterOK' /\ \A q \in Requests : Statistics(q)'
      /\ depth'[r] = 0
  BY <1>1, <1>2, <1>3, <1>4, MovedOn
<1>6. Position(r)' /\ Identified(r)' /\ Current(r)'
  BY <1>1, <1>3, <1>4, <1>5, RaisingOK
<1>7. Logged(r)'
  <2>1. Ends(r)' = Ends(r) /\ Started(r)' = Started(r) /\ Conditional(r)'
    BY <1>1, <1>4, LinesSame DEF Conditional
  <2>2. ask[r].kind # "health" => Started(r) /\ CompletedAny(r)
    BY <1>1 DEF StackInv, Logged, Passed, Left, LogAt, Completed, CompletedAny
  <2>3. Left(r, LogAt)'
    BY <1>4, <1>5 DEF Left, LogAt
  <2> QED  BY <1>1, <1>4, <2>1, <2>2, <2>3 DEF Logged, CompletedAny
<1> QED  BY <1>5, <1>6, <1>7, Joined

LEMMA LogErrorKeeps ==
  ASSUME StackInv, NEW r \in Requests, LogError(r)
  PROVE  StackInv'
<1>1. /\ way[r] = "raise" /\ depth[r] = 3 /\ Return(r) /\ Write(r, "request_error", 0)
      /\ UNCHANGED <<shared, ask, way, ctx, named, reply, past>>
  BY InLayer DEF LogError, LogAt
<1>2. depth' = [depth EXCEPT ![r] = 2] /\ 2 \in 0..6
  BY <1>1 DEF Return
<1>3. Passed(r, CountAt) /\ Passed(r, CorrelationAt) /\ way' = [way EXCEPT ![r] = "raise"]
  BY <1>1, Form DEF Passed
<1>4. way'[r] = "raise" /\ ~Told(r)'
  BY <1>1 DEF Told
<1>w. /\ \A q \in Requests \ {r} : SameLines(q)
      /\ lines' \subseteq Lines
      /\ ask[r].kind # "health" => \E l :
           /\ l.event = "request_error" /\ l.request = r /\ l.status = 0
           /\ lines' = lines \cup {l}
  BY <1>1, Form, Written, StackIs DEF Events
<1>5. /\ FormOK' /\ Step(r) /\ CounterOK' /\ \A q \in Requests : Statistics(q)'
      /\ depth'[r] = 2
  BY <1>1, <1>2, <1>3, <1>4, <1>w, MovedOn
<1>6. Position(r)' /\ Identified(r)' /\ Current(r)'
  BY <1>1, <1>3, <1>4, <1>5, RaisingOK
<1>7. Logged(r)'
  <2> SUFFICES ASSUME ask[r].kind # "health"
               PROVE  Started(r)' /\ Failed(r)'
    BY <1>1, <1>4, <1>5 DEF Logged, Left, LogAt
  <2>1. Ends(r) = {} /\ Started(r)
    BY <1>1 DEF StackInv, Logged, Left, LogAt, Passed
  <2>2. PICK l : /\ l.event = "request_error" /\ l.request = r /\ lines' = lines \cup {l}
    BY <1>w
  <2>3. Ends(r)' = {l} /\ Started(r)'
    BY <2>1, <2>2 DEF Ends, Started
  <2> QED  BY <2>2, <2>3 DEF Failed
<1> QED  BY <1>5, <1>6, <1>7, Joined

LEMMA BareError ==
  ASSUME NEW answer, answer = [NoReply EXCEPT !.status = 500]
  PROVE  answer = [status |-> 500, body |-> None, version |-> FALSE, id |-> None]
  BY DEF NoReply

LEMMA NotModified ==
  ASSUME NEW given \in Replies, NEW answer,
         answer = [given EXCEPT !.status = 304, !.body = None]
  PROVE  answer = [status |-> 304, body |-> None, version |-> given.version, id |-> given.id]
  BY DEF Replies

LEMMA ServerErrorKeeps ==
  ASSUME StackInv, NEW r \in Requests, ServerError(r)
  PROVE  StackInv'
<1>1. /\ way[r] = "raise" /\ depth[r] = 0 /\ way' = [way EXCEPT ![r] = "done"]
      /\ UNCHANGED <<shared, ask, depth, ctx, named, lines, past>>
  BY DEF ServerError
<1>2. PICK answer : /\ reply' = [reply EXCEPT ![r] = answer]
                    /\ answer = [status |-> 500, body |-> None, version |-> FALSE, id |-> None]
  <2>1. PICK bare : reply' = [reply EXCEPT ![r] = bare] /\ bare = [NoReply EXCEPT !.status = 500]
    BY Zenon DEF ServerError
  <2>2. bare = [status |-> 500, body |-> None, version |-> FALSE, id |-> None]
    <3>1. bare = [NoReply EXCEPT !.status = 500]
      BY <2>1
    <3> QED  BY <3>1 DEF NoReply
  <2> QED  BY Zenon, <2>1, <2>2
<1>a. answer \in Replies /\ answer.status = 500 /\ ~answer.version /\ answer.id = None
  <2>1. None \in Bodies
    BY DEF Bodies
  <2> QED  BY <1>2, <2>1 DEF Replies
<1>r. reply' = [reply EXCEPT ![r] = answer]
  BY <1>2
<1>3. Passed(r, CountAt) /\ depth' = [depth EXCEPT ![r] = 0] /\ 0 \in 0..6 /\ lines' \subseteq Lines
      /\ \A q : SameLines(q)
  BY <1>1, Form DEF Passed, SameLines, FormOK
<1>4. reply'[r] = answer /\ ~Told(r)'
  BY <1>1, <1>a, <1>r, Form DEF Told, FormOK
<1>5. /\ FormOK' /\ Step(r) /\ CounterOK' /\ \A q \in Requests : Statistics(q)'
      /\ way'[r] = "done" /\ depth'[r] = 0
  <2>1. Told(r)' => Told(r) /\ reply'[r].body = reply[r].body
    BY <1>4
  <2>2. /\ UNCHANGED <<shared, ask, ctx, named, past>>
        /\ way[r] # "done" /\ way' = [way EXCEPT ![r] = "done"]
    BY <1>1
  <2>3. answer \in Replies
    BY <1>a
  <2> QED  BY <1>r, <1>3, <2>1, <2>2, <2>3, Moved
<1>6. Position(r)' /\ Identified(r)' /\ Current(r)'
  BY <1>1, <1>a, <1>4, <1>5, StackIs DEF StackInv, Position, Identified, Current, Passed
<1>7. Logged(r)'
  <2>1. Ends(r)' = Ends(r) /\ Started(r)' = Started(r) /\ Conditional(r)' = Conditional(r)
    BY <1>1, <1>3, LinesSame DEF Conditional
  <2>2. ask[r].kind # "health" =>
          Started(r) /\ (Failed(r) \/ (CompletedAny(r) /\ Conditional(r) /\ ask[r].tag = Malformed))
    BY <1>1 DEF StackInv, Logged, Passed, Left, LogAt
  <2> QED  BY <1>1, <1>a, <1>4, <1>5, <2>1, <2>2 DEF Logged, Failed, CompletedAny
<1> QED  BY <1>5, <1>6, <1>7, Joined

\* What has the layers' headers is sent with them.
LEMMA Sent ==
  ASSUME StackInv, NEW r \in Requests, In(r, "etag", "out"),
         NEW answer \in Replies,
         Send(r, answer), answer.version = reply[r].version, answer.id = reply[r].id,
         answer.status = 200 => answer.status = reply[r].status /\ answer.body = reply[r].body
  PROVE  /\ FormOK' /\ Step(r) /\ CounterOK' /\ \A q \in Requests : Statistics(q)'
         /\ Position(r)' /\ Identified(r)'
         /\ way[r] = "out" /\ depth[r] = 1 /\ way'[r] = "done" /\ reply'[r] = answer
         /\ UNCHANGED <<ask, seen>>
         /\ Ends(r)' = Ends(r) /\ Started(r)' = Started(r) /\ Conditional(r)' = Conditional(r)
         /\ ask[r].kind # "health" => Started(r) /\ Completed(r, reply[r].status)
<1>1. /\ way[r] = "out" /\ depth[r] = 1 /\ way' = [way EXCEPT ![r] = "done"]
      /\ reply' = [reply EXCEPT ![r] = answer] /\ Return(r)
      /\ UNCHANGED <<shared, ask, ctx, named, lines, past>>
  BY InLayer DEF Send
<1>2. depth' = [depth EXCEPT ![r] = 0] /\ 0 \in 0..6 /\ Passed(r, CountAt) /\ lines' \subseteq Lines /\ \A q : SameLines(q)
  BY <1>1, Form DEF Return, Passed, SameLines
<1>3. way'[r] = "done" /\ reply'[r] = answer /\ (Told(r)' => Told(r) /\ reply'[r].body = reply[r].body)
  BY <1>1, Form DEF Told, FormOK
<1>4. /\ FormOK' /\ Step(r) /\ CounterOK' /\ \A q \in Requests : Statistics(q)'
      /\ depth'[r] = 0
  BY <1>1, <1>2, <1>3, Moved
<1>5. Position(r)'
  BY <1>1, <1>3, <1>4, StackIs DEF StackInv, Position
<1>6. Identified(r)'
  <2>1. Identified(r) /\ Passed(r, CorrelationAt) /\ Passed(r, CorrelationAt)'
    BY <1>1, <1>3 DEF StackInv, Passed
  <2>2. /\ named[r] # None /\ reply[r].version /\ reply[r].id = named[r]
        /\ ask[r].id \in {None, named[r]}
    BY <1>1, <2>1 DEF Identified, CorrelationAt, VersionAt
  <2>3. /\ reply'[r].version = reply[r].version /\ reply'[r].id = reply[r].id
        /\ named'[r] = named[r] /\ ask'[r] = ask[r] /\ way'[r] = "done"
    BY <1>1, <1>3
  <2> QED  BY <2>1, <2>2, <2>3 DEF Identified
<1>7. Ends(r)' = Ends(r) /\ Started(r)' = Started(r) /\ Conditional(r)' = Conditional(r)
  BY <1>1, <1>2, LinesSame DEF Conditional
<1>8. ask[r].kind # "health" => Started(r) /\ Completed(r, reply[r].status)
  BY <1>1 DEF StackInv, Logged, Passed, Left, LogAt
<1> QED  BY <1>1, <1>3, <1>4, <1>5, <1>6, <1>7, <1>8

LEMMA SendFullKeeps ==
  ASSUME StackInv, NEW r \in Requests, SendFull(r)
  PROVE  StackInv'
<1>1. In(r, "etag", "out") /\ Send(r, reply[r])
  BY DEF SendFull
<1>2. /\ FormOK' /\ Step(r) /\ CounterOK' /\ \A q \in Requests : Statistics(q)'
      /\ Position(r)' /\ Identified(r)'
      /\ way[r] = "out" /\ depth[r] = 1 /\ way'[r] = "done" /\ reply'[r] = reply[r]
      /\ UNCHANGED <<ask, seen>>
      /\ Ends(r)' = Ends(r) /\ Started(r)' = Started(r)
      /\ ask[r].kind # "health" => Started(r) /\ Completed(r, reply[r].status)
  BY <1>1, Form, Sent
<1>3. Current(r)'
  BY <1>2 DEF StackInv, Current
<1>4. Logged(r)'
  <2>1. ask[r].kind = "get" => reply[r].status # 304
    BY <1>2 DEF StackInv, Current
  <2> QED  BY <1>2, <2>1 DEF Logged, Completed, Passed
<1> QED  BY <1>2, <1>3, <1>4, Joined

LEMMA SendNotModifiedKeeps ==
  ASSUME StackInv, NEW r \in Requests, SendNotModified(r)
  PROVE  StackInv'
<1>1. PICK answer : /\ Send(r, answer)
                    /\ answer = [status |-> 304, body |-> None,
                                 version |-> reply[r].version, id |-> reply[r].id]
  <2>1. PICK given, sent : /\ given = reply[r] /\ Send(r, sent)
                           /\ sent = [given EXCEPT !.status = 304, !.body = None]
    BY Zenon DEF SendNotModified
  <2>2. given \in Replies
    BY <2>1, Form
  <2>3. sent = [status |-> 304, body |-> None, version |-> given.version, id |-> given.id]
    <3>1. sent = [given EXCEPT !.status = 304, !.body = None]
      BY <2>1
    <3> QED  BY <3>1, <2>2 DEF Replies
  <2> QED  BY Zenon, <2>1, <2>3
<1>2. /\ answer \in Replies /\ answer.status = 304
      /\ answer.version = reply[r].version /\ answer.id = reply[r].id
  <2>1. None \in Bodies /\ reply[r] \in Replies
    BY Form DEF Bodies
  <2> QED  BY <1>1, <2>1 DEF Replies
<1>3. Send(r, answer) /\ In(r, "etag", "out") /\ Conditional(r)
      /\ ask[r].tag # Malformed /\ Matches(r)
  BY <1>1 DEF SendNotModified
<1>4. /\ FormOK' /\ Step(r) /\ CounterOK' /\ \A q \in Requests : Statistics(q)'
      /\ Position(r)' /\ Identified(r)'
      /\ way[r] = "out" /\ depth[r] = 1 /\ way'[r] = "done" /\ reply'[r] = answer
      /\ UNCHANGED <<ask, seen>>
      /\ Ends(r)' = Ends(r) /\ Started(r)' = Started(r) /\ Conditional(r)' = Conditional(r)
      /\ ask[r].kind # "health" => Started(r) /\ Completed(r, reply[r].status)
  <2>1. answer.status = 200 => answer.status = reply[r].status /\ answer.body = reply[r].body
    BY <1>2
  <2> QED  BY <1>2, <1>3, <2>1, Sent
<1>5. Current(r)'
  <2>1. ask[r].kind = "get" => ask[r].tag \in {Star, Down} \/ ask[r].tag \in seen[r]
    BY <1>3, <1>4 DEF StackInv, Current, Matches
  <2> QED  BY <1>2, <1>4, <2>1 DEF Current
<1>6. Logged(r)'
  <2>1. ask[r].kind = "get" =>
          Completed(r, 503) \/ ask[r].tag = Star \/ ask[r].tag \in seen[r]
    BY <1>3, <1>4 DEF StackInv, Current, Matches
  <2> QED  BY <1>2, <1>3, <1>4, <2>1 DEF Logged, Completed, CompletedAny, Passed
<1> QED  BY <1>4, <1>5, <1>6, Joined

-----------------------------------------------------------------------------
LEMMA InitOK == Init => StackInv
<1> SUFFICES ASSUME Init
             PROVE  StackInv
  OBVIOUS
<1> USE DEF Init
<1>1. FormOK
  <2>1. NoReply \in Replies
    BY DEF NoReply, Replies, Bodies
  <2> QED  BY <2>1, StackIs DEF FormOK
<1>2. OwnIds
  BY DEF OwnIds
<1>3. \A r \in Requests : ~Passed(r, CountAt) /\ ~Passed(r, CorrelationAt) /\ ~Told(r)
  BY DEF Passed, Told
<1>4. CounterOK
  <2>1. {r \in Requests : Passed(r, CountAt)} = {}
    BY <1>3
  <2> QED  BY <1>3, <2>1, FS_EmptySet DEF CounterOK
<1>5. \A r \in Requests : Position(r) /\ Identified(r) /\ Current(r)
  BY <1>3, StackIs DEF Position, Identified, Current
<1>6. \A r \in Requests : Statistics(r) /\ Logged(r)
  BY <1>3 DEF Statistics, Logged, Ends
<1> QED  BY <1>1, <1>2, <1>4, <1>5, <1>6 DEF StackInv

LEMMA StepOK == StackInv /\ [Next]_vars => StackInv'
<1> SUFFICES ASSUME StackInv, [Next]_vars
             PROVE  StackInv'
  OBVIOUS
<1>1. ASSUME NEW r \in Requests,
             \/ Arrive(r) \/ Forward(r) \/ LogStart(r) \/ Count(r) \/ Bind(r)
             \/ Get(r) \/ Delete(r) \/ Unavailable(r) \/ Stats(r) \/ Health(r) \/ Raise(r)
             \/ Unbind(r) \/ Counted(r) \/ LogEnd(r) \/ AddVersion(r) \/ LogError(r)
             \/ Propagate(r) \/ ServerError(r) \/ SendFull(r) \/ SendNotModified(r) \/ Mishandle(r)
      PROVE  StackInv'
  BY <1>1, ArriveKeeps, ForwardKeeps, LogStartKeeps, CountKeeps, BindKeeps, GetKeeps, DeleteKeeps,
     UnavailableKeeps, StatsKeeps, HealthKeeps, RaiseKeeps, UnbindKeeps, CountedKeeps, LogEndKeeps, AddVersionKeeps,
     LogErrorKeeps, PropagateKeeps, ServerErrorKeeps, SendFullKeeps, SendNotModifiedKeeps,
     MishandleKeeps
<1>2. ASSUME NEW u \in Users, Change(u)
      PROVE  StackInv'
  BY <1>2, ChangeKeeps
<1>3. CASE UNCHANGED vars
  <2>1. FormOK' /\ OwnIds' /\ CounterOK'
    BY <1>3 DEF vars, StackInv, FormOK, OwnIds, CounterOK, Passed
  <2>2. \A r \in Requests : Same(r) /\ SameLines(r) /\ Sees(r)
    BY <1>3 DEF vars, Same, SameLines, Sees, StackInv, Current
  <2>3. \A r \in Requests : Statistics(r)'
    BY <1>3, UncountedKeeps DEF vars, Uncounted, Passed, Told
  <2>4. \A r \in Requests : Position(r)' /\ Identified(r)' /\ Current(r)' /\ Logged(r)'
    BY <2>2, OtherKept
  <2> QED  BY <2>1, <2>3, <2>4 DEF StackInv
<1> QED  BY <1>1, <1>2, <1>3 DEF Next, Finished

\* The layers leave behind what the invariant says, whatever comes in between.
THEOREM StackInductive == Spec => []StackInv
  BY InitOK, StepOK, PTL DEF Spec

-----------------------------------------------------------------------------
\* The state is well formed, and a response that is not a 500 carries the version header
\* and its own correlation id; no two requests are given one generated id.
THEOREM Typed == Spec => []TypeOK
<1>1. StackInv => TypeOK
  <2> SUFFICES ASSUME StackInv
               PROVE  TypeOK
    OBVIOUS
  <2>1. served \in 0..Cardinality(Requests)
    <3> DEFINE P == {r \in Requests : Passed(r, CountAt)}
    <3>1. IsFiniteSet(Requests) /\ Cardinality(Requests) \in Nat /\ Cardinality(P) \in Nat
      BY MiddlewareConstants, CountersFinite
    <3>2. Cardinality(P) <= Cardinality(Requests)
      BY <3>1, FS_Subset
    <3> QED  BY <3>1, <3>2 DEF StackInv, CounterOK
  <2>2. \A r \in Requests : Identified(r)
    BY DEF StackInv
  <2> QED  BY <2>1, <2>2 DEF StackInv, FormOK, OwnIds, Identified, TypeOK
<1> QED  BY <1>1, StackInductive, PTL

\* However the account changes while a GET is under way, it is answered with a document
\* the account has had meanwhile; a 304 stands for one of those, or for the 503 with which
\* the route answered, unless the wildcard was sent.
THEOREM Representation == Spec => []RepresentationCurrent
<1>1. StackInv => RepresentationCurrent
  <2> SUFFICES ASSUME StackInv, NEW r \in Requests, Done(r), ask[r].kind = "get",
                      reply[r].status = 304, ask[r].tag # Star, ask[r].tag \notin seen[r]
               PROVE  ask[r].tag = Down /\ LoggedAs(r, 503)
    BY DEF StackInv, Current, RepresentationCurrent
  <2>1. ask[r].tag = Down
    BY DEF StackInv, Current
  <2>2. Completed(r, 503)
    BY DEF StackInv, Logged
  <2> QED  BY <2>1, <2>2 DEF Completed, Ends, LoggedAs
<1> QED  BY <1>1, StackInductive, PTL

\* Each /stats counts itself and all that were answered before it came, nothing that has
\* not come, and more than each /stats answered before it; their first request is one.
THEOREM StatisticsCount == Spec => []StatsCountRequests
<1>1. StackInv => StatsCountRequests
  <2> SUFFICES ASSUME StackInv, NEW r \in Requests,
                      Done(r), ask[r].kind = "stats", reply[r].status = 200
               PROVE  /\ reply[r].body.served > Cardinality(before[r])
                      /\ reply[r].body.served <= Cardinality({q \in Requests : way[q] # "idle"})
                      /\ reply[r].body.first = first
                      /\ \A q \in before[r] : ask[q].kind = "stats" /\ reply[q].status = 200 =>
                           reply[q].body.served < reply[r].body.served
    BY DEF StatsCountRequests
  <2> DEFINE P == {q \in Requests : Passed(q, CountAt)}
             Q == {q \in Requests : way[q] # "idle"}
  <2>1. Told(r) /\ Statistics(r) /\ before[r] \subseteq Requests /\ served = Cardinality(P)
    BY DEF Told, StackInv, CounterOK, FormOK
  <2>2. Cardinality(P) <= Cardinality(Q) /\ Cardinality(P) \in Nat /\ Cardinality(Q) \in Nat
    <3>1. P \subseteq Q
      BY DEF Passed
    <3>2. IsFiniteSet(Q) /\ Cardinality(P) \in Nat /\ Cardinality(Q) \in Nat
      BY CountersFinite
    <3> QED  BY <3>1, <3>2, FS_Subset
  <2>3. /\ reply[r].body \in [served : Nat, first : Requests] /\ reply[r].body.served <= served
        /\ reply[r].body.first = first /\ reply[r].body.served > Cardinality(before[r])
        /\ \A q \in before[r] : Told(q) => reply[q].body.served < reply[r].body.served
        /\ \A q \in before[r] : Done(q)
    BY <2>1 DEF Statistics
  <2>4. reply[r].body.served <= Cardinality(Q)
    BY <2>1, <2>2, <2>3
  <2> QED  BY <2>3, <2>4 DEF Told
<1> QED  BY <1>1, StackInductive, PTL

\* The log has one start and one end of each answered request but the probes, and the
\* end tells what the route's response or error was.
THEOREM LogTells == Spec => []LogTellsOutcome
<1>1. StackInv => LogTellsOutcome
  <2> SUFFICES ASSUME StackInv, NEW r \in Requests, Done(r), ask[r].kind # "health"
               PROVE  /\ Started(r) /\ Cardinality(Ends(r)) = 1
                      /\ \A l \in Ends(r) :
                           \/ l.event = "request_error" /\ reply[r].status = 500
                           \/ l.event = "request_completed" /\ reply[r].status = l.status
                           \/ l.event = "request_completed" /\ Conditional(r)
                              /\ reply[r].status = IF ask[r].tag = Malformed THEN 500 ELSE 304
    BY DEF LogTellsOutcome, Started, Ends
  <2>1. Logged(r) /\ Passed(r, LogAt)
    BY DEF StackInv, Passed
  <2>2. \E l : Ends(r) = {l}
    BY <2>1 DEF Logged, Failed, Completed, CompletedAny
  <2>3. Cardinality(Ends(r)) = 1
    BY <2>2, FS_Singleton
  <2> QED  BY <2>1, <2>3 DEF Logged, Failed, Completed, CompletedAny
<1> QED  BY <1>1, StackInductive, PTL
=============================================================================
