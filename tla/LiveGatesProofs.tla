-------------------------- MODULE LiveGatesProofs --------------------------
(***************************************************************************)
(* Proofs about LiveGates: whatever dies in the middle of a migration, the *)
(* schema is whole; and a program that says "green" has asked one process  *)
(* or one database.                                                        *)
(***************************************************************************)
EXTENDS LiveGatesInvariant, TLAPS

-----------------------------------------------------------------------------
\* The requests that a process counts change nothing that the migrations are about.
LEMMA CountedKeeps ==
  ASSUME LifecycleInv, Counted(1), UNCHANGED <<db, tx, left>>, users' \subseteq Nat
  PROVE  LifecycleInv'
<1> USE LifecycleConstants DEF LifecycleInv, Counted
<1>0. app.served + 1 \in 0..MaxServed
  BY DEF LifecycleTypeOK
<1>1. LifecycleTypeOK'
  BY <1>0 DEF LifecycleTypeOK
<1>2. SchemaWhole' /\ VersionLeft' /\ FirstOwn'
  BY DEF LifecycleTypeOK, SchemaWhole, VersionLeft, FirstOwn
<1>3. TxOwned'
  BY DEF LifecycleTypeOK, TxOwned
<1> QED  BY <1>1, <1>2, <1>3

\* A database that starts is empty, and a migration has none to go on with.
LEMMA StartDatabaseKeeps ==
  ASSUME LifecycleInv, StartDatabase
  PROVE  LifecycleInv'
<1> USE LifecycleConstants DEF LifecycleInv, StartDatabase, Empty
<1>1. LifecycleTypeOK'
  BY DEF LifecycleTypeOK, Lives, Schema
<1>2. SchemaWhole'
  <2>1. 1..0 = {}
    OBVIOUS
  <2> QED  BY <2>1 DEF LifecycleTypeOK, SchemaWhole
<1>3. TxOwned' /\ VersionLeft' /\ FirstOwn'
  BY DEF LifecycleTypeOK, TxOwned, VersionLeft, FirstOwn
<1> QED  BY <1>1, <1>2, <1>3

LEMMA StopDatabaseKeeps ==
  ASSUME LifecycleInv, StopDatabase
  PROVE  LifecycleInv'
<1> USE LifecycleConstants DEF LifecycleInv, StopDatabase, Gone
<1>1. LifecycleTypeOK'
  BY DEF LifecycleTypeOK
<1>2. SchemaWhole'
  BY DEF LifecycleTypeOK, SchemaWhole
<1>3. TxOwned' /\ VersionLeft' /\ FirstOwn'
  BY DEF LifecycleTypeOK, TxOwned, VersionLeft, FirstOwn
<1> QED  BY <1>1, <1>2, <1>3

LEMMA UpKeeps ==
  ASSUME LifecycleInv, NEW image \in Images, Up(image)
  PROVE  LifecycleInv'
<1> USE LifecycleConstants DEF LifecycleInv, Up
<1>1. LifecycleTypeOK'
  BY DEF LifecycleTypeOK, Lives
<1>2. SchemaWhole'
  BY DEF LifecycleTypeOK, SchemaWhole
<1>3. TxOwned' /\ VersionLeft' /\ FirstOwn'
  BY DEF LifecycleTypeOK, TxOwned, VersionLeft, FirstOwn
<1> QED  BY <1>1, <1>2, <1>3

\* A schema that is ahead of the image was left by the migrations of a later one.
LEMMA BeginUpgradeKeeps ==
  ASSUME LifecycleInv, BeginUpgrade
  PROVE  LifecycleInv'
<1> USE LifecycleConstants DEF LifecycleInv, BeginUpgrade
<1>0. /\ app.image \in Images /\ HeadOf[app.image] \in Revisions
      /\ db.schema \in Schema /\ db.schema # None /\ tx = None
  BY DEF LifecycleTypeOK, TxOwned
<1>1. CASE db.schema.version <= HeadOf[app.image]
  <2>1. LifecycleTypeOK' /\ VersionLeft' /\ FirstOwn'
    BY <1>0, <1>1 DEF LifecycleTypeOK, VersionLeft, FirstOwn
  <2>2. SchemaWhole'
    BY <1>0, <1>1 DEF LifecycleTypeOK, SchemaWhole
  <2>3. TxOwned'
    BY <1>0, <1>1 DEF LifecycleTypeOK, TxOwned, SchemaWhole
  <2> QED  BY <2>1, <2>2, <2>3
<1>2. CASE ~(db.schema.version <= HeadOf[app.image])
  <2>1. /\ db.schema.version \in 0..4 /\ HeadOf[app.image] \in 1..4
        /\ db.schema.version > HeadOf[app.image] /\ db.schema.version # 0
    BY <1>0, <1>2 DEF Schema, Revisions
  <2>2. /\ app' = [app EXCEPT !.at = "refused", !.engine = FALSE]
        /\ UNCHANGED <<db, left, users, tx>>
    <3>1. app' = [Gone EXCEPT !.at = "refused"] /\ UNCHANGED <<db, left, users, tx>>
      BY <1>2
    <3> QED  BY <3>1 DEF Gone, LifecycleTypeOK
  <2>3. app'.at = "refused" /\ app'.first = app.first /\ app'.life = app.life /\ app'.image = app.image
    BY <2>2 DEF LifecycleTypeOK
  <2> HIDE DEF BeginUpgrade
  <2>4. LifecycleTypeOK'
    BY <2>2 DEF LifecycleTypeOK
  <2>5. VersionLeft' /\ FirstOwn'
    BY <2>2, <2>3 DEF VersionLeft, FirstOwn
  <2>6. TxOwned'
    BY <1>0, <2>2, <2>3 DEF TxOwned
  <2>7. \E later \in left : HeadOf[later] > HeadOf[app.image]
    BY <2>1 DEF VersionLeft
  <2>8. SchemaWhole'
    BY <2>2, <2>7 DEF LifecycleTypeOK, SchemaWhole
  <2> QED  BY <2>4, <2>5, <2>6, <2>8
<1> QED  BY <1>1, <1>2

\* upgrade() and its stamp change the open transaction alone.
LEMMA UpgradeKeeps ==
  ASSUME LifecycleInv, Upgrade
  PROVE  LifecycleInv'
<1> USE LifecycleConstants DEF LifecycleInv, Upgrade
<1>0. /\ app.image \in Images /\ HeadOf[app.image] \in 1..4
      /\ tx \in Schema /\ tx # None /\ tx.version \in 0..3
  BY DEF LifecycleTypeOK, TxOwned, Revisions, Schema
<1>1. tx' \in Schema /\ tx' # None
  BY <1>0 DEF Schema, Revisions
<1>2. LifecycleTypeOK' /\ SchemaWhole' /\ VersionLeft' /\ FirstOwn'
  BY <1>1 DEF LifecycleTypeOK, SchemaWhole, VersionLeft, FirstOwn
<1>3. tx'.made = 1..(tx.version + 1) /\ tx'.version = tx.version
  BY <1>0 DEF TxOwned, Schema
<1>4. TxOwned'
  BY <1>0, <1>1, <1>3 DEF TxOwned, LifecycleTypeOK
<1> QED  BY <1>2, <1>4

LEMMA StampKeeps ==
  ASSUME LifecycleInv, Stamp
  PROVE  LifecycleInv'
<1> USE LifecycleConstants DEF LifecycleInv, Stamp
<1>0. /\ app.image \in Images /\ HeadOf[app.image] \in 1..4
      /\ tx \in Schema /\ tx # None /\ tx.version \in 0..3 /\ tx.version < HeadOf[app.image]
  BY DEF LifecycleTypeOK, TxOwned, Revisions, Schema
<1>1. tx' \in Schema /\ tx' # None
  BY <1>0 DEF Schema
<1>2. LifecycleTypeOK' /\ SchemaWhole' /\ VersionLeft' /\ FirstOwn'
  BY <1>1 DEF LifecycleTypeOK, SchemaWhole, VersionLeft, FirstOwn
<1>3. tx'.made = tx.made /\ tx'.version = tx.version + 1
  BY <1>0 DEF Schema
<1>4. TxOwned'
  BY <1>0, <1>1, <1>3 DEF TxOwned, LifecycleTypeOK
<1> QED  BY <1>2, <1>4

\* The commit makes the whole transaction the schema, at the image's own head.
LEMMA CommitKeeps ==
  ASSUME LifecycleInv, Commit
  PROVE  LifecycleInv'
<1> USE LifecycleConstants DEF LifecycleInv, Commit
<1>0. /\ app.image \in Images /\ tx \in Schema /\ tx.version = HeadOf[app.image]
      /\ tx.made = 1..tx.version
  BY DEF LifecycleTypeOK, TxOwned
<1>1. db'.schema = tx /\ db'.up = db.up /\ app'.image = app.image /\ app'.at = "committed"
  BY DEF LifecycleTypeOK
<1>2. LifecycleTypeOK' /\ FirstOwn'
  BY <1>0 DEF LifecycleTypeOK, FirstOwn
<1>3. SchemaWhole'
  BY <1>0, <1>1 DEF LifecycleTypeOK, SchemaWhole
<1>4. TxOwned' /\ VersionLeft'
  BY <1>0, <1>1 DEF LifecycleTypeOK, TxOwned, VersionLeft
<1> QED  BY <1>2, <1>3, <1>4

\* What serves after the commit has the tables that the commit left.
LEMMA ServeKeeps ==
  ASSUME LifecycleInv, Serve
  PROVE  LifecycleInv'
<1> USE LifecycleConstants DEF LifecycleInv, Serve
<1>1. LifecycleTypeOK' /\ SchemaWhole'
  BY DEF LifecycleTypeOK, SchemaWhole
<1>2. TxOwned' /\ VersionLeft' /\ FirstOwn'
  BY DEF LifecycleTypeOK, TxOwned, VersionLeft, FirstOwn
<1> QED  BY <1>1, <1>2

LEMMA KillKeeps ==
  ASSUME LifecycleInv, Kill
  PROVE  LifecycleInv'
<1> USE LifecycleConstants DEF LifecycleInv, Kill, Gone
<1>1. LifecycleTypeOK' /\ SchemaWhole'
  BY DEF LifecycleTypeOK, SchemaWhole
<1>2. TxOwned' /\ VersionLeft' /\ FirstOwn'
  BY DEF LifecycleTypeOK, TxOwned, VersionLeft, FirstOwn
<1> QED  BY <1>1, <1>2

LEMMA LifecycleKeeps ==
  ASSUME LifecycleInv, LifecycleNext
  PROVE  LifecycleInv'
<1>1. CASE SelfCheck
  BY <1>1, CountedKeeps DEF SelfCheck, LifecycleInv, LifecycleTypeOK
<1>2. CASE Seed
  BY <1>2 DEF Seed, LifecycleInv, LifecycleTypeOK, SchemaWhole, TxOwned, VersionLeft, FirstOwn
<1> QED
  BY <1>1, <1>2, StartDatabaseKeeps, StopDatabaseKeeps, UpKeeps, BeginUpgradeKeeps, UpgradeKeeps,
     StampKeeps, CommitKeeps, ServeKeeps, KillKeeps DEF LifecycleNext

\* A step of the copy leaves the emails of the programs alone, or starts an empty database.
LEMMA EmailsStay ==
  ASSUME LifecycleInv, LifecycleNext
  PROVE  \/ db'.life = db.life /\ users' \subseteq users \cup {0}
         \/ users' = {}
BY DEF LifecycleNext, LifecycleInv, LifecycleTypeOK, StartDatabase, StopDatabase, Up, BeginUpgrade,
       Upgrade, Stamp, Commit, Serve, Kill, Counted, SelfCheck, Seed

-----------------------------------------------------------------------------
\* The answers a program has are a sequence, no longer than its script.
LEMMA GotIsSeq ==
  ASSUME AnswersOK, gate # None
  PROVE  /\ gate.kind \in Kinds
         /\ gate = [kind |-> gate.kind, got |-> gate.got]
         /\ gate.got \in Seq({gate.got[i] : i \in 1..Len(gate.got)})
         /\ Len(gate.got) \in 0..Len(Script[gate.kind])
<1>1. PICK n \in 0..Len(Script[gate.kind]) :
        gate = [kind |-> gate.kind, got |-> [i \in 1..n |-> gate.got[i]]]
  BY DEF AnswersOK
<1>2. n \in Nat
  BY DEF Script, AnswersOK, Kinds
<1>3. gate.got = [i \in 1..n |-> gate.got[i]]
  BY <1>1
<1>4. gate.got \in Seq({gate.got[i] : i \in 1..n})
  BY <1>2, <1>3
<1>5. Len(gate.got) = n
  BY <1>2, <1>3, <1>4
<1> QED  BY <1>1, <1>3, <1>4, <1>5 DEF AnswersOK

\* An answer that is taken comes last.
LEMMA TakesLast ==
  ASSUME AnswersOK, gate # None, More, NEW answer, Takes(answer)
  PROVE  /\ gate' = [kind |-> gate.kind, got |-> Append(gate.got, answer)]
         /\ Len(gate'.got) = Len(gate.got) + 1
         /\ Len(gate'.got) <= Len(Script[gate.kind])
         /\ \A i \in 1..Len(gate.got) : gate'.got[i] = gate.got[i]
         /\ gate'.got[Len(gate.got) + 1] = answer
         /\ gate' = [kind |-> gate'.kind,
                     got |-> [i \in 1..Len(gate'.got) |-> gate'.got[i]]]
<1> DEFINE S == {gate.got[i] : i \in 1..Len(gate.got)} \cup {answer}
<1>1. gate.got \in Seq(S) /\ answer \in S /\ gate = [kind |-> gate.kind, got |-> gate.got]
  BY GotIsSeq
<1>2. gate' = [kind |-> gate.kind, got |-> Append(gate.got, answer)]
  BY <1>1 DEF Takes
<1> HIDE DEF S
<1>3. /\ Append(gate.got, answer) \in Seq(S)
      /\ Len(Append(gate.got, answer)) = Len(gate.got) + 1
      /\ \A i \in 1..Len(gate.got) : Append(gate.got, answer)[i] = gate.got[i]
      /\ Append(gate.got, answer)[Len(gate.got) + 1] = answer
  BY <1>1
<1>4. Append(gate.got, answer) =
        [i \in 1..Len(Append(gate.got, answer)) |-> Append(gate.got, answer)[i]]
  BY <1>3
<1>5. Len(Script[gate.kind]) \in Nat
  BY GotIsSeq DEF Script, Kinds
<1>6. Len(gate.got) + 1 <= Len(Script[gate.kind])
  BY <1>1, <1>5 DEF More, Got
<1> QED  BY <1>2, <1>3, <1>4, <1>6

-----------------------------------------------------------------------------
\* What the answers say of the copy that gave them.
LEMMA StatsAnswer ==
  ASSUME FirstOwn, NEW answer \in Handled("stats")
  PROVE  answer.body.first = answer.process
BY DEF Handled, Unconditional, NoDatabase, Users, get_stats, Answer, FirstOwn

LEMMA CreateAnswer ==
  ASSUME NEW answer \in Handled("create")
  PROVE  /\ answer.store = db.life
         /\ answer.status = 409 => IsThere
BY DEF Handled, Unconditional, NoDatabase, Users, Answer, Broken

LEMMA GetAnswer ==
  ASSUME NEW answer \in Handled("get")
  PROVE  /\ answer.store = db.life
         /\ answer.status = 200 => IsThere
BY DEF Handled, Unconditional, NoDatabase, Users, Answer, Broken

LEMMA MatchAnswer ==
  ASSUME NEW answer \in Handled("match")
  PROVE  /\ answer.store = db.life
         /\ Status(2) = 200 /\ answer.status = 304 => IsThere
<1>1. PICK got \in Unconditional("match") : answer = Answer(Matched(got.status), None)
  BY DEF Handled
<1>2. got.status = 200 => IsThere
  BY DEF Unconditional, NoDatabase, Users, Answer, Broken
<1>3. got.status # 304
  BY DEF Unconditional, NoDatabase, Users, Answer, Broken
<1> QED  BY <1>1, <1>2, <1>3 DEF Answer, Matched

\* A program takes an answer of the copy, or loses it.
AnswerTaken(answer) ==
  /\ gate # None /\ said = None /\ More /\ Takes(answer)
  /\ answer = Lost \/ answer \in Handled(Asked)
  /\ users' = users \/ (Asked = "create" /\ users' = users \cup {Email})
  /\ UNCHANGED db

LEMMA AnswersStayOK ==
  ASSUME AnswersOK, NEW answer, AnswerTaken(answer)
  PROVE  AnswersOK'
<1> USE DEF AnswerTaken
<1>1. gate'.kind = gate.kind /\ ran' = ran
  BY TakesLast DEF Takes
<1>2. gate'.kind \in Kinds /\ ran' \in Nat
  BY <1>1, GotIsSeq DEF AnswersOK
<1>3. users' \subseteq 0..(ran' + 1)
  BY <1>1 DEF AnswersOK, Email
<1>4. Len(gate'.got) \in 0..Len(Script[gate'.kind])
  BY <1>1, TakesLast, GotIsSeq
<1> QED  BY <1>2, <1>3, <1>4, TakesLast DEF AnswersOK

\* What the programs ask, one request after the other.
LEMMA Scripts ==
  /\ Len(Script["stats"]) = 3 /\ Len(Script["derived"]) = 6
  /\ \A kind \in {"stats", "derived"}, i \in 1..2 : Script[kind][i] = "stats"
  /\ Len(Script["etag"]) = 3
  /\ Script["etag"][1] = "create" /\ Script["etag"][2] = "get" /\ Script["etag"][3] = "match"
  /\ Len(Script["health"]) = 1 /\ Len(Script["version"]) = 2 /\ Len(Script["twins"]) = 2
  /\ Len(Script["probe"]) = 6
  /\ Script["probe"][1] = "list" /\ Script["probe"][2] = "create"
  /\ Script["probe"][3] = "get" /\ Script["probe"][4] = "random"
  /\ Script["probe"][5] = "create" /\ Script["probe"][6] = "malformed"
<1>1. /\ Script["health"] = <<"health">> /\ Script["version"] = <<"version", "write">>
      /\ Script["twins"] = <<"health", "hurl">>
      /\ Script["stats"] = <<"stats", "stats", "write">>
      /\ Script["derived"] = <<"stats", "stats", "write", "write", "write", "write">>
      /\ Script["etag"] = <<"create", "get", "match">>
      /\ Script["probe"] = <<"list", "create", "get", "random", "create", "malformed">>
  BY DEF Script
<1> QED  BY <1>1

LEMMA NoStatus == Lost.status \notin {200, 201, 304, 409}
<1>1. {200, 201, 304, 409} \subseteq 100..599
  OBVIOUS
<1>2. Lost.status = None
  BY DEF Lost
<1> QED  BY <1>1, <1>2, GatesConstants

LEMMA StatsStayOwn ==
  ASSUME AnswersOK, FirstOwn, StatsOwn, NEW answer, AnswerTaken(answer)
  PROVE  StatsOwn'
<1> USE DEF AnswerTaken
<1> DEFINE n == Len(gate.got)
<1>0. n \in Nat /\ gate'.kind = gate.kind
  BY GotIsSeq, TakesLast DEF Script, Kinds
<1> SUFFICES ASSUME gate.kind \in {"stats", "derived"}, NEW i \in 1..2, i <= n + 1,
                    gate'.got[i].status = 200
             PROVE  gate'.got[i].body.first = gate'.got[i].process
  BY <1>0, TakesLast DEF StatsOwn, Got, Status
<1>1. CASE i <= n
  BY <1>0, <1>1, TakesLast DEF StatsOwn, Got, Status
<1>2. CASE i = n + 1
  <2>1. Asked = "stats"
    BY <1>0, <1>2, Scripts DEF Asked, Got
  <2>2. gate'.got[i] = answer
    BY <1>2, TakesLast
  <2>3. answer # Lost
    BY <2>2, NoStatus
  <2> QED  BY <2>1, <2>2, <2>3, StatsAnswer
<1> QED  BY <1>0, <1>1, <1>2

LEMMA EtagStays ==
  ASSUME AnswersOK, EtagOwn, EtagSame, NEW answer, AnswerTaken(answer)
  PROVE  EtagOwn' /\ EtagSame'
<1> USE DEF AnswerTaken
<1> DEFINE n == Len(gate.got)
<1>0. n \in 0..Len(Script[gate.kind]) /\ gate'.kind = gate.kind /\ ran' = ran
  BY GotIsSeq, TakesLast DEF Takes
<1> SUFFICES ASSUME gate.kind = "etag"
             PROVE  EtagOwn' /\ EtagSame'
  BY <1>0 DEF EtagOwn, EtagSame
<1>1. n \in 0..2 /\ Len(gate'.got) = n + 1
  BY <1>0, TakesLast, Scripts DEF More, Got
<1>2. /\ n = 0 => Asked = "create"
      /\ n = 1 => Asked = "get"
      /\ n = 2 => Asked = "match"
  <2>1. Asked = Script["etag"][n + 1]
    BY DEF Asked, Got
  <2>2. CASE n = 0
    BY <2>1, <2>2, Scripts
  <2>3. CASE n = 1
    BY <2>1, <2>3, Scripts
  <2>4. CASE n = 2
    BY <2>1, <2>4, Scripts
  <2> QED  BY <2>2, <2>3, <2>4
<1>3. Email = ran + 1
  BY DEF Email
<1>4. answer.status \in {200, 201, 304} => answer # Lost
  BY NoStatus
<1>5. CASE n = 0
  <2>1. gate'.got[1] = answer
    BY <1>5, TakesLast
  <2> QED  BY <1>0, <1>1, <1>2, <1>4, <1>5, <2>1, CreateAnswer DEF EtagOwn, EtagSame, Got, Status
<1>6. CASE n \in 1..2
  <2>1. gate'.got[1] = gate.got[1] /\ gate'.got[n + 1] = answer /\ users' = users
    BY <1>2, <1>6, TakesLast
  <2>2. n = 2 => gate'.got[2] = gate.got[2]
    BY TakesLast
  <2>3. EtagOwn'
    BY <1>0, <1>1, <1>6, <2>1 DEF EtagOwn, Got, Status
  <2>4. \/ n = 1 /\ answer.status = 200
        \/ n = 2 /\ Status(2) = 200 /\ answer.status = 304
        => ran + 1 \in users /\ answer.store = db.life
    BY <1>2, <1>3, <1>4, <1>6, GetAnswer, MatchAnswer DEF IsThere
  <2>5. EtagSame'
    <3>1. CASE n = 1
      BY <1>1, <2>1, <2>4, <3>1 DEF EtagOwn, EtagSame, Got, Status
    <3>2. CASE n = 2
      BY <1>1, <2>1, <2>2, <2>4, <3>2 DEF EtagOwn, EtagSame, Got, Status
    <3> QED  BY <1>6, <3>1, <3>2
  <2> QED  BY <2>3, <2>5
<1> QED  BY <1>1, <1>5, <1>6

LEMMA ProbeStays ==
  ASSUME AnswersOK, ProbeOwn, ProbeSame, NEW answer, AnswerTaken(answer)
  PROVE  ProbeOwn' /\ ProbeSame'
<1> USE DEF AnswerTaken
<1> DEFINE n == Len(gate.got)
<1>0. n \in 0..Len(Script[gate.kind]) /\ gate'.kind = gate.kind
  BY GotIsSeq, TakesLast
<1> SUFFICES ASSUME gate.kind = "probe"
             PROVE  ProbeOwn' /\ ProbeSame'
  BY <1>0 DEF ProbeOwn, ProbeSame
<1>1. n \in 0..5 /\ Len(gate'.got) = n + 1
  BY <1>0, TakesLast, Scripts DEF More, Got
<1>2. /\ n = 1 \/ n = 4 => Asked = "create"
      /\ n = 2 => Asked = "get"
      /\ n = 3 => Asked = "random"
  <2>1. Asked = Script["probe"][n + 1]
    BY DEF Asked, Got
  <2>2. CASE n = 1
    BY <2>1, <2>2, Scripts
  <2>3. CASE n = 2
    BY <2>1, <2>3, Scripts
  <2>4. CASE n = 3
    BY <2>1, <2>4, Scripts
  <2>5. CASE n = 4
    BY <2>1, <2>5, Scripts
  <2> QED  BY <2>2, <2>3, <2>4, <2>5
<1>3. Email = 1
  BY DEF Email
<1>4. answer.status \in {200, 201, 409} => answer # Lost
  BY NoStatus
<1>5. gate'.got[n + 1] = answer /\ \A i \in 1..n : gate'.got[i] = gate.got[i]
  BY TakesLast
<1>6. Len(Got) = n /\ Len(Got)' = n + 1
  BY <1>1 DEF Got
<1> HIDE DEF n
<1>7. CASE n < 2
  <2>1. n = 1 /\ answer.status = 201 => answer.store = db.life
    BY <1>2, <1>4, CreateAnswer
  <2> QED  BY <1>1, <1>6, <1>5, <1>7, <2>1 DEF ProbeOwn, ProbeSame, Got, Status
<1>8. CASE n >= 2
  <2>1. gate'.got[2] = gate.got[2]
    BY <1>1, <1>5, <1>8
  <2>2. n \in 2..3 => users' = users
    BY <1>2
  <2>3. ProbeOwn'
    <3>1. CASE n \in 2..3
      BY <1>6, <2>1, <2>2, <3>1 DEF ProbeOwn, Got, Status
    <3>2. CASE n \in 4..5
      BY <1>6, <3>2 DEF ProbeOwn
    <3> QED  BY <1>1, <1>8, <3>1, <3>2
  <2>4. \/ n = 2 /\ answer.status = 200
        \/ n = 4 /\ answer.status = 409
        => 1 \in users /\ answer.store = db.life
    BY <1>2, <1>3, <1>4, GetAnswer, CreateAnswer DEF IsThere
  <2>5. /\ n >= 3 => gate'.got[3] = gate.got[3]
        /\ n >= 5 => gate'.got[5] = gate.got[5]
    BY <1>1, <1>5
  <2>6. ProbeSame'
    <3>1. CASE n = 2
      BY <1>6, <1>5, <2>1, <2>4, <3>1 DEF ProbeOwn, ProbeSame, Got, Status
    <3>2. CASE n = 3
      BY <1>6, <2>1, <2>5, <3>2 DEF ProbeOwn, ProbeSame, Got, Status
    <3>3. CASE n = 4
      BY <1>6, <1>5, <2>1, <2>4, <2>5, <3>3 DEF ProbeOwn, ProbeSame, Got, Status
    <3>4. CASE n = 5
      BY <1>6, <2>1, <2>5, <3>4 DEF ProbeOwn, ProbeSame, Got, Status
    <3> QED  BY <1>1, <1>8, <3>1, <3>2, <3>3, <3>4
  <2> QED  BY <2>3, <2>6
<1> QED  BY <1>1, <1>7, <1>8

-----------------------------------------------------------------------------
GatesPart == AnswersOK /\ StatsOwn /\ EtagOwn /\ EtagSame /\ ProbeOwn /\ ProbeSame
             /\ (said = "green" => gate # None) /\ OneSource

LEMMA AnswerKeeps ==
  ASSUME FirstOwn, GatesPart, NEW answer, AnswerTaken(answer)
  PROVE  GatesPart'
<1>1. said' # "green"
  BY GatesConstants DEF AnswerTaken, Takes
<1>2. AnswersOK' /\ StatsOwn' /\ EtagOwn' /\ EtagSame' /\ ProbeOwn' /\ ProbeSame'
  BY AnswersStayOK, StatsStayOwn, EtagStays, ProbeStays DEF GatesPart
<1> QED  BY <1>1, <1>2 DEF GatesPart, OneSource

\* A program that begins has no answers, and the etag gate a new email.
LEMMA BeginKeeps ==
  ASSUME GatesPart, NEW kind \in Kinds, Begin(kind), UNCHANGED users
  PROVE  GatesPart'
<1>1. /\ gate' = [kind |-> kind, got |-> <<>>] /\ said' # "green" /\ ran' = ran + 1
      /\ gate'.kind = kind /\ gate'.got = <<>> /\ Len(gate'.got) = 0
  BY GatesConstants DEF Begin
<1>2. AnswersOK'
  <2>1. ran' \in Nat /\ users' \subseteq 0..(ran' + 1)
    BY <1>1 DEF GatesPart, AnswersOK
  <2>2. Len(Script[kind]) \in Nat
    BY DEF Script, Kinds
  <2>3. gate' = [kind |-> gate'.kind, got |-> [i \in 1..0 |-> gate'.got[i]]]
    BY <1>1
  <2> QED  BY <1>1, <2>1, <2>2, <2>3 DEF AnswersOK
<1>3. EtagOwn'
  BY <1>1 DEF EtagOwn, GatesPart, AnswersOK
<1>4. StatsOwn' /\ EtagSame' /\ ProbeOwn' /\ ProbeSame'
  BY <1>1 DEF StatsOwn, EtagSame, ProbeOwn, ProbeSame, Got
<1> QED  BY <1>1, <1>2, <1>3, <1>4 DEF GatesPart, OneSource

LEMMA EnvironmentFailsKeeps ==
  ASSUME GatesPart, EnvironmentFails, UNCHANGED users
  PROVE  GatesPart'
<1> USE DEF EnvironmentFails
<1>1. AnswersOK'
  BY DEF GatesPart, AnswersOK
<1>2. StatsOwn' /\ EtagOwn' /\ EtagSame' /\ ProbeOwn' /\ ProbeSame'
  BY DEF StatsOwn, EtagOwn, EtagSame, ProbeOwn, ProbeSame
<1> QED  BY <1>1, <1>2 DEF GatesPart, OneSource

\* What the copy does between two requests: its users are gone, or still there.
LEMMA CopyKeeps ==
  ASSUME LifecycleInv, GatesPart, LifecycleNext, UNCHANGED gvars
  PROVE  GatesPart'
<1> USE DEF gvars
<1>1. AnswersOK'
  BY EmailsStay DEF GatesPart, AnswersOK
<1>2. EtagOwn'
  <2>1. ran + 1 # 0
    BY DEF GatesPart, AnswersOK
  <2> QED  BY <2>1, EmailsStay DEF GatesPart, EtagOwn, Got, Status
<1>3. ProbeOwn'
  BY EmailsStay DEF GatesPart, ProbeOwn, Got, Status
<1>4. StatsOwn' /\ EtagSame' /\ ProbeSame' /\ OneSource'
  BY DEF GatesPart, StatsOwn, EtagSame, ProbeSame, OneSource, Got, Status
<1> QED  BY <1>1, <1>2, <1>3, <1>4 DEF GatesPart

\* No program is green without an answer to each of its requests.
LEMMA AllAnswered ==
  ASSUME gate.kind \in Kinds, Len(Got) = Len(Script[gate.kind]), ~GivesUp, Green,
         NEW i \in 1..Len(Script[gate.kind])
  PROVE  Status(i) # None
<1>0. {200, 201, 304, 404, 405, 409, 422} \subseteq 100..599
  OBVIOUS
<1>1. None \notin {200, 201, 304, 404, 405, 409, 422}
  BY <1>0, GatesConstants
<1>2. CASE gate.kind = "health"
  <2>1. i \in 1..1
    BY <1>2, Scripts
  <2> QED  BY <1>1, <1>2, <2>1 DEF Green, run_spec
<1>3. CASE gate.kind = "version"
  <2>1. i \in 1..2
    BY <1>3, Scripts
  <2> QED  BY <1>1, <1>3, <2>1 DEF Green, version_main
<1>4. CASE gate.kind = "stats"
  <2>1. i \in 1..3
    BY <1>4, Scripts
  <2> QED  BY <1>1, <1>4, <2>1 DEF Green, stats_main
<1>5. CASE gate.kind = "derived"
  <2>1. i \in {1, 2} \cup 3..6
    BY <1>5, Scripts
  <2>2. derived_main
    BY <1>5 DEF Green
  <2> QED  BY <1>1, <2>1, <2>2 DEF derived_main
<1>6. CASE gate.kind = "etag"
  <2>1. i \in 1..3
    BY <1>6, Scripts
  <2> QED  BY <1>1, <1>6, <2>1 DEF Green, etag_main
<1>7. CASE gate.kind = "probe"
  <2>1. i \in {1, 2, 3, 4, 5, 6}
    BY <1>7, Scripts
  <2>2. probe_main
    BY <1>7 DEF Green
  <2> QED  BY <1>1, <2>1, <2>2 DEF probe_main
<1>8. CASE gate.kind = "twins"
  <2>1. i \in 1..2 /\ Len(Got) = 2
    BY <1>8, Scripts
  <2>2. Status(1) # None /\ Status(2) # None
    <3>1. Status(1) # None
      BY <1>8 DEF Green, twins_main
    <3>2. Status(Len(Got)) # None
      <4>1. Got # <<>>
        BY <2>1
      <4> QED  BY <1>8, <4>1 DEF GivesUp
    <3> QED  BY <2>1, <3>1, <3>2
  <2> QED  BY <2>1, <2>2
<1> QED  BY <1>2, <1>3, <1>4, <1>5, <1>6, <1>7, <1>8 DEF Kinds, Script

\* A program concludes "green" from what its answers are known to be.
LEMMA ConcludeKeeps ==
  ASSUME GatesPart, Conclude
  PROVE  GatesPart'
<1> USE DEF Conclude
<1>1. AnswersOK' /\ StatsOwn' /\ EtagOwn' /\ EtagSame' /\ ProbeOwn' /\ ProbeSame'
  BY DEF GatesPart, AnswersOK, StatsOwn, EtagOwn, EtagSame, ProbeOwn, ProbeSame, Got, Status, vars
<1>2. said' = "green" => gate' # None
  OBVIOUS
<1>3. ASSUME said' = "green"
      PROVE  OneSource'
  <2>1. ~GivesUp /\ ~More /\ Green /\ gate # None
    <3>1. ~GivesUp
      BY <1>3
    <3> QED  BY <1>3, <3>1
  <2>2. Len(Got) = Len(Script[gate.kind])
    BY <2>1, GotIsSeq DEF GatesPart, More, Got, Script, Kinds
  <2>3. gate.kind \in {"stats", "derived"} => Got[1].process = Got[2].process
    <3> SUFFICES ASSUME gate.kind \in {"stats", "derived"}
                 PROVE  Got[1].process = Got[2].process
      OBVIOUS
    <3>1. Len(Got) >= 2
      BY <2>2, Scripts
    <3>2. Status(1) = 200 /\ Status(2) = 200 /\ Got[1].body.first = Got[2].body.first
      BY <2>1 DEF Green, stats_main, derived_main
    <3> QED  BY <2>1, <3>1, <3>2 DEF GatesPart, StatsOwn
  <2>4. gate.kind = "etag" => Got[1].store = Got[2].store /\ Got[2].store = Got[3].store
    BY <2>1, <2>2, Scripts DEF Green, etag_main, GatesPart, EtagSame
  <2>5. gate.kind = "probe" => Got[2].store = Got[3].store /\ Got[3].store = Got[5].store
    BY <2>1, <2>2, Scripts DEF Green, probe_main, GatesPart, ProbeSame
  <2>6. \A i \in 1..Len(Script[gate.kind]) : Status(i) # None
    <3>1. gate.kind \in Kinds
      BY <2>1, GotIsSeq DEF GatesPart
    <3> QED  BY <2>1, <2>2, <3>1, AllAnswered
  <2> QED  BY <2>3, <2>4, <2>5, <2>6 DEF OneSource, Got, Status
<1> QED  BY <1>1, <1>2, <1>3 DEF GatesPart, OneSource

-----------------------------------------------------------------------------
LEMMA GatesStart ==
  ASSUME GatesInit
  PROVE  GatesInv
<1> USE LifecycleConstants, GatesConstants DEF GatesInit, Init, Empty
<1>1. 1..0 = {}
  OBVIOUS
<1>2. LifecycleTypeOK /\ SchemaWhole
  <2>1. 0 \in Lives /\ 0 \in 0..MaxServed /\ Empty \in Schema
    BY DEF Lives, Schema
  <2>2. LifecycleTypeOK
    BY <2>1 DEF LifecycleTypeOK
  <2>3. SchemaWhole
    BY <1>1 DEF SchemaWhole
  <2> QED  BY <2>2, <2>3
<1>3. TxOwned /\ VersionLeft /\ FirstOwn
  BY DEF TxOwned, VersionLeft, FirstOwn
<1>4. AnswersOK /\ StatsOwn /\ EtagOwn /\ EtagSame /\ ProbeOwn /\ ProbeSame
  BY DEF AnswersOK, StatsOwn, EtagOwn, EtagSame, ProbeOwn, ProbeSame
<1> QED  BY <1>2, <1>3, <1>4 DEF GatesInv, LifecycleInv, OneSource

LEMMA GatesStep ==
  ASSUME GatesInv, [GatesNext]_<<vars, gvars>>
  PROVE  GatesInv'
<1>0. LifecycleInv /\ GatesPart /\ FirstOwn /\ users \subseteq Nat
  BY DEF GatesInv, GatesPart, LifecycleInv, LifecycleTypeOK
<1>1. CASE LifecycleNext /\ UNCHANGED gvars
  BY <1>0, <1>1, LifecycleKeeps, CopyKeeps DEF GatesInv, GatesPart
<1>2. CASE BeginAlone
  <2>1. LifecycleInv'
    BY <1>0, <1>2 DEF BeginAlone, LifecycleInv, LifecycleTypeOK, SchemaWhole, TxOwned, VersionLeft,
                      FirstOwn, vars
  <2>2. GatesPart'
    BY <1>0, <1>2, BeginKeeps DEF BeginAlone, vars
  <2> QED  BY <2>1, <2>2 DEF GatesInv, GatesPart
<1>3. CASE BeginDriven
  <2>1. LifecycleInv'
    BY <1>0, <1>3, CountedKeeps DEF BeginDriven
  <2>2. GatesPart'
    BY <1>0, <1>3, BeginKeeps, EnvironmentFailsKeeps DEF BeginDriven
  <2> QED  BY <2>1, <2>2 DEF GatesInv, GatesPart
<1>4. CASE DriveNobody
  <2>1. LifecycleInv'
    BY <1>0, <1>4 DEF DriveNobody, LifecycleInv, LifecycleTypeOK, SchemaWhole, TxOwned, VersionLeft,
                      FirstOwn, vars
  <2>2. GatesPart'
    BY <1>0, <1>4, EnvironmentFailsKeeps DEF DriveNobody, vars
  <2> QED  BY <2>1, <2>2 DEF GatesInv, GatesPart
<1>5. CASE AskNobody
  <2>1. LifecycleInv'
    BY <1>0, <1>5 DEF AskNobody, LifecycleInv, LifecycleTypeOK, SchemaWhole, TxOwned, VersionLeft,
                      FirstOwn, vars
  <2>2. AnswerTaken(Lost)
    BY <1>5 DEF AskNobody, Asking, AnswerTaken, vars
  <2>3. GatesPart'
    BY <1>0, <2>2, AnswerKeeps
  <2> QED  BY <2>1, <2>3 DEF GatesInv, GatesPart
<1>6. CASE Ask
  <2>1. Email \in Nat
    BY <1>0 DEF Email, GatesPart, AnswersOK
  <2>2. LifecycleInv'
    BY <1>0, <1>6, <2>1, CountedKeeps DEF Ask
  <2>3. PICK answer \in Handled(Asked) \cup {Lost} : Takes(answer)
    BY <1>6 DEF Ask
  <2>4. AnswerTaken(answer)
    BY <1>6, <2>3 DEF Ask, Asking, AnswerTaken
  <2>5. GatesPart'
    BY <1>0, <2>4, AnswerKeeps
  <2> QED  BY <2>2, <2>5 DEF GatesInv, GatesPart
<1>7. CASE Conclude
  <2>1. LifecycleInv'
    BY <1>0, <1>7 DEF Conclude, LifecycleInv, LifecycleTypeOK, SchemaWhole, TxOwned, VersionLeft,
                      FirstOwn, vars
  <2>2. GatesPart'
    BY <1>0, <1>7, ConcludeKeeps
  <2> QED  BY <2>1, <2>2 DEF GatesInv, GatesPart
<1>8. CASE UNCHANGED <<vars, gvars>>
  BY <1>8 DEF GatesInv, LifecycleInv, LifecycleTypeOK, SchemaWhole, TxOwned, VersionLeft, FirstOwn,
              AnswersOK, StatsOwn, EtagOwn, EtagSame, ProbeOwn, ProbeSame, OneSource, Got, Status,
              vars, gvars
<1> QED  BY <1>1, <1>2, <1>3, <1>4, <1>5, <1>6, <1>7, <1>8 DEF GatesNext

-----------------------------------------------------------------------------
\* LiveGates keeps its invariant.
THEOREM GatesInvariant == GatesSpec => []GatesInv
BY GatesStart, GatesStep, PTL DEF GatesSpec

\* Whatever container or database dies at whatever step of the migrations, the tables are
\* what alembic_version says, and a copy that serves has those of its models
\* (alembic/env.py, docker-entrypoint.sh).
THEOREM SchemaStaysWhole == GatesSpec => []SchemaWhole
<1>1. GatesInv => SchemaWhole
  BY DEF GatesInv, LifecycleInv
<1> QED  BY <1>1, GatesInvariant, PTL

\* A stats, derived, etag or probe verdict of green is about one process or one database,
\* for any number of containers, databases and programs (stats_gate.py,
\* run_derived_assertions.py, etag_generation_and_validation_gate.py, probe.py).
THEOREM GreenIsOfOneSource == GatesSpec => []OneSource
<1>1. GatesInv => OneSource
  BY DEF GatesInv
<1> QED  BY <1>1, GatesInvariant, PTL
=============================================================================
