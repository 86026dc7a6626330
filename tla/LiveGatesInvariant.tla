------------------------- MODULE LiveGatesInvariant -------------------------
(***************************************************************************)
(* An inductive invariant of LiveGates which implies SchemaWhole and       *)
(* OneSource: what the open transaction holds, and for each program that   *)
(* is asking, where the answers it will compare came from.                 *)
(***************************************************************************)
EXTENDS LiveGates

\* Whoever runs the migrations has the transaction, and the database is there.
TxOwned ==
  /\ tx # None <=> app.at \in {"upgrade", "stamp"}
  /\ app.at \notin {"none", "gone"} => app.image \in Images
  /\ tx # None =>
       /\ db.up
       /\ tx.version <= HeadOf[app.image]
       /\ app.at = "stamp" => tx.version < HeadOf[app.image]
       /\ tx.made = IF app.at = "stamp" THEN 1..(tx.version + 1) ELSE 1..tx.version

\* A version that is not the empty schema's was left by an image, served or not.
VersionLeft ==
  db.schema.version # 0 => \E image \in left : HeadOf[image] = db.schema.version

\* The first instant a process has is its own.
FirstOwn == app.first \in {None, app.life}

LifecycleInv == LifecycleTypeOK /\ SchemaWhole /\ TxOwned /\ VersionLeft /\ FirstOwn

\* The program and its answers; the emails are of programs begun.
AnswersOK ==
  /\ ran \in Nat
  /\ users \subseteq 0..(ran + 1)
  /\ gate # None =>
       /\ gate.kind \in Kinds
       /\ \E n \in 0..Len(Script[gate.kind]) :
            gate = [kind |-> gate.kind, got |-> [i \in 1..n |-> gate.got[i]]]

\* Each of the statistics names its process.
StatsOwn ==
  gate # None /\ gate.kind \in {"stats", "derived"} =>
    \A i \in 1..2 : i <= Len(Got) /\ Status(i) = 200 => Got[i].body.first = Got[i].process

\* The user of the etag gate is in the database that answered 201, as long as it lives.
EtagOwn ==
  gate # None /\ gate.kind = "etag" /\ ran + 1 \in users =>
    Len(Got) >= 1 /\ (Status(1) = 201 => Got[1].store = db.life)

EtagSame ==
  gate # None /\ gate.kind = "etag" /\ Len(Got) >= 1 /\ Status(1) = 201 =>
    /\ Len(Got) >= 2 /\ Status(2) = 200 => Got[2].store = Got[1].store
    /\ Len(Got) >= 3 /\ Status(2) = 200 /\ Status(3) = 304 => Got[3].store = Got[1].store

\* So is the probe's, until it asks for the same user again.
ProbeOwn ==
  gate # None /\ gate.kind = "probe" /\ Len(Got) \in 2..4 /\ Status(2) = 201 /\ 1 \in users =>
    Got[2].store = db.life

ProbeSame ==
  gate # None /\ gate.kind = "probe" /\ Len(Got) >= 2 /\ Status(2) = 201 =>
    /\ Len(Got) >= 3 /\ Status(3) = 200 => Got[3].store = Got[2].store
    /\ Len(Got) >= 5 /\ Status(5) = 409 => Got[5].store = Got[2].store

GatesInv ==
  /\ LifecycleInv /\ AnswersOK
  /\ StatsOwn /\ EtagOwn /\ EtagSame /\ ProbeOwn /\ ProbeSame
  /\ said = "green" => gate # None
  /\ OneSource
=============================================================================
