------------------------------ MODULE LiveGates ------------------------------
(***************************************************************************)
(* The programs that ask a running copy (Lifecycle) a few requests and say *)
(* whether it is as promised: the gates of qa/gates (health and the other  *)
(* SPEC gates, version, stats, etag, hurl-twins), the derived assertions   *)
(* of qa/dcl-spike and the smoke probe.  Between two requests the copy may *)
(* be replaced, killed, or lose its database; a request or its answer may  *)
(* be lost.  One program asks at a time, and one that makes a user may run *)
(* again with the marker it had.                                           *)
(***************************************************************************)
EXTENDS Lifecycle, Sequences

CONSTANTS Twins,      \* the twin files hurl is given
          MaxGates    \* bound: programs run

ASSUME GatesConstants ==
  /\ MaxGates \in Nat
  /\ None \notin 100..599   \* the statuses of an answer that is not Lost
  /\ None # "green"

VARIABLES gate,  \* the program that asks last: its kind and the answers it has, or None
          said,  \* its verdict, or None
          ran    \* programs begun

gvars == <<gate, said, ran>>

Script == [health  |-> <<"health">>,
           version |-> <<"version", "write">>,
           stats   |-> <<"stats", "stats", "write">>,
           derived |-> <<"stats", "stats", "write", "write", "write", "write">>,
           etag    |-> <<"create", "get", "match">>,
           probe   |-> <<"list", "create", "get", "random", "create", "malformed">>,
           twins   |-> <<"health", "hurl">>]
Kinds == DOMAIN Script

GatesInit == Init /\ gate = None /\ said = None /\ ran = 0

Got       == gate.got
Status(i) == Got[i].status
Asked     == Script[gate.kind][Len(Got) + 1]
More      == Len(Got) < Len(Script[gate.kind])

-----------------------------------------------------------------------------
\* The answers of a copy that serves.
Works  == db.up /\ Models(app.image) \subseteq db.schema.made
Broken == {Answer(500, None), Answer(503, None)}

\* The email a program makes its user with: the probe's is its marker's, the etag gate's
\* has the time and the process id in it.
Email == IF gate.kind = "etag" THEN ran + 1 ELSE 1
IsThere == Email \in users

\* hurl's report of one twin: every assert holds, one does not, or the run of the file
\* broke off, before any assert or after some that hold.
Reports == {"pass", "assert failed", "broke off at once", "broke off later"}

\* get_stats, of a request that has been counted itself.
get_stats == [served |-> app.served + 1, first |-> IF app.first = None THEN app.life ELSE app.first]

NoDatabase(request) ==
  CASE request = "health"    -> health_check
    [] request = "version"   -> {Answer(200, None)}
    [] request = "stats"     -> {Answer(200, get_stats)}
    [] request = "write"     -> {Answer(405, None)}
    [] request = "malformed" -> {Answer(422, None)}
    [] request = "hurl"      -> {Answer(200, r) : r \in [Twins -> Reports] \cup {None}}
    [] OTHER                 -> {}

Users(request) ==
  CASE request = "list"   -> {Answer(200, 0 \in users)}
    [] request = "create" -> {Answer(IF IsThere THEN 409 ELSE 201, None)}
    [] request = "random" -> {Answer(404, None)}
    [] request \in {"get", "match"} -> {Answer(IF IsThere THEN 200 ELSE 404, None)}
    [] OTHER              -> {}

Unconditional(request) ==
  NoDatabase(request) \cup (IF Works \/ Users(request) = {} THEN Users(request) ELSE Broken)

\* The request with If-None-Match: the etag layer gives an ETag to a 404 and a 503 as well,
\* so that any answer like the one before is a 304.
Matched(status) == IF status = Status(2) /\ status # 500 THEN 304 ELSE status

Handled(request) ==
  IF request = "match"
  THEN {Answer(Matched(answer.status), None) : answer \in Unconditional(request)}
  ELSE Unconditional(request)

Lost == [status |-> None, body |-> None, process |-> 0, store |-> 0]

-----------------------------------------------------------------------------
\* The verdicts, once the answers are there.
run_spec     == Status(1) = 200 /\ Got[1].body = "connected"
version_main == Status(1) = 200 /\ Status(2) = 405

\* Mutant: the instant of the first request is not compared.
StatsByCount == /\ Status(1) = 200 /\ Status(2) = 200 /\ Got[2].body.served > Got[1].body.served
                /\ Status(3) = 405

stats_main == /\ Status(1) = 200 /\ Status(2) = 200 /\ Got[2].body.served > Got[1].body.served
              /\ Got[1].body.first = Got[2].body.first
              /\ Status(3) = 405

derived_main == /\ Status(1) = 200 /\ Status(2) = 200 /\ Got[2].body.served >= Got[1].body.served
                /\ Got[1].body.first = Got[2].body.first
                /\ \A i \in 3..6 : Status(i) = 405

etag_main  == Status(1) = 201 /\ Status(2) = 200 /\ Status(3) = 304

probe_main == /\ Status(1) = 200 /\ Got[1].body
              /\ Status(2) = 201 /\ Status(3) = 200
              /\ Status(4) = 404 /\ Status(5) = 409 /\ Status(6) = 422

\* The assertions of a report, if hurl wrote one: those it evaluated, and a failed one
\* for a file that has none and did not succeed.
twins_main == /\ Status(1) # None /\ Got[2].body # None
              /\ \A t \in Twins : Got[2].body[t] \in {"pass", "broke off later"}

Green == CASE gate.kind = "health"  -> run_spec
           [] gate.kind = "version" -> version_main
           [] gate.kind = "stats"   -> stats_main
           [] gate.kind = "derived" -> derived_main
           [] gate.kind = "etag"    -> etag_main
           [] gate.kind = "probe"   -> probe_main
           [] gate.kind = "twins"   -> twins_main

\* The programs that go no further after an answer: the derived assertions after an
\* exception, the etag gate without a user or an ETag, hurl-twins when nobody answers.
GivesUp ==
  /\ Got # <<>>
  /\ LET last == Status(Len(Got)) IN
     \/ gate.kind = "derived" /\ (last = None \/ (Len(Got) <= 2 /\ last # 200))
     \/ gate.kind = "etag" /\ (Status(1) # 201 \/ (Len(Got) = 2 /\ last \in {None, 500}))
     \/ gate.kind = "twins" /\ last = None

-----------------------------------------------------------------------------
CanBegin == ran < MaxGates /\ (gate = None \/ said # None)

Begin(kind) == gate' = [kind |-> kind, got |-> <<>>] /\ said' = None /\ ran' = ran + 1

\* A program is run on its own, ...
BeginAlone == CanBegin /\ UNCHANGED vars /\ \E kind \in Kinds : Begin(kind)

\* ... or by the driver of the live gate, which first asks for /health, and blames the
\* environment unless that answers 200.
EnvironmentFails == CanBegin /\ gate' = None /\ said' = "environment_fail" /\ ran' = ran + 1

BeginDriven ==
  /\ CanBegin /\ Counted(1) /\ UNCHANGED <<db, tx, users, left>>
  /\ \E health \in health_check :
       IF health.status = 200 THEN \E kind \in Kinds : Begin(kind) ELSE EnvironmentFails

DriveNobody == EnvironmentFails /\ UNCHANGED vars

Takes(answer) == gate' = [gate EXCEPT !.got = Append(@, answer)] /\ UNCHANGED <<said, ran>>

Asking == gate # None /\ said = None /\ More /\ ~GivesUp

\* The probe fetches no user it was not told it made.
NoFetch == gate.kind = "probe" /\ Asked = "get" /\ Status(2) # 201

\* The request reaches nobody (or is not made).
AskNobody == Asking /\ Takes(Lost) /\ UNCHANGED vars

\* It is handled, and its answer is taken or comes too late.
Ask ==
  /\ Asking /\ ~NoFetch /\ Counted(1)
  /\ users' = IF Asked = "create" /\ Works THEN users \cup {Email} ELSE users
  /\ \E answer \in Handled(Asked) \cup {Lost} : Takes(answer)
  /\ UNCHANGED <<db, tx, left>>

\* The exit code: 0; 90 of hurl-twins and 3 of the derived assertions; or 1.
Conclude ==
  /\ gate # None /\ said = None /\ (~More \/ GivesUp)
  /\ said' = IF ~GivesUp THEN (IF Green THEN "green" ELSE "red")
             ELSE CASE gate.kind = "twins" -> "inconclusive"
                    [] gate.kind = "derived" /\ Len(Got) <= 2 -> "unreachable"
                    [] OTHER -> "red"
  /\ UNCHANGED <<vars, gate, ran>>

GatesNext ==
  \/ LifecycleNext /\ UNCHANGED gvars
  \/ BeginAlone \/ BeginDriven \/ DriveNobody \/ AskNobody \/ Ask \/ Conclude

GatesSpec == GatesInit /\ [][GatesNext]_<<vars, gvars>>

-----------------------------------------------------------------------------
\* A program that says the copy is as promised has had an answer to each request, and of
\* one copy: the two statistics it compared are of one process, and the user it made, read
\* and could not make again was in one database, however the copy was replaced, killed or
\* started again between its requests and whatever answers were lost (stats_gate.py,
\* run_derived_assertions.py, etag_generation_and_validation_gate.py, probe.py).
OneSource ==
  said = "green" =>
    /\ \A i \in 1..Len(Script[gate.kind]) : Status(i) # None
    /\ gate.kind \in {"stats", "derived"} => Got[1].process = Got[2].process
    /\ gate.kind = "etag" => Got[1].store = Got[2].store /\ Got[2].store = Got[3].store
    /\ gate.kind = "probe" => Got[2].store = Got[3].store /\ Got[3].store = Got[5].store
=============================================================================
