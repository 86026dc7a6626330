----------------------------- MODULE FeatureCheck -----------------------------
(***************************************************************************)
(* The whole-feature check (qa/feature-check.sh and its helper             *)
(* qa/feature_check_twins.py): a run reads the feature record, starts the  *)
(* candidate's app against a throwaway database, runs the frozen twin of   *)
(* each scenario that has one, asks the feature's entry point what it      *)
(* answers, and says in one line of JSON what was covered and what nothing *)
(* checked.  Several runs share a machine: its containers, its ports and   *)
(* its process ids.  Any of them may be killed, which no trap sees.        *)
(*                                                                         *)
(* Docker, hurl and the factory that kills a run are external.  A process  *)
(* id is not lent again between the two commands of one sweep step.        *)
(***************************************************************************)
EXTENDS Naturals, FiniteSets, Sequences, SequencesExt

CONSTANTS Runs, Ports, None,
          Pid,        \* the process id of each run: a run that is gone may have had it before
          Candidate,  \* of each run: its sha, its record, what its app does, its gate files
          TwinFiles,  \* the twin files, in the order of their paths
          Claims,     \* the titles the comment lines of each twin claim
          Decorated,  \* pairs of a longer title and the title it is with set-off decoration
          Silent,     \* the twins that send no request
          Lower,      \* each title in lower case
          PathOf,     \* gate file to the request path of its SPEC, or None
          NotAFeaturesOwn

could_not_run == [could_not_run |-> TRUE]

ASSUME FeatureConstants ==
  /\ None \notin Runs /\ None # could_not_run
  /\ \A r \in Runs : Candidate[r].record \in Seq(ToSet(Candidate[r].record))

VARIABLES check,      \* the state of each run
          containers, \* containers there are, each with the run that started it
          listening,  \* the run whose app listens on each port, or None
          dirs        \* the runs whose mktemp directory is there

vars == <<check, containers, listening, dirs>>

Idle == [at |-> "new", left |-> {}, plan |-> {}, named |-> <<>>, passed |-> {},
         failed |-> 0, port |-> None, by |-> {}, line |-> None, exit |-> None]

Over   == {"new", "over", "killed"}
Live(r) == check[r].at \notin Over
Alive(pid) == \E r \in Runs : Pid[r] = pid /\ Live(r)
Name(r) == [sha |-> Candidate[r].sha, pid |-> Pid[r]]

-----------------------------------------------------------------------------
\* The helper.
candidate_matches_title(c, title) == c = title \/ <<c, title>> \in Decorated

\* Of one scenario: its twin is the file its stamp names, or the first that claims its title.
TwinOf(row) ==
  LET claiming == SelectSeq(TwinFiles, LAMBDA w :
                    \E c \in Claims[w] : candidate_matches_title(c, row.title))
  IN  IF row.ref \in ToSet(TwinFiles) THEN row.ref
      ELSE IF claiming = <<>> THEN None ELSE Head(claiming)

Stamped(row)  == row.verifier = "hurl"
HasTwin(row)  == Stamped(row) /\ TwinOf(row) # None
Missing(row)  == Stamped(row) /\ TwinOf(row) = None
Other(row)    == ~Stamped(row)

\* The not-checked file is a function from its lines to the names on them.  Of names that
\* differ in case only the first is kept.
read_not_checked(named) ==
  {named[i] : i \in {j \in DOMAIN named :
                       \A k \in DOMAIN named : k < j => Lower[named[k]] # Lower[named[j]]}}

json_line(passed, named) ==
  LET not_checked == read_not_checked(named)
      blocked     == {Lower[n] : n \in not_checked}
  IN  [covered |-> {t \in passed : Lower[t] \notin blocked}, not_checked |-> not_checked]

\* The gate files that are there and are a feature's own.
Own(files) == (files \cap DOMAIN PathOf) \ NotAFeaturesOwn
gate_candidates_from_branch(c) == IF c.base THEN Own(c.changed) ELSE {}
gate_candidates_from_registry(c) ==
  Own({c.registered[id] : id \in DOMAIN c.registered \ (IF c.base THEN c.before ELSE {})})

entry_point(c) ==
  LET branch == gate_candidates_from_branch(c)
      names  == IF branch # {} THEN branch ELSE gate_candidates_from_registry(c)
  IN  IF Cardinality(names) = 1 THEN PathOf[CHOOSE f \in names : TRUE] ELSE None

\* The longest path with a POST above the entry point; paths are sequences of segments.
create_call(posts, entry) ==
  LET parents == {p \in posts : IsStrictPrefix(p, entry) /\ p # <<>> /\ "{id}" \notin ToSet(p)}
  IN  IF parents = {} THEN None ELSE CHOOSE p \in parents : \A q \in parents : Len(q) <= Len(p)

Answers == "what the finished feature answers"

\* Whether observe, asking the app of q, could ask all it wanted.
observe(c, q) ==
  /\ entry_point(c) # None /\ q # None
  /\ create_call(Candidate[q].posts, entry_point(c)) # None

-----------------------------------------------------------------------------
Init == /\ check = [r \in Runs |-> Idle]
        /\ containers = {}
        /\ listening = [p \in Ports |-> None]
        /\ dirs = {}

Now(r, at) == check[r].at = at
Goes(r, new) ==
  check' = [check EXCEPT ![r] = [f \in DOMAIN @ |-> IF f \in DOMAIN new THEN new[f] ELSE @[f]]]

\* Mutant: the app is left to itself.
CleanupDatabase(r) ==
  /\ containers' = {c \in containers : c.name # Name(r)}
  /\ dirs' = dirs \ {r}
  /\ UNCHANGED listening

\* The trap: the app, the container of that name, the directory.
Cleanup(r) ==
  /\ containers' = {c \in containers : c.name # Name(r)}
  /\ dirs' = dirs \ {r}
  /\ listening' = [p \in Ports |-> IF listening[p] = r THEN None ELSE listening[p]]

Exit(r, code, line) ==
  /\ Goes(r, [at |-> "over", exit |-> code, line |-> line])
  /\ Cleanup(r)

\* A run begins, under a process id that no live process has.
Begin(r) ==
  /\ Now(r, "new") /\ ~Alive(Pid[r])
  /\ Goes(r, [at |-> "sweep", left |-> containers])
  /\ UNCHANGED <<containers, listening, dirs>>

\* Mutant: whatever carries the prefix is debris.
SweepAny(r) ==
  /\ Now(r, "sweep")
  /\ \E c \in check[r].left :
       /\ Goes(r, [left |-> check[r].left \ {c}])
       /\ containers' = IF c.name.pid = Pid[r] THEN containers ELSE containers \ {c}
  /\ UNCHANGED <<listening, dirs>>

\* sweep_own_debris, a name at a time.
Sweep(r) ==
  /\ Now(r, "sweep")
  /\ \E c \in check[r].left :
       /\ Goes(r, [left |-> check[r].left \ {c}])
       /\ containers' = IF c.name.pid = Pid[r] \/ Alive(c.name.pid) THEN containers
                        ELSE containers \ {c}
  /\ UNCHANGED <<listening, dirs>>

Swept(r) ==
  /\ Now(r, "sweep") /\ check[r].left = {}
  /\ Goes(r, [at |-> "record"])
  /\ dirs' = dirs \cup {r}
  /\ UNCHANGED <<containers, listening>>

\* Mutant: what another verifier owns is not mentioned.
ReadStamped(r) ==
  LET rows == Candidate[r].record IN
  /\ Now(r, "record") /\ rows # <<>>
  /\ Goes(r, [at |-> "database", plan |-> {i \in DOMAIN rows : HasTwin(rows[i])},
              named |-> [i \in {j \in DOMAIN rows : Missing(rows[j])} |-> rows[i].title]])
  /\ UNCHANGED <<containers, listening, dirs>>

\* The scenarios to run, by their place in the record, and the lines that name the others:
\* those without a twin come before those of another verifier.
ReadRecord(r) ==
  LET rows    == Candidate[r].record
      missing == {i \in DOMAIN rows : Missing(rows[i])}
      other   == {Len(rows) + i : i \in {j \in DOMAIN rows : Other(rows[j])}}
  IN
  /\ Now(r, "record") /\ rows # <<>>
  /\ Goes(r, [at |-> "database", plan |-> {i \in DOMAIN rows : HasTwin(rows[i])},
              named |-> [i \in missing \cup other |->
                           rows[IF i \in missing THEN i ELSE i - Len(rows)].title]])
  /\ UNCHANGED <<containers, listening, dirs>>

\* No record was named, it cannot be read, or it names no scenario.
RefuseRecord(r) == Now(r, "record") /\ Exit(r, 1, None)

StartDatabase(r) ==
  /\ Now(r, "database") /\ \A c \in containers : c.name # Name(r)
  /\ containers' = containers \cup {[name |-> Name(r), owner |-> r]}
  /\ Goes(r, [at |-> "migrate"])
  /\ UNCHANGED <<listening, dirs>>

\* The worktree cannot be entered: exit 2, and nothing is said.
CannotEnter(r) ==
  /\ Now(r, "new") /\ ~Alive(Pid[r])
  /\ Goes(r, [at |-> "over", exit |-> 2, line |-> None])
  /\ UNCHANGED <<containers, listening, dirs>>

\* No interpreter, no hurl for the twins there are, no container runtime, a name that is
\* taken, a database that does not get ready, no port.  Before the sweep there is no trap.
CouldNotRun(r) ==
  \/ /\ Now(r, "new") /\ ~Alive(Pid[r])
     /\ Goes(r, [at |-> "over", exit |-> 2, line |-> could_not_run])
     /\ UNCHANGED <<containers, listening, dirs>>
  \/ /\ Now(r, "database") \/ Now(r, "migrate") \/ Now(r, "port")
     /\ Exit(r, 2, could_not_run)

Migrate(r) ==
  /\ Now(r, "migrate")
  /\ Goes(r, [at |-> "port"])
  /\ UNCHANGED <<containers, listening, dirs>>

\* freeport: a port nobody listens on now; the socket that found it is closed.
FreePort(r) ==
  /\ Now(r, "port")
  /\ \E p \in Ports : listening[p] = None /\ Goes(r, [at |-> "app", port |-> p])
  /\ UNCHANGED <<containers, listening, dirs>>

StartApp(r) ==
  /\ Now(r, "app")
  /\ Goes(r, [at |-> "health"])
  /\ \/ UNCHANGED listening   \* it does not start, or its port is taken
     \/ /\ listening[check[r].port] = None
        /\ listening' = [listening EXCEPT ![check[r].port] = r]
  /\ UNCHANGED <<containers, dirs>>

\* wait-health takes the answer of whatever listens there.
Healthy(r) ==
  /\ Now(r, "health") /\ listening[check[r].port] # None
  /\ Goes(r, [at |-> "twins"])
  /\ UNCHANGED <<containers, listening, dirs>>

\* What the helper prints of the titles passed: nothing when it fails, as on a file it
\* cannot decode.  Nobody looks at its exit code.
Printed(r, passed) == {json_line(passed, check[r].named), None}

\* The migrations fail, or nothing answers in time.
ProductFails(r) ==
  /\ Now(r, "migrate") \/ Now(r, "health")
  /\ \E line \in Printed(r, {}) : Exit(r, 1, line)

\* hurl against what listens on the port: how many requests it reports, -1 for no report,
\* and its exit code.  It may be cut off or time out; it is clean when the asserts hold.
Hurl(r, twin) ==
  LET q == listening[check[r].port]
      holds == q # None /\ twin \in Candidate[q].works /\ \E c \in containers : c.owner = q
  IN  {[sent |-> "none", clean |-> FALSE], [sent |-> "unreadable", clean |-> FALSE]} \cup
      (IF twin \in Silent THEN {[sent |-> "none", clean |-> TRUE]}
       ELSE {[sent |-> "some", clean |-> b] : b \in {FALSE, holds}})

\* Mutant: the exit code alone decides.
TwinByCode(r) ==
  /\ Now(r, "twins")
  /\ \E i \in check[r].plan :
       /\ \A j \in check[r].plan : i <= j
       /\ \E got \in Hurl(r, TwinOf(Candidate[r].record[i])) :
            Goes(r, [plan |-> check[r].plan \ {i},
                     by |-> check[r].by \cup {listening[check[r].port]},
                     passed |-> check[r].passed \cup
                                  (IF got.clean THEN {Candidate[r].record[i].title} ELSE {}),
                     failed |-> check[r].failed + (IF got.clean THEN 0 ELSE 1)])
  /\ UNCHANGED <<containers, listening, dirs>>

\* The next twin, in the order of the record.
RunTwin(r) ==
  /\ Now(r, "twins")
  /\ \E i \in check[r].plan :
       /\ \A j \in check[r].plan : i <= j
       /\ \E got \in Hurl(r, TwinOf(Candidate[r].record[i])) :
            LET pass == got.sent = "some" /\ got.clean IN
            Goes(r, [plan |-> check[r].plan \ {i},
                     by |-> check[r].by \cup {listening[check[r].port]},
                     passed |-> check[r].passed \cup
                                  (IF pass THEN {Candidate[r].record[i].title} ELSE {}),
                     failed |-> check[r].failed + (IF pass THEN 0 ELSE 1)])
  /\ UNCHANGED <<containers, listening, dirs>>

\* observe reads the published interface of the app, or fails to; what it could not ask is
\* one more line.
WithAnswers(named, line) ==
  [i \in DOMAIN named \cup {line} |-> IF i \in DOMAIN named THEN named[i] ELSE Answers]

Observe(r) ==
  LET named == check[r].named IN
  /\ Now(r, "twins") /\ check[r].plan = {}
  /\ \E asked \in {FALSE, observe(Candidate[r], listening[check[r].port])} :
       Goes(r, [at |-> "report",
                named |-> IF asked THEN named
                          ELSE WithAnswers(named, 2 * Len(Candidate[r].record) + 1)])
  /\ UNCHANGED <<containers, listening, dirs>>

Report(r) ==
  /\ Now(r, "report")
  /\ \E line \in Printed(r, check[r].passed) : Exit(r, IF check[r].failed > 0 THEN 1 ELSE 0, line)

\* SIGKILL: the container, the app and the directory stay.
Kill(r) ==
  /\ Live(r)
  /\ Goes(r, [at |-> "killed"])
  /\ UNCHANGED <<containers, listening, dirs>>

Next == \E r \in Runs :
  \/ Begin(r) \/ Sweep(r) \/ Swept(r) \/ ReadRecord(r) \/ RefuseRecord(r) \/ StartDatabase(r)
  \/ CannotEnter(r) \/ CouldNotRun(r) \/ Migrate(r) \/ FreePort(r) \/ StartApp(r) \/ Healthy(r) \/ ProductFails(r)
  \/ RunTwin(r) \/ Observe(r) \/ Report(r) \/ Kill(r)

Spec == Init /\ [][Next]_vars

-----------------------------------------------------------------------------
Said(r) == check[r].line \notin {None, could_not_run}
Rows(r) == ToSet(Candidate[r].record)

\* What the line of JSON names as covered was proved: a twin of that title sent requests
\* and the app that answered, the candidate's own unless its port was lost to another
\* run, did what it asserts.  Nothing of that title is also named as not checked.
CoveredIsProved == \A r \in Runs : Said(r) => \A t \in check[r].line.covered :
  /\ \E row \in Rows(r) : /\ row.title = t /\ HasTwin(row) /\ TwinOf(row) \notin Silent
                          /\ \E q \in check[r].by \ {None} : TwinOf(row) \in Candidate[q].works
  /\ \A n \in check[r].line.not_checked : Lower[n] # Lower[t]

\* A line leaves nothing out that was not checked: whatever its run exits with, it names
\* every scenario without a twin as such, and next to exit 0 it names every scenario of
\* the record.  Exit 0 means that those with a twin all passed, even where no line was
\* printed; that a run could not run goes with exit 2 only, and a verdict never does.
NothingSlips == \A r \in Runs : Now(r, "over") =>
  /\ Said(r) => LET line == check[r].line IN
       /\ \A row \in Rows(r) : ~HasTwin(row) =>
            Lower[row.title] \in {Lower[n] : n \in line.not_checked}
       /\ check[r].exit = 0 => \A row \in Rows(r) :
            Lower[row.title] \in {Lower[t] : t \in line.covered \cup line.not_checked}
  /\ check[r].exit = 0 => \A row \in Rows(r) : HasTwin(row) => row.title \in check[r].passed
  /\ check[r].line = could_not_run => check[r].exit = 2
  /\ check[r].exit = 2 => ~Said(r)

\* A run that ends by itself leaves nothing behind (feature-check.sh:44), and leaves the
\* containers, apps and directories of the other runs alone until those are gone.
EndsClean == \A r \in Runs : Now(r, "over") =>
  /\ \A c \in containers : c.owner # r
  /\ \A p \in Ports : listening[p] # r
  /\ r \notin dirs

\* A container is removed by its own run or when that run is gone.
LiveSpared ==
  [][\A c \in containers \ containers' : Live(c.owner) => check'[c.owner].at = "over"]_vars
=============================================================================
