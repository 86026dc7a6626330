-------------------------- MODULE FeatureCheckProofs --------------------------
(***************************************************************************)
(* Proofs about FeatureCheck, for any number of runs, ports and process    *)
(* ids: a run that ends by itself leaves nothing, no run takes the         *)
(* container of another one that is alive, what a run names as covered was *)
(* proved, and its line leaves no scenario of its record out.              *)
(***************************************************************************)
EXTENDS FeatureCheck, TLAPS, WellFoundedInduction

Steps == Over \cup {"sweep", "record", "database", "migrate", "port", "app", "health", "twins",
                    "report"}

\* Of a run, all that these proofs speak of.
StepOK == \A r \in Runs : "at" \in DOMAIN check[r] /\ check[r].at \in Steps

\* No two live runs have one process id.
PidsDiffer == \A r, q \in Runs : Live(r) /\ Live(q) /\ Pid[r] = Pid[q] => r = q

\* What there is belongs to a run that has made it, and is under way or was killed.
Owned ==
  /\ \A c \in containers : /\ c.owner \in Runs /\ c.name = Name(c.owner)
                           /\ check[c.owner].at \notin {"new", "sweep", "record", "database", "over"}
  /\ listening \in [Ports -> Runs \cup {None}]
  /\ \A p \in Ports : listening[p] # None =>
       check[listening[p]].at \in {"health", "twins", "report", "killed"}
  /\ dirs \subseteq {r \in Runs : check[r].at \notin {"new", "sweep", "over"}}

CheckInv == /\ DOMAIN check = Runs
            /\ StepOK /\ PidsDiffer /\ Owned

USE DEF Now, Live, Over

-----------------------------------------------------------------------------
\* One run goes to a step; the others stay where they are.
Moves(r, at) ==
  /\ DOMAIN check' = Runs
  /\ \A q \in Runs \ {r} : check'[q] = check[q]
  /\ "at" \in DOMAIN check'[r] /\ check'[r].at = at

LEMMA GoesMoves ==
  ASSUME CheckInv, NEW r \in Runs, NEW new, Goes(r, new)
  PROVE  /\ "at" \in DOMAIN new => Moves(r, new.at)
         /\ "at" \notin DOMAIN new => Moves(r, check[r].at)
<1>1. check' = [check EXCEPT ![r] =
                  [f \in DOMAIN check[r] |-> IF f \in DOMAIN new THEN new[f] ELSE check[r][f]]]
  BY DEF Goes
<1>2. check'[r] = [f \in DOMAIN check[r] |-> IF f \in DOMAIN new THEN new[f] ELSE check[r][f]]
  BY <1>1 DEF CheckInv
<1>3. DOMAIN check' = Runs /\ \A q \in Runs \ {r} : check'[q] = check[q]
  BY <1>1 DEF CheckInv
<1>4. "at" \in DOMAIN check[r]
  BY DEF CheckInv, StepOK
<1> QED  BY <1>2, <1>3, <1>4 DEF Moves

\* A run that goes on, or begins under a process id no live run has.
LEMMA MoveKeeps ==
  ASSUME CheckInv, NEW r \in Runs, NEW at \in Steps, Moves(r, at), Live(r) \/ ~Alive(Pid[r])
  PROVE  DOMAIN check' = Runs /\ StepOK' /\ PidsDiffer'
<1>1. StepOK'
  BY DEF CheckInv, StepOK, Moves
<1>2. \A q \in Runs : Live(q) /\ Pid[q] = Pid[r] => q = r
  BY DEF CheckInv, PidsDiffer, Alive
<1>3. PidsDiffer'
  BY <1>2 DEF CheckInv, PidsDiffer, Moves
<1> QED  BY <1>1, <1>3 DEF Moves

\* A step that takes nothing and leaves nothing.
LEMMA OnwardKeeps ==
  ASSUME CheckInv, NEW r \in Runs, NEW at \in Steps, Moves(r, at),
         Live(r), UNCHANGED <<containers, listening, dirs>>, at \notin {"new", "sweep", "over"},
         at \in {"record", "database"} => check[r].at = "record",
         check[r].at \in {"health", "twins", "report"} => at \in {"health", "twins", "report", "killed"}
  PROVE  CheckInv'
<1>1. Owned'
  BY DEF CheckInv, Owned, Moves, Name, Steps
<1> QED  BY <1>1, MoveKeeps DEF CheckInv

LEMMA BeginKeeps ==
  ASSUME CheckInv, NEW r \in Runs, Begin(r)
  PROVE  CheckInv'
<1>1. Moves(r, "sweep")
  BY GoesMoves DEF Begin
<1>2. Owned'
  BY <1>1 DEF Begin, CheckInv, Owned, Moves, Name
<1> QED  BY <1>1, <1>2, MoveKeeps DEF CheckInv, Begin, Steps

LEMMA NamesTell ==
  ASSUME NEW r \in Runs
  PROVE  Name(r).pid = Pid[r]
BY DEF Name

\* A sweep takes the containers of runs that are gone only.
LEMMA SweepSpares ==
  ASSUME CheckInv, NEW r \in Runs, Sweep(r)
  PROVE  /\ Moves(r, "sweep") /\ containers' \subseteq containers
         /\ \A c \in containers \ containers' : ~Live(c.owner)
<1>1. PICK c \in check[r].left :
        /\ Goes(r, [left |-> check[r].left \ {c}])
        /\ containers' = IF c.name.pid = Pid[r] \/ Alive(c.name.pid) THEN containers
                         ELSE containers \ {c}
  BY DEF Sweep
<1>2. Moves(r, "sweep")
  BY <1>1, GoesMoves DEF Sweep
<1>3. \A d \in containers : d.name.pid = Pid[d.owner] /\ d.owner \in Runs
  <2>1. \A d \in containers : d.owner \in Runs /\ d.name = Name(d.owner)
    BY DEF CheckInv, Owned
  <2> QED  BY <2>1, NamesTell
<1>4. containers' \subseteq containers
  BY <1>1
<1>5. \A d \in containers \ containers' : d = c /\ ~Alive(c.name.pid)
  BY <1>1
<1> QED  BY <1>2, <1>3, <1>4, <1>5 DEF Alive

LEMMA SweepKeeps ==
  ASSUME CheckInv, NEW r \in Runs, Sweep(r)
  PROVE  CheckInv'
<1>1. UNCHANGED <<listening, dirs>> /\ Live(r) /\ check[r].at = "sweep"
  BY DEF Sweep
<1>2. Owned'
  BY <1>1, SweepSpares DEF CheckInv, Owned, Moves, Name
<1> QED  BY <1>1, <1>2, SweepSpares, MoveKeeps DEF CheckInv, Steps

LEMMA SweptKeeps ==
  ASSUME CheckInv, NEW r \in Runs, Swept(r)
  PROVE  CheckInv'
<1>1. Moves(r, "record")
  BY GoesMoves DEF Swept
<1>2. Owned'
  BY <1>1 DEF Swept, CheckInv, Owned, Moves, Name
<1> QED  BY <1>1, <1>2, MoveKeeps DEF CheckInv, Swept, Steps

LEMMA StartDatabaseKeeps ==
  ASSUME CheckInv, NEW r \in Runs, StartDatabase(r)
  PROVE  CheckInv'
<1>1. Moves(r, "migrate")
  BY GoesMoves DEF StartDatabase
<1>2. Owned'
  BY <1>1 DEF StartDatabase, CheckInv, Owned, Moves, Name
<1> QED  BY <1>1, <1>2, MoveKeeps DEF CheckInv, StartDatabase, Steps

LEMMA StartAppKeeps ==
  ASSUME CheckInv, NEW r \in Runs, StartApp(r)
  PROVE  CheckInv'
<1>1. Moves(r, "health")
  BY GoesMoves DEF StartApp
<1>2. \A p \in Ports : listening'[p] = listening[p] \/ listening'[p] = r
  BY DEF StartApp, CheckInv, Owned
<1>3. listening' \in [Ports -> Runs \cup {None}]
  BY DEF StartApp, CheckInv, Owned
<1>4. Owned'
  BY <1>1, <1>2, <1>3 DEF StartApp, CheckInv, Owned, Moves, Name
<1> QED  BY <1>1, <1>4, MoveKeeps DEF CheckInv, StartApp, Steps

\* The trap takes what is its own: who else lives has another process id.
LEMMA ExitSpares ==
  ASSUME CheckInv, NEW r \in Runs, NEW code, NEW line, Exit(r, code, line), Live(r)
  PROVE  /\ Moves(r, "over") /\ containers' \subseteq containers
         /\ \A c \in containers' : c.owner # r
         /\ \A c \in containers \ containers' : Live(c.owner) => c.owner = r
<1>1. Moves(r, "over")
  BY GoesMoves DEF Exit
<1>2. containers' = {c \in containers : c.name # Name(r)}
  BY DEF Exit, Cleanup
<1>3. \A c \in containers : c.owner \in Runs /\ c.name = Name(c.owner)
  BY DEF CheckInv, Owned
<1>4. \A c \in containers : c.name = Name(r) => Pid[c.owner] = Pid[r]
  BY <1>3, NamesTell
<1>5. \A c \in containers \ containers' : Live(c.owner) => c.owner = r
  BY <1>2, <1>3, <1>4 DEF CheckInv, PidsDiffer
<1>6. containers' \subseteq containers /\ \A c \in containers' : c.owner # r
  BY <1>2, <1>3
<1> QED  BY <1>1, <1>5, <1>6

LEMMA ExitKeeps ==
  ASSUME CheckInv, NEW r \in Runs, NEW code, NEW line, Exit(r, code, line), Live(r)
  PROVE  CheckInv'
<1>1. dirs' = dirs \ {r} /\ listening' = [p \in Ports |-> IF listening[p] = r THEN None ELSE listening[p]]
  BY DEF Exit, Cleanup
<1>2. listening' \in [Ports -> Runs \cup {None}] /\ \A p \in Ports : listening'[p] \in {listening[p], None}
  BY <1>1 DEF CheckInv, Owned
<1>3. \A p \in Ports : listening'[p] # None => listening[p] = listening'[p] /\ listening[p] # r
  BY <1>1, <1>2
<1>4. Owned'
  BY <1>1, <1>2, <1>3, ExitSpares DEF CheckInv, Owned, Moves, Name
<1> QED  BY <1>4, ExitSpares, MoveKeeps DEF CheckInv, Steps

\* A run refused before it has begun takes nothing.
LEMMA RefusedKeeps ==
  ASSUME CheckInv, NEW r \in Runs, Now(r, "new"), ~Alive(Pid[r]), Moves(r, "over"),
         UNCHANGED <<containers, listening, dirs>>
  PROVE  CheckInv'
<1>1. Owned'
  BY DEF CheckInv, Owned, Moves, Name
<1> QED  BY <1>1, MoveKeeps DEF CheckInv, Steps

LEMMA CannotEnterKeeps ==
  ASSUME CheckInv, NEW r \in Runs, CannotEnter(r)
  PROVE  CheckInv'
<1>1. Goes(r, [at |-> "over", exit |-> 2, line |-> None])
  BY DEF CannotEnter
<1>2. Moves(r, "over")
  BY <1>1, GoesMoves
<1> QED  BY <1>2, RefusedKeeps DEF CannotEnter

LEMMA CouldNotRunKeeps ==
  ASSUME CheckInv, NEW r \in Runs, CouldNotRun(r)
  PROVE  CheckInv'
<1>1. CASE Now(r, "new")
  <2>1. /\ ~Alive(Pid[r]) /\ UNCHANGED <<containers, listening, dirs>>
        /\ Goes(r, [at |-> "over", exit |-> 2, line |-> could_not_run])
    BY <1>1 DEF CouldNotRun
  <2>2. Moves(r, "over")
    BY <2>1, GoesMoves
  <2> QED  BY <1>1, <2>1, <2>2, RefusedKeeps
<1>2. CASE ~Now(r, "new")
  BY <1>2, ExitKeeps DEF CouldNotRun
<1> QED  BY <1>1, <1>2

-----------------------------------------------------------------------------
LEMMA CheckStart ==
  ASSUME Init
  PROVE  CheckInv
<1>1. \A r \in Runs : check[r].at = "new" /\ "at" \in DOMAIN check[r]
  BY DEF Init, Idle
<1> QED  BY <1>1, FeatureConstants DEF Init, CheckInv, StepOK, PidsDiffer, Owned, Steps

\* The steps that take nothing and leave nothing.
LEMMA OtherKeeps ==
  ASSUME CheckInv, NEW r \in Runs,
         ReadRecord(r) \/ Migrate(r) \/ FreePort(r) \/ Healthy(r) \/ RunTwin(r) \/ Observe(r) \/ Kill(r)
  PROVE  CheckInv'
<1>1. CASE ReadRecord(r)
  <2>1. check[r].at = "record" /\ UNCHANGED <<containers, listening, dirs>>
    BY <1>1 DEF ReadRecord
  <2>2. Moves(r, "database")
    BY <1>1, <2>1, GoesMoves DEF ReadRecord
  <2> QED  BY <2>1, <2>2, OnwardKeeps DEF Steps
<1>2. CASE Migrate(r)
  <2>1. check[r].at = "migrate" /\ UNCHANGED <<containers, listening, dirs>>
    BY <1>2 DEF Migrate
  <2>2. Moves(r, "port")
    BY <1>2, <2>1, GoesMoves DEF Migrate
  <2> QED  BY <2>1, <2>2, OnwardKeeps DEF Steps
<1>3. CASE FreePort(r)
  <2>1. check[r].at = "port" /\ UNCHANGED <<containers, listening, dirs>>
    BY <1>3 DEF FreePort
  <2>2. Moves(r, "app")
    BY <1>3, <2>1, GoesMoves DEF FreePort
  <2> QED  BY <2>1, <2>2, OnwardKeeps DEF Steps
<1>4. CASE Healthy(r)
  <2>1. check[r].at = "health" /\ UNCHANGED <<containers, listening, dirs>>
    BY <1>4 DEF Healthy
  <2>2. Moves(r, "twins")
    BY <1>4, <2>1, GoesMoves DEF Healthy
  <2> QED  BY <2>1, <2>2, OnwardKeeps DEF Steps
<1>5. CASE RunTwin(r)
  <2>1. check[r].at = "twins" /\ UNCHANGED <<containers, listening, dirs>>
    BY <1>5 DEF RunTwin
  <2>2. Moves(r, "twins")
    BY <1>5, <2>1, GoesMoves DEF RunTwin
  <2> QED  BY <2>1, <2>2, OnwardKeeps DEF Steps
<1>6. CASE Observe(r)
  <2>1. check[r].at = "twins" /\ UNCHANGED <<containers, listening, dirs>>
    BY <1>6 DEF Observe
  <2>2. Moves(r, "report")
    BY <1>6, <2>1, GoesMoves DEF Observe
  <2> QED  BY <2>1, <2>2, OnwardKeeps DEF Steps
<1>7. CASE Kill(r)
  <2>1. Live(r) /\ UNCHANGED <<containers, listening, dirs>>
    BY <1>7 DEF Kill
  <2>2. Moves(r, "killed")
    BY <1>7, <2>1, GoesMoves DEF Kill
  <2> QED  BY <2>1, <2>2, OnwardKeeps DEF Steps
<1> QED  BY <1>1, <1>2, <1>3, <1>4, <1>5, <1>6, <1>7

LEMMA CheckStep ==
  ASSUME CheckInv, [Next]_vars
  PROVE  CheckInv'
<1>1. ASSUME NEW r \in Runs, RefuseRecord(r) \/ ProductFails(r) \/ Report(r)
      PROVE  CheckInv'
  BY <1>1, ExitKeeps DEF RefuseRecord, ProductFails, Report
<1>2. CASE UNCHANGED vars
  BY <1>2 DEF vars, CheckInv, StepOK, PidsDiffer, Owned, Name
<1> QED  BY <1>1, <1>2, BeginKeeps, SweepKeeps, SweptKeeps, StartDatabaseKeeps, StartAppKeeps,
            CannotEnterKeeps, CouldNotRunKeeps, OtherKeeps DEF Next

\* Whose each container, app and directory is, at every step.
THEOREM CheckInvariant == Spec => []CheckInv
<1>1. Init => CheckInv
  BY CheckStart
<1>2. CheckInv /\ [Next]_vars => CheckInv'
  BY CheckStep
<1> QED  BY <1>1, <1>2, PTL DEF Spec

\* A run that ends by itself leaves no container, no app and no directory, whoever was
\* killed beside it and whatever step it ended at.
THEOREM RunsEndClean == Spec => []EndsClean
<1>1. CheckInv => EndsClean
  BY FeatureConstants DEF CheckInv, Owned, EndsClean
<1> QED  BY <1>1, CheckInvariant, PTL

SparedStep == \A c \in containers \ containers' : Live(c.owner) => check'[c.owner].at = "over"

LEMMA StepSpares ==
  ASSUME CheckInv, [Next]_vars
  PROVE  [SparedStep]_vars
<1>1. ASSUME NEW r \in Runs, NEW code, NEW line, Exit(r, code, line), Live(r)
      PROVE  SparedStep
  BY <1>1, ExitSpares DEF SparedStep, Moves
<1>2. ASSUME NEW r \in Runs, RefuseRecord(r) \/ ProductFails(r) \/ Report(r) \/ CouldNotRun(r)
      PROVE  SparedStep
  BY <1>1, <1>2 DEF RefuseRecord, ProductFails, Report, CouldNotRun, SparedStep
<1>3. ASSUME NEW r \in Runs, Sweep(r)
      PROVE  SparedStep
  BY <1>3, SweepSpares DEF SparedStep
<1>4. ASSUME NEW r \in Runs, StartDatabase(r)
      PROVE  SparedStep
  BY <1>4 DEF StartDatabase, SparedStep
<1>5. ASSUME NEW r \in Runs, UNCHANGED containers
      PROVE  SparedStep
  BY <1>5 DEF SparedStep
<1> QED  BY <1>2, <1>3, <1>4, <1>5
     DEF Next, vars, Begin, Swept, ReadRecord, Migrate, FreePort, StartApp, Healthy, RunTwin, Observe,
         Kill, CannotEnter

\* No run, by its sweep or its trap, takes the database of another one that is alive,
\* even where their candidates or the process ids of dead runs are the same.
THEOREM LiveRunsAreSpared == Spec => LiveSpared
<1>1. CheckInv /\ [Next]_vars => [SparedStep]_vars
  BY StepSpares
<1> QED  BY <1>1, CheckInvariant, PTL DEF Spec, LiveSpared, SparedStep

-----------------------------------------------------------------------------
\* What a run reports.  The parts of its state, and the lines of its not-checked file.
FieldsOK == DOMAIN check = Runs /\ \A r \in Runs : DOMAIN check[r] = DOMAIN Idle

Record(r) == Candidate[r].record

\* A title is passed by a twin of its own that sent requests and whose app did what it asserts.
Proved(r, t, by) ==
  \E row \in Rows(r) : /\ row.title = t /\ HasTwin(row) /\ TwinOf(row) \notin Silent
                       /\ \E q \in by \ {None} : TwinOf(row) \in Candidate[q].works

ProofsOK(r) ==
  /\ \A t \in check[r].passed : Proved(r, t, check[r].by)
  /\ \A i \in check[r].plan : i \in DOMAIN Record(r) /\ HasTwin(Record(r)[i])

LinesOK(r) == DOMAIN check[r].named \subseteq Nat /\ check[r].failed \in Nat

\* A scenario of the record is planned, has passed or has failed, or is named as not checked.
Minded(r) == \A i \in DOMAIN Record(r) :
  /\ HasTwin(Record(r)[i]) =>
       i \in check[r].plan \/ Record(r)[i].title \in check[r].passed \/ check[r].failed > 0
  /\ ~HasTwin(Record(r)[i]) => \E j \in DOMAIN check[r].named : check[r].named[j] = Record(r)[i].title

MindedOK(r) ==
  /\ check[r].at \in {"database", "migrate", "port", "app", "health", "twins", "report"} => Minded(r)
  /\ check[r].at = "report" => check[r].plan = {}

\* A run says something when it ends, if at all: with a verdict all is minded.
SaidOK(r) ==
  /\ check[r].at # "over" => check[r].line = None
  /\ check[r].at = "over" =>
       \/ check[r].exit = 2 /\ check[r].line \in {could_not_run, None}
       \/ check[r].exit = 1 /\ check[r].line = None
       \/ /\ check[r].exit = 1 /\ Minded(r)
          /\ check[r].line \in {json_line({}, check[r].named), json_line(check[r].passed, check[r].named)}
       \/ /\ check[r].exit = 0 /\ check[r].line \in {json_line(check[r].passed, check[r].named), None}
          /\ Minded(r) /\ check[r].plan = {} /\ check[r].failed = 0

ReportOK(r) == ProofsOK(r) /\ LinesOK(r) /\ MindedOK(r) /\ SaidOK(r)
ReportInv   == FieldsOK /\ \A r \in Runs : ReportOK(r)

\* What a step of a run leaves of its state.
LEMMA GoesSets ==
  ASSUME FieldsOK, NEW r \in Runs, NEW new, Goes(r, new)
  PROVE  /\ FieldsOK' /\ \A q \in Runs \ {r} : check'[q] = check[q]
         /\ \A f \in DOMAIN Idle : check'[r][f] = IF f \in DOMAIN new THEN new[f] ELSE check[r][f]
<1>1. check' = [check EXCEPT ![r] =
                  [f \in DOMAIN check[r] |-> IF f \in DOMAIN new THEN new[f] ELSE check[r][f]]]
  BY DEF Goes
<1>2. check'[r] = [f \in DOMAIN Idle |-> IF f \in DOMAIN new THEN new[f] ELSE check[r][f]]
  BY <1>1 DEF FieldsOK
<1>3. DOMAIN check' = Runs /\ \A q \in Runs \ {r} : check'[q] = check[q]
  BY <1>1 DEF FieldsOK
<1>4. DOMAIN check'[r] = DOMAIN Idle
  BY <1>2
<1> QED  BY <1>2, <1>3, <1>4 DEF FieldsOK

LEMMA IdleFields ==
  DOMAIN Idle = {"at", "left", "plan", "named", "passed", "failed", "port", "by", "line", "exit"}
BY DEF Idle

LEMMA OthersReport ==
  ASSUME NEW q \in Runs, ReportOK(q), check'[q] = check[q]
  PROVE  ReportOK(q)'
<1>1. Minded(q)' <=> Minded(q)
  BY DEF Minded
<1>2. ProofsOK(q)' /\ LinesOK(q)'
  BY DEF ReportOK, ProofsOK, LinesOK
<1>3. MindedOK(q)' /\ SaidOK(q)'
  BY <1>1 DEF ReportOK, MindedOK, SaidOK
<1> QED  BY <1>2, <1>3 DEF ReportOK

\* A step that leaves the report alone and does not end the run.
LEMMA QuietReport ==
  ASSUME ReportInv, NEW r \in Runs, NEW new, Goes(r, new),
         DOMAIN new \cap {"plan", "named", "passed", "failed", "by", "line", "exit"} = {},
         NEW at, at = (IF "at" \in DOMAIN new THEN new["at"] ELSE check[r].at),
         check[r].at # "over", at \notin {"over", "report"},
         at \in {"database", "migrate", "port", "app", "health", "twins"} =>
           check[r].at \in {"database", "migrate", "port", "app", "health", "twins"}
  PROVE  ReportInv'
<1>1. /\ FieldsOK' /\ \A q \in Runs \ {r} : check'[q] = check[q]
      /\ \A f \in DOMAIN Idle : check'[r][f] = IF f \in DOMAIN new THEN new[f] ELSE check[r][f]
  BY GoesSets DEF ReportInv
<1>2. /\ check'[r].plan = check[r].plan /\ check'[r].named = check[r].named
      /\ check'[r].passed = check[r].passed /\ check'[r].failed = check[r].failed
      /\ check'[r].by = check[r].by /\ check'[r].line = check[r].line /\ check'[r].exit = check[r].exit
      /\ check'[r].at = at
  BY <1>1, IdleFields
<1>3. Minded(r)' <=> Minded(r)
  BY <1>2 DEF Minded
<1>4. ProofsOK(r)' /\ LinesOK(r)'
  BY <1>2 DEF ReportInv, ReportOK, ProofsOK, LinesOK
<1>5. MindedOK(r)'
  BY <1>2, <1>3 DEF ReportInv, ReportOK, MindedOK
<1>6. SaidOK(r)'
  BY <1>2 DEF ReportInv, ReportOK, SaidOK
<1>7. \A q \in Runs \ {r} : ReportOK(q)'
  BY <1>1, OthersReport DEF ReportInv
<1> QED  BY <1>1, <1>4, <1>5, <1>6, <1>7 DEF ReportInv, ReportOK

\* A step that ends the run, with what it says.
LEMMA ExitReport ==
  ASSUME ReportInv, NEW r \in Runs, NEW code, NEW line,
         Goes(r, [at |-> "over", exit |-> code, line |-> line]), check[r].at # "over",
         \/ code = 2 /\ line \in {could_not_run, None}
         \/ code = 1 /\ line = None
         \/ /\ code = 1 /\ Minded(r)
            /\ line \in {json_line({}, check[r].named), json_line(check[r].passed, check[r].named)}
         \/ /\ code = 0 /\ line \in {json_line(check[r].passed, check[r].named), None}
            /\ Minded(r) /\ check[r].plan = {} /\ check[r].failed = 0
  PROVE  ReportInv'
<1>1. /\ FieldsOK' /\ \A q \in Runs \ {r} : check'[q] = check[q]
      /\ \A f \in DOMAIN Idle :
           check'[r][f] = IF f \in DOMAIN [at |-> "over", exit |-> code, line |-> line]
                            THEN [at |-> "over", exit |-> code, line |-> line][f] ELSE check[r][f]
  BY GoesSets DEF ReportInv
<1>2. /\ check'[r].plan = check[r].plan /\ check'[r].named = check[r].named
      /\ check'[r].passed = check[r].passed /\ check'[r].failed = check[r].failed
      /\ check'[r].by = check[r].by /\ check'[r].line = line /\ check'[r].exit = code
      /\ check'[r].at = "over"
  BY <1>1, IdleFields
<1>3. Minded(r)' <=> Minded(r)
  BY <1>2 DEF Minded
<1>4. ProofsOK(r)' /\ LinesOK(r)'
  BY <1>2 DEF ReportInv, ReportOK, ProofsOK, LinesOK
<1>5. MindedOK(r)'
  BY <1>2 DEF MindedOK
<1>6. SaidOK(r)'
  BY <1>2, <1>3 DEF SaidOK
<1>7. \A q \in Runs \ {r} : ReportOK(q)'
  BY <1>1, OthersReport DEF ReportInv
<1> QED  BY <1>1, <1>4, <1>5, <1>6, <1>7 DEF ReportInv, ReportOK

LEMMA RecordsAreSequences ==
  ASSUME NEW r \in Runs
  PROVE  /\ Len(Record(r)) \in Nat /\ DOMAIN Record(r) = 1..Len(Record(r))
         /\ \A i \in DOMAIN Record(r) : Record(r)[i] \in Rows(r)
<1>1. Record(r) \in Seq(ToSet(Record(r)))
  BY FeatureConstants DEF Record
<1>2. \A i \in DOMAIN Record(r) : Record(r)[i] \in Rows(r)
  BY DEF Rows, ToSet, Record
<1> QED  BY <1>1, <1>2

LEMMA ReadRecordReport ==
  ASSUME ReportInv, NEW r \in Runs, ReadRecord(r)
  PROVE  ReportInv'
<1> DEFINE rows    == Record(r)
           missing == {i \in DOMAIN rows : Missing(rows[i])}
           other   == {Len(rows) + i : i \in {j \in DOMAIN rows : Other(rows[j])}}
           plan    == {i \in DOMAIN rows : HasTwin(rows[i])}
           named   == [i \in missing \cup other |-> rows[IF i \in missing THEN i ELSE i - Len(rows)].title]
           new     == [at |-> "database", plan |-> plan, named |-> named]
<1>1. Goes(r, new) /\ check[r].at = "record"
  BY DEF ReadRecord, Record
<1>2. Len(rows) \in Nat /\ DOMAIN rows = 1..Len(rows)
  BY RecordsAreSequences
<1>3. /\ FieldsOK' /\ \A q \in Runs \ {r} : check'[q] = check[q]
      /\ \A f \in DOMAIN Idle : check'[r][f] = IF f \in DOMAIN new THEN new[f] ELSE check[r][f]
  <2> HIDE DEF new
  <2> QED  BY <1>1, GoesSets DEF ReportInv
<1>4. /\ DOMAIN new = {"at", "plan", "named"}
      /\ new["at"] = "database" /\ new["plan"] = plan /\ new["named"] = named
  OBVIOUS
<1>5. /\ check'[r].plan = plan /\ check'[r].named = named
      /\ check'[r].passed = check[r].passed /\ check'[r].failed = check[r].failed
      /\ check'[r].by = check[r].by /\ check'[r].line = check[r].line
      /\ check'[r].at = "database"
  <2> HIDE DEF new, plan, named
  <2> QED  BY <1>3, <1>4, IdleFields
<1>6. DOMAIN named \subseteq Nat
  BY <1>2
<1>7. \A i \in DOMAIN rows : ~HasTwin(rows[i]) =>
        \E j \in DOMAIN named : named[j] = rows[i].title
  <2> SUFFICES ASSUME NEW i \in DOMAIN rows, ~HasTwin(rows[i])
               PROVE  \E j \in DOMAIN named : named[j] = rows[i].title
    OBVIOUS
  <2>1. CASE Missing(rows[i])
    <3>1. i \in missing
      BY <2>1
    <3>2. named[i] = rows[i].title
      BY <3>1
    <3> QED  BY <3>1, <3>2
  <2>2. CASE Other(rows[i])
    <3>1. Len(rows) + i \in other /\ Len(rows) + i \notin missing /\ (Len(rows) + i) - Len(rows) = i
      BY <1>2, <2>2
    <3>2. named[Len(rows) + i] = rows[i].title
      BY <3>1
    <3> QED  BY <3>1, <3>2
  <2> QED  BY <2>1, <2>2 DEF HasTwin, Missing, Other
<1> HIDE DEF named, new
<1>8. ProofsOK(r)'
  BY <1>5 DEF ReportInv, ReportOK, ProofsOK
<1>9. LinesOK(r)'
  BY <1>5, <1>6 DEF ReportInv, ReportOK, LinesOK
<1>10. MindedOK(r)'
  BY <1>5, <1>7 DEF MindedOK, Minded
<1>11. SaidOK(r)'
  BY <1>1, <1>5 DEF ReportInv, ReportOK, SaidOK
<1>12. \A q \in Runs \ {r} : ReportOK(q)'
  BY <1>3, OthersReport DEF ReportInv
<1> QED  BY <1>3, <1>8, <1>9, <1>10, <1>11, <1>12 DEF ReportInv, ReportOK

\* What a twin that passed has shown.
LEMMA HurlTells ==
  ASSUME NEW r \in Runs, NEW twin, NEW got \in Hurl(r, twin), got.sent = "some", got.clean
  PROVE  /\ twin \notin Silent /\ listening[check[r].port] # None
         /\ twin \in Candidate[listening[check[r].port]].works
<1> DEFINE q     == listening[check[r].port]
           holds == q # None /\ twin \in Candidate[q].works /\ \E c \in containers : c.owner = q
<1>1. twin \notin Silent /\ \E b \in {FALSE, holds} : got = [sent |-> "some", clean |-> b]
  BY DEF Hurl
<1>2. holds
  <2>1. holds \in BOOLEAN
    OBVIOUS
  <2> HIDE DEF holds
  <2>2. PICK b \in {FALSE, holds} : got = [sent |-> "some", clean |-> b]
    BY <1>1
  <2>3. b = TRUE
    <3>1. b \in BOOLEAN /\ got.clean = b
      BY <2>1, <2>2
    <3> QED  BY <3>1
  <2> QED  BY <2>1, <2>2, <2>3
<1>3. q # None /\ twin \in Candidate[q].works
  BY <1>2
<1> QED  BY <1>1, <1>3

LEMMA RunTwinReport ==
  ASSUME ReportInv, NEW r \in Runs, RunTwin(r)
  PROVE  ReportInv'
<1>1. PICK i \in check[r].plan : \E got \in Hurl(r, TwinOf(Candidate[r].record[i])) :
        LET pass == got.sent = "some" /\ got.clean IN
        Goes(r, [plan |-> check[r].plan \ {i},
                 by |-> check[r].by \cup {listening[check[r].port]},
                 passed |-> check[r].passed \cup
                              (IF pass THEN {Candidate[r].record[i].title} ELSE {}),
                 failed |-> check[r].failed + (IF pass THEN 0 ELSE 1)])
  BY DEF RunTwin
<1>2. PICK got \in Hurl(r, TwinOf(Candidate[r].record[i])) :
        LET pass == got.sent = "some" /\ got.clean IN
        Goes(r, [plan |-> check[r].plan \ {i},
                 by |-> check[r].by \cup {listening[check[r].port]},
                 passed |-> check[r].passed \cup
                              (IF pass THEN {Candidate[r].record[i].title} ELSE {}),
                 failed |-> check[r].failed + (IF pass THEN 0 ELSE 1)])
  BY <1>1
<1> DEFINE pass   == got.sent = "some" /\ got.clean
           plan   == check[r].plan \ {i}
           by     == check[r].by \cup {listening[check[r].port]}
           passed == check[r].passed \cup (IF pass THEN {Record(r)[i].title} ELSE {})
           failed == check[r].failed + (IF pass THEN 0 ELSE 1)
           new    == [plan |-> plan, by |-> by, passed |-> passed, failed |-> failed]
<1>3. Goes(r, new) /\ check[r].at = "twins"
  BY <1>2 DEF RunTwin, Record
<1>4. /\ FieldsOK' /\ \A q \in Runs \ {r} : check'[q] = check[q]
      /\ \A f \in DOMAIN Idle : check'[r][f] = IF f \in DOMAIN new THEN new[f] ELSE check[r][f]
  <2> HIDE DEF new
  <2> QED  BY <1>3, GoesSets DEF ReportInv
<1>5. /\ DOMAIN new = {"plan", "by", "passed", "failed"} /\ new["plan"] = plan /\ new["by"] = by
      /\ new["passed"] = passed /\ new["failed"] = failed
  OBVIOUS
<1>6. /\ check'[r].plan = plan /\ check'[r].by = by
      /\ check'[r].passed = passed /\ check'[r].failed = failed
      /\ check'[r].named = check[r].named /\ check'[r].line = check[r].line
      /\ check'[r].at = "twins"
  <2> HIDE DEF new, plan, by, passed, failed
  <2> QED  BY <1>3, <1>4, <1>5, IdleFields
<1> HIDE DEF new
<1>7. i \in DOMAIN Record(r) /\ HasTwin(Record(r)[i]) /\ Record(r)[i] \in Rows(r)
  BY RecordsAreSequences DEF ReportInv, ReportOK, ProofsOK
<1>8. ASSUME pass
      PROVE  Proved(r, Record(r)[i].title, by)
  <2>1. /\ TwinOf(Record(r)[i]) \notin Silent /\ listening[check[r].port] # None
        /\ TwinOf(Record(r)[i]) \in Candidate[listening[check[r].port]].works
    BY <1>2, <1>8, HurlTells DEF Record
  <2> QED  BY <1>7, <2>1 DEF Proved
<1>9. \A t \in check[r].passed : Proved(r, t, by)
  BY DEF ReportInv, ReportOK, ProofsOK, Proved
<1>10. ProofsOK(r)'
  <2>1. \A t \in passed : Proved(r, t, by)
    BY <1>8, <1>9
  <2>2. \A j \in plan : j \in DOMAIN Record(r) /\ HasTwin(Record(r)[j])
    BY DEF ReportInv, ReportOK, ProofsOK
  <2> QED  BY <1>6, <2>1, <2>2 DEF ProofsOK
<1>11. check[r].failed \in Nat /\ failed \in Nat /\ check[r].failed <= failed /\ (~pass => failed > 0)
  BY DEF ReportInv, ReportOK, LinesOK
<1>12. LinesOK(r)'
  BY <1>6, <1>11 DEF ReportInv, ReportOK, LinesOK
<1>13. MindedOK(r)'
  <2>1. Minded(r)
    BY <1>3 DEF ReportInv, ReportOK, MindedOK
  <2>2. \A k \in DOMAIN Record(r) : HasTwin(Record(r)[k]) =>
          k \in plan \/ Record(r)[k].title \in passed \/ failed > 0
    <3> SUFFICES ASSUME NEW k \in DOMAIN Record(r), HasTwin(Record(r)[k])
                 PROVE  k \in plan \/ Record(r)[k].title \in passed \/ failed > 0
      OBVIOUS
    <3>1. CASE k = i
      BY <1>11, <3>1
    <3>2. CASE k # i
      <4>1. k \in check[r].plan \/ Record(r)[k].title \in check[r].passed \/ check[r].failed > 0
        BY <2>1 DEF Minded
      <4> QED  BY <1>11, <3>2, <4>1
    <3> QED  BY <3>1, <3>2
  <2>3. \A k \in DOMAIN Record(r) : ~HasTwin(Record(r)[k]) =>
          \E j \in DOMAIN check[r].named : check[r].named[j] = Record(r)[k].title
    BY <2>1 DEF Minded
  <2> HIDE DEF plan, passed, failed
  <2>4. Minded(r)'
    BY <1>6, <2>2, <2>3 DEF Minded
  <2> QED  BY <1>6, <2>4 DEF MindedOK
<1>14. SaidOK(r)'
  BY <1>3, <1>6 DEF ReportInv, ReportOK, SaidOK
<1>15. \A q \in Runs \ {r} : ReportOK(q)'
  BY <1>4, OthersReport DEF ReportInv
<1> QED  BY <1>4, <1>10, <1>12, <1>13, <1>14, <1>15 DEF ReportInv, ReportOK
LEMMA ObserveReport ==
  ASSUME ReportInv, NEW r \in Runs, Observe(r)
  PROVE  ReportInv'
<1> DEFINE old  == check[r].named
           line == 2 * Len(Record(r)) + 1
<1>1. PICK asked : Goes(r, [at |-> "report", named |-> IF asked THEN old ELSE WithAnswers(old, line)])
  BY DEF Observe, Record
<1> DEFINE named == IF asked THEN old ELSE WithAnswers(old, line)
           new   == [at |-> "report", named |-> named]
<1>2. check[r].at = "twins" /\ check[r].plan = {} /\ Goes(r, new)
  BY <1>1 DEF Observe
<1>3. /\ FieldsOK' /\ \A q \in Runs \ {r} : check'[q] = check[q]
      /\ \A f \in DOMAIN Idle : check'[r][f] = IF f \in DOMAIN new THEN new[f] ELSE check[r][f]
  <2> HIDE DEF new
  <2> QED  BY <1>2, GoesSets DEF ReportInv
<1>4. DOMAIN new = {"at", "named"} /\ new["at"] = "report" /\ new["named"] = named
  OBVIOUS
<1>5. /\ check'[r].plan = {} /\ check'[r].named = named
      /\ check'[r].passed = check[r].passed /\ check'[r].failed = check[r].failed
      /\ check'[r].by = check[r].by /\ check'[r].line = check[r].line
      /\ check'[r].at = "report"
  <2> HIDE DEF new, named
  <2> QED  BY <1>2, <1>3, <1>4, IdleFields
<1> HIDE DEF new
<1>6. DOMAIN old \subseteq Nat /\ line \in Nat
  BY RecordsAreSequences DEF ReportInv, ReportOK, LinesOK
<1>7. DOMAIN WithAnswers(old, line) = DOMAIN old \cup {line}
  BY DEF WithAnswers
<1>8. \A j \in DOMAIN old : WithAnswers(old, line)[j] = old[j]
  BY DEF WithAnswers
<1> HIDE DEF old, line
<1>9. DOMAIN named \subseteq Nat
  BY <1>6, <1>7
<1>10. \A j \in DOMAIN old : j \in DOMAIN named /\ named[j] = old[j]
  BY <1>7, <1>8
<1> HIDE DEF named
<1>11. ProofsOK(r)'
  BY <1>5 DEF ReportInv, ReportOK, ProofsOK
<1>12. LinesOK(r)'
  BY <1>5, <1>9 DEF ReportInv, ReportOK, LinesOK
<1>13. MindedOK(r)'
  <2>1. Minded(r)
    BY <1>2 DEF ReportInv, ReportOK, MindedOK
  <2>2. \A k \in DOMAIN Record(r) : ~HasTwin(Record(r)[k]) =>
          \E j \in DOMAIN named : named[j] = Record(r)[k].title
    BY <2>1, <1>10 DEF Minded, old
  <2>3. \A k \in DOMAIN Record(r) : HasTwin(Record(r)[k]) =>
          Record(r)[k].title \in check[r].passed \/ check[r].failed > 0
    BY <2>1, <1>2 DEF Minded
  <2>4. Minded(r)'
    BY <1>5, <2>2, <2>3 DEF Minded
  <2> QED  BY <1>5, <2>4 DEF MindedOK
<1>14. SaidOK(r)'
  BY <1>2, <1>5 DEF ReportInv, ReportOK, SaidOK
<1>15. \A q \in Runs \ {r} : ReportOK(q)'
  BY <1>3, OthersReport DEF ReportInv
<1> QED  BY <1>3, <1>11, <1>12, <1>13, <1>14, <1>15 DEF ReportInv, ReportOK

\* The steps that end a run.
LEMMA EndReport ==
  ASSUME ReportInv, NEW r \in Runs,
         RefuseRecord(r) \/ CannotEnter(r) \/ CouldNotRun(r) \/ ProductFails(r) \/ Report(r)
  PROVE  ReportInv'
<1>1. CASE RefuseRecord(r)
  BY <1>1, ExitReport DEF RefuseRecord, Exit
<1>2. CASE CouldNotRun(r)
  <2>1. check[r].at # "over" /\ Goes(r, [at |-> "over", exit |-> 2, line |-> could_not_run])
    BY <1>2 DEF CouldNotRun, Exit
  <2> QED  BY <2>1, ExitReport
<1>3. CASE ProductFails(r)
  <2>1. PICK line \in {json_line({}, check[r].named), None} :
          Goes(r, [at |-> "over", exit |-> 1, line |-> line])
    BY <1>3 DEF ProductFails, Exit, Printed
  <2>2. check[r].at # "over" /\ Minded(r)
    BY <1>3 DEF ProductFails, ReportInv, ReportOK, MindedOK
  <2> QED  BY <2>1, <2>2, ExitReport
<1>4. CASE Report(r)
  <2> DEFINE code == IF check[r].failed > 0 THEN 1 ELSE 0
  <2>1. check[r].at = "report"
    BY <1>4 DEF Report
  <2>2. PICK line \in {json_line(check[r].passed, check[r].named), None} :
          Goes(r, [at |-> "over", exit |-> code, line |-> line])
    BY <1>4 DEF Report, Exit, Printed
  <2>3. Minded(r) /\ check[r].plan = {} /\ check[r].failed \in Nat
    BY <2>1 DEF ReportInv, ReportOK, MindedOK, LinesOK
  <2>4. code = 1 \/ (code = 0 /\ check[r].failed = 0)
    BY <2>3
  <2> HIDE DEF code
  <2> QED  BY <2>1, <2>2, <2>3, <2>4, ExitReport
<1>5. CASE CannotEnter(r)
  BY <1>5, ExitReport DEF CannotEnter
<1> QED  BY <1>1, <1>2, <1>3, <1>4, <1>5

\* The steps that touch nothing of the report.
LEMMA OtherReport ==
  ASSUME ReportInv, NEW r \in Runs,
         \/ Begin(r) \/ Sweep(r) \/ Swept(r) \/ StartDatabase(r) \/ Migrate(r)
         \/ FreePort(r) \/ StartApp(r) \/ Healthy(r) \/ Kill(r)
  PROVE  ReportInv'
<1>1. CASE Begin(r)
  <2>1. Goes(r, [at |-> "sweep", left |-> containers]) /\ check[r].at = "new"
    BY <1>1 DEF Begin
  <2> QED  BY <2>1, QuietReport
<1>2. CASE Sweep(r)
  <2>1. PICK c : Goes(r, [left |-> check[r].left \ {c}]) /\ check[r].at = "sweep"
    BY <1>2 DEF Sweep
  <2> QED  BY <2>1, QuietReport
<1>3. CASE Swept(r)
  <2>1. Goes(r, [at |-> "record"]) /\ check[r].at = "sweep"
    BY <1>3 DEF Swept
  <2> QED  BY <2>1, QuietReport
<1>4. CASE StartDatabase(r)
  <2>1. Goes(r, [at |-> "migrate"]) /\ check[r].at = "database"
    BY <1>4 DEF StartDatabase
  <2> QED  BY <2>1, QuietReport
<1>5. CASE Migrate(r)
  <2>1. Goes(r, [at |-> "port"]) /\ check[r].at = "migrate"
    BY <1>5 DEF Migrate
  <2> QED  BY <2>1, QuietReport
<1>6. CASE FreePort(r)
  <2>1. PICK p : Goes(r, [at |-> "app", port |-> p]) /\ check[r].at = "port"
    BY <1>6 DEF FreePort
  <2> QED  BY <2>1, QuietReport
<1>7. CASE StartApp(r)
  <2>1. Goes(r, [at |-> "health"]) /\ check[r].at = "app"
    BY <1>7 DEF StartApp
  <2> QED  BY <2>1, QuietReport
<1>8. CASE Healthy(r)
  <2>1. Goes(r, [at |-> "twins"]) /\ check[r].at = "health"
    BY <1>8 DEF Healthy
  <2> QED  BY <2>1, QuietReport
<1>9. CASE Kill(r)
  <2>1. Goes(r, [at |-> "killed"]) /\ check[r].at # "over"
    BY <1>9 DEF Kill
  <2> QED  BY <2>1, QuietReport
<1> QED  BY <1>1, <1>2, <1>3, <1>4, <1>5, <1>6, <1>7, <1>8, <1>9

LEMMA ReportStart ==
  ASSUME Init
  PROVE  ReportInv
<1>1. DOMAIN check = Runs /\ \A r \in Runs : check[r] = Idle
  BY DEF Init
<1>2. /\ Idle.at = "new" /\ Idle.plan = {} /\ Idle.passed = {} /\ Idle.failed = 0
      /\ Idle.line = None /\ Idle.named = <<>>
  BY DEF Idle
<1>3. DOMAIN Idle.named = {}
  BY <1>2
<1>4. \A r \in Runs : ProofsOK(r) /\ LinesOK(r)
  BY <1>1, <1>2, <1>3 DEF ProofsOK, LinesOK
<1>5. \A r \in Runs : MindedOK(r) /\ SaidOK(r)
  BY <1>1, <1>2 DEF MindedOK, SaidOK
<1> QED  BY <1>1, <1>4, <1>5 DEF ReportInv, ReportOK, FieldsOK

LEMMA ReportStep ==
  ASSUME ReportInv, [Next]_vars
  PROVE  ReportInv'
<1>1. CASE UNCHANGED vars
  <2>1. check' = check
    BY <1>1 DEF vars
  <2>2. \A r \in Runs : ReportOK(r)'
    BY <2>1, OthersReport DEF ReportInv
  <2>3. FieldsOK'
    BY <2>1 DEF ReportInv, FieldsOK
  <2> QED  BY <2>2, <2>3 DEF ReportInv
<1>2. CASE Next
  BY <1>2, ReadRecordReport, RunTwinReport, ObserveReport, EndReport, OtherReport DEF Next
<1> QED  BY <1>1, <1>2

\* What a run has planned, passed, failed and named stays complete to the end.
THEOREM ReportInvariant == Spec => []ReportInv
<1>1. Init => ReportInv
  BY ReportStart
<1>2. ReportInv /\ [Next]_vars => ReportInv'
  BY ReportStep
<1> QED  BY <1>1, <1>2, PTL DEF Spec

-----------------------------------------------------------------------------
\* A name that is on a line stands, whatever its case, among those that are read.
LEMMA NamesAreRead ==
  ASSUME NEW named, DOMAIN named \subseteq Nat, NEW j \in DOMAIN named
  PROVE  \E n \in read_not_checked(named) : Lower[n] = Lower[named[j]]
<1> DEFINE same == {k \in DOMAIN named : Lower[named[k]] = Lower[named[j]]}
<1>1. PICK k \in same : \A i \in Nat : i < k => i \notin same
  <2>1. same \subseteq Nat /\ same # {}
    OBVIOUS
  <2>2. IsWellFoundedOn(OpToRel(<, Nat), Nat)
    BY NatLessThanWellFounded
  <2>3. PICK k \in same : \A i \in same : ~(<<i, k>> \in OpToRel(<, Nat))
    <3> HIDE DEF same
    <3> QED  BY <2>1, <2>2, WFMin
  <2> HIDE DEF same
  <2> QED  BY <2>1, <2>3 DEF OpToRel
<1>2. \A i \in DOMAIN named : i < k => Lower[named[i]] # Lower[named[k]]
  BY <1>1
<1>3. named[k] \in read_not_checked(named)
  BY <1>1, <1>2 DEF read_not_checked
<1> QED  BY <1>1, <1>3

LEMMA LinesTell ==
  ASSUME NEW passed, NEW named
  PROVE  LET line == json_line(passed, named) IN
         /\ line.not_checked = read_not_checked(named)
         /\ line.covered \subseteq passed
         /\ \A t \in line.covered : \A n \in line.not_checked : Lower[n] # Lower[t]
         /\ \A t \in passed : t \in line.covered \/ \E n \in line.not_checked : Lower[n] = Lower[t]
         /\ line # could_not_run
<1>1. json_line(passed, named) =
        [covered |-> {t \in passed : Lower[t] \notin {Lower[n] : n \in read_not_checked(named)}},
         not_checked |-> read_not_checked(named)]
  BY DEF json_line
<1>2. json_line(passed, named) # could_not_run
  <2>1. DOMAIN json_line(passed, named) = {"covered", "not_checked"}
    BY <1>1
  <2>2. DOMAIN could_not_run = {"could_not_run"}
    BY DEF could_not_run
  <2> QED  BY <2>1, <2>2
<1> QED  BY <1>1, <1>2

\* What a run that has ended names as covered was proved by an app that did what the twin
\* asserts, and nothing of that title is named as not checked as well.
THEOREM CoveredWasProved == Spec => []CoveredIsProved
<1>1. ASSUME ReportInv, NEW r \in Runs, Said(r), NEW t \in check[r].line.covered
      PROVE  /\ Proved(r, t, check[r].by)
             /\ \A n \in check[r].line.not_checked : Lower[n] # Lower[t]
  <2>1. \/ check[r].line = json_line({}, check[r].named)
        \/ check[r].line = json_line(check[r].passed, check[r].named)
    BY <1>1 DEF ReportInv, ReportOK, SaidOK, Said
  <2>2. t \in check[r].passed /\ \A n \in check[r].line.not_checked : Lower[n] # Lower[t]
    BY <1>1, <2>1, LinesTell
  <2> QED  BY <1>1, <2>2 DEF ReportInv, ReportOK, ProofsOK
<1>2. ReportInv => CoveredIsProved
  BY <1>1 DEF CoveredIsProved, Proved
<1> QED  BY <1>2, ReportInvariant, PTL

\* With a verdict goes a complete account of the record.
LEMMA NoneIsLeftOut ==
  ASSUME ReportInv, NEW r \in Runs, check[r].at = "over", Said(r), NEW row \in Rows(r)
  PROVE  LET line == check[r].line IN
         /\ ~HasTwin(row) => \E n \in line.not_checked : Lower[n] = Lower[row.title]
         /\ check[r].exit = 0 =>
              \/ row.title \in line.covered
              \/ \E n \in line.not_checked : Lower[n] = Lower[row.title]
<1>1. /\ check[r].line \in {json_line({}, check[r].named), json_line(check[r].passed, check[r].named)}
      /\ Minded(r) /\ DOMAIN check[r].named \subseteq Nat
      /\ check[r].exit = 0 => /\ check[r].line = json_line(check[r].passed, check[r].named)
                              /\ check[r].plan = {} /\ check[r].failed = 0
  BY DEF ReportInv, ReportOK, SaidOK, LinesOK, Said
<1>2. PICK i \in DOMAIN Record(r) : row = Record(r)[i]
  BY RecordsAreSequences DEF Rows, ToSet, Record
<1>3. ~HasTwin(row) => \E n \in check[r].line.not_checked : Lower[n] = Lower[row.title]
  <2>1. check[r].line.not_checked = read_not_checked(check[r].named)
    BY <1>1, LinesTell
  <2> QED  BY <1>1, <1>2, <2>1, NamesAreRead DEF Minded
<1>4. ASSUME check[r].exit = 0, HasTwin(row)
      PROVE  \/ row.title \in check[r].line.covered
             \/ \E n \in check[r].line.not_checked : Lower[n] = Lower[row.title]
  <2>1. row.title \in check[r].passed
    BY <1>1, <1>2, <1>4 DEF Minded
  <2> QED  BY <1>1, <1>4, <2>1, LinesTell
<1> QED  BY <1>3, <1>4

\* With exit 0 every twin has passed.
LEMMA TwinsHavePassed ==
  ASSUME ReportInv, NEW r \in Runs, check[r].at = "over", check[r].exit = 0,
         NEW row \in Rows(r), HasTwin(row)
  PROVE  row.title \in check[r].passed
<1>1. Minded(r) /\ check[r].plan = {} /\ check[r].failed = 0
  BY DEF ReportInv, ReportOK, SaidOK
<1>2. PICK i \in DOMAIN Record(r) : row = Record(r)[i]
  BY RecordsAreSequences DEF Rows, ToSet, Record
<1> QED  BY <1>1, <1>2 DEF Minded

\* A line names every scenario without a twin as not checked, next to exit 0 it names every
\* scenario there is, and exit 0 means that the twins passed, though the helper may have
\* printed nothing.
THEOREM NothingSlipsBy == Spec => []NothingSlips
<1>1. ASSUME ReportInv, NEW r \in Runs, check[r].at = "over"
      PROVE  /\ check[r].line = could_not_run => check[r].exit = 2
             /\ check[r].exit = 2 => ~Said(r)
  <2>1. \A passed : json_line(passed, check[r].named) # could_not_run
    BY LinesTell
  <2> QED  BY <1>1, <2>1, FeatureConstants DEF ReportInv, ReportOK, SaidOK, Said
<1>2. ASSUME ReportInv, NEW r \in Runs, check[r].at = "over", Said(r)
      PROVE  LET line == check[r].line IN
             /\ \A row \in Rows(r) : ~HasTwin(row) =>
                  Lower[row.title] \in {Lower[n] : n \in line.not_checked}
             /\ check[r].exit = 0 => \A row \in Rows(r) :
                  Lower[row.title] \in {Lower[t] : t \in line.covered \cup line.not_checked}
  BY <1>2, NoneIsLeftOut
<1>3. ReportInv => NothingSlips
  BY <1>1, <1>2, TwinsHavePassed DEF NothingSlips
<1> QED  BY <1>3, ReportInvariant, PTL
=============================================================================
