---------------------------- MODULE SandboxRunner ----------------------------
(***************************************************************************)
(* deploy/sandbox-runner.sh: once the install of SandboxStage is ready, it *)
(* starts two services and keeps them running until it is told to stop.    *)
(*                                                                         *)
(* The services and bash are external.  bash runs a trap between two       *)
(* commands: at once while it waits, after the command while one runs in   *)
(* the foreground.  "wait -n" reports a child that has ended, earlier ends *)
(* included, except one that a signal killed and that a foreground command *)
(* outlived: bash 5.2 no longer knows it ("no such job").  Other versions  *)
(* do, so both are possible.  What ends the script otherwise ends the      *)
(* sandbox's session and all that runs in it.                              *)
(***************************************************************************)
EXTENDS SandboxStage

CONSTANTS Services,   \* the deploy sidecar and the build runner
          Nobody,
          MaxEnds     \* bound: services that end by themselves

ASSUME RunnerConstants == MaxEnds \in Nat /\ Nobody \notin Services

VARIABLES proc,       \* the last process started for each service
          pid,        \* SIDECAR_PID, RUNNER_PID: whether they name that process
          step,       \* where step 5 is
          svc,        \* the service it is starting, or died
          stop,       \* TERM or INT has come and the trap has not run
          asked,      \* services the trap has killed
          ends        \* bounding counter

services == <<proc, pid, step, svc, stop, asked, ends>>
vars == <<stageVars, services>>

Ended   == {"exited", "killed"}
States  == {"none", "up", "reported", "forgotten"} \cup Ended
Serving == {"fork", "record", "wait", "pause", "stopping"}

Init == /\ StageInit
        /\ proc = [s \in Services |-> "none"]
        /\ pid = [s \in Services |-> FALSE]
        /\ step = "off"
        /\ svc = Nobody
        /\ stop = FALSE
        /\ asked = {}
        /\ ends = 0

Do(next) == step' = next

\* The script and all it started are gone.
Reset == /\ proc' = [s \in Services |-> "none"]
         /\ pid' = [s \in Services |-> FALSE]
         /\ step' = "off"
         /\ svc' = Nobody
         /\ stop' = FALSE
         /\ asked' = {}
         /\ UNCHANGED ends

-----------------------------------------------------------------------------
\* The trap is set and the first service is next.
Serve ==
  /\ at = "ready" /\ step = "off"
  /\ \E s \in Services : svc' = s
  /\ Do("fork")
  /\ UNCHANGED <<stageVars, proc, pid, stop, asked, ends>>

\* start_sidecar, start_runner: the command in the background, then PID=$!.
Fork ==
  /\ step = "fork" /\ ~stop
  /\ proc' = [proc EXCEPT ![svc] = "up"]
  /\ pid' = [pid EXCEPT ![svc] = FALSE]
  /\ Do("record")
  /\ UNCHANGED <<stageVars, svc, stop, asked, ends>>

Record ==
  LET unborn == {s \in Services : proc[s] = "none"} IN
  /\ step = "record" /\ ~stop
  /\ pid' = [pid EXCEPT ![svc] = TRUE]
  /\ \/ unborn = {} /\ Do("wait") /\ svc' = Nobody
     \/ unborn # {} /\ Do("fork") /\ svc' \in unborn
  /\ UNCHANGED <<stageVars, proc, stop, asked, ends>>

\* Mutant: the script waits for the service it started first.
HeedFirst ==
  /\ step = "wait" /\ ~stop
  /\ LET s == CHOOSE t \in Services : TRUE IN
       /\ proc[s] \in Ended
       /\ svc' = s
       /\ proc' = [proc EXCEPT ![s] = "reported"]
  /\ Do("pause")
  /\ UNCHANGED <<stageVars, pid, stop, asked, ends>>

\* wait -n: whichever service ended.
Heed ==
  /\ step = "wait" /\ ~stop
  /\ \E s \in Services :
       /\ proc[s] \in Ended
       /\ svc' = s
       /\ proc' = [proc EXCEPT ![s] = "reported"]
  /\ Do("pause")
  /\ UNCHANGED <<stageVars, pid, stop, asked, ends>>

\* The pause is over.  bash may have lost children that a signal killed.
Resume ==
  /\ step = "pause"
  /\ \E lost \in SUBSET {s \in Services : proc[s] = "killed"} :
       proc' = [s \in Services |-> IF s \in lost THEN "forgotten" ELSE proc[s]]
  /\ Do("fork")
  /\ UNCHANGED <<stageVars, pid, svc, stop, asked, ends>>

\* A service ends by itself, or something kills it.
End(s) ==
  /\ proc[s] = "up" /\ step # "stopping" /\ ends < MaxEnds
  /\ \E how \in Ended : proc' = [proc EXCEPT ![s] = how]
  /\ ends' = ends + 1
  /\ UNCHANGED <<stageVars, pid, step, svc, stop, asked>>

\* TERM or INT.
AskToStop ==
  /\ step \in Serving \ {"stopping"} /\ ~stop
  /\ stop' = TRUE
  /\ UNCHANGED <<stageVars, proc, pid, step, svc, asked, ends>>

\* Mutant: the trap kills the service started last.
TrapLast ==
  /\ stop /\ step \in {"fork", "record", "wait"}
  /\ asked' = IF svc # Nobody /\ pid[svc] THEN {svc} ELSE {}
  /\ stop' = FALSE
  /\ Do("stopping")
  /\ UNCHANGED <<stageVars, proc, pid, svc, ends>>

\* stop_services: kill the processes on record, then wait for every child.
Trap ==
  /\ stop /\ step \in {"fork", "record", "wait"}
  /\ asked' = {s \in Services : pid[s] /\ proc[s] = "up"}
  /\ stop' = FALSE
  /\ Do("stopping")
  /\ UNCHANGED <<stageVars, proc, pid, svc, ends>>

Obey(s) ==
  /\ step = "stopping" /\ s \in asked /\ proc[s] = "up"
  /\ proc' = [proc EXCEPT ![s] = "exited"]
  /\ UNCHANGED <<stageVars, pid, step, svc, stop, asked, ends>>

\* Mutant: the trap exits and leaves the services to themselves.
StoppedAtOnce ==
  /\ step = "stopping"
  /\ Cut
  /\ Do("off")
  /\ UNCHANGED <<proc, pid, svc, stop, asked, ends>>

Stopped ==
  /\ step = "stopping" /\ \A s \in Services : proc[s] # "up"
  /\ Cut
  /\ Reset

Die == Cut /\ Reset

-----------------------------------------------------------------------------
Command ==
  \/ StageStep /\ UNCHANGED services
  \/ Serve \/ Fork \/ Record \/ Heed \/ Resume \/ Trap \/ Stopped

Next ==
  \/ Command \/ Die \/ AskToStop
  \/ Enter /\ UNCHANGED services
  \/ \E n \in Mounts : Move(n) /\ UNCHANGED services
  \/ \E s \in Services : End(s) \/ Obey(s)

Spec == Init /\ [][Next]_vars

\* Every command of the script ends, pauses included, and a service that is asked
\* to stop does.  Nobody has to move a HEAD, end a service, stop or start the script.
FairSpec == Spec /\ WF_vars(Command) /\ \A s \in Services : WF_vars(Obey(s))

-----------------------------------------------------------------------------
\* The state is well formed, and services run only under a run that is ready: a
\* script that has been stopped leaves none behind.
TypeOK ==
  /\ StageTypeOK
  /\ proc \in [Services -> States]
  /\ pid \in [Services -> BOOLEAN]
  /\ step \in Serving \cup {"off"}
  /\ svc \in Services \cup {Nobody}
  /\ stop \in BOOLEAN
  /\ asked \subseteq Services
  /\ ends \in 0..MaxEnds
  /\ step # "off" \/ (\E s \in Services : proc[s] = "up") => at = "ready"

\* A service that exits is started again, whichever it is and whatever the script is
\* doing when it exits, another service's pause included (the loop around "wait -n").
ExitedIsRestarted ==
  \A s \in Services : proc[s] = "exited" ~> proc[s] = "up" \/ stop \/ step \in {"off", "stopping"}

\* A stop signal ends the services and the script, unless it comes between the start
\* of a process and the recording of its pid.
StopEnds == stop /\ step # "record" ~> step = "off"
=============================================================================
