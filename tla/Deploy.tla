-------------------------------- MODULE Deploy --------------------------------
(***************************************************************************)
(* deploy/deploy.sh: the legs forge runs against one Docker engine, any    *)
(* number of them at the same time.  A leg is a sequence of docker         *)
(* commands; between two commands other legs run, and at any command the   *)
(* leg can end (the command fails under set -e, a query fails, the health  *)
(* wait times out, the script is killed) leaving done what it has done.    *)
(*                                                                         *)
(* The engine, Docker Compose and forge are external: an image is an id, a *)
(* tag holds an image, a project has at most one app container, and the    *)
(* port of the candidates belongs to the one candidate that runs.  "up"    *)
(* first removes a container of another image and then creates one, or     *)
(* starts again the one that is there.  A container is known by the leg    *)
(* that created it: no leg creates two.  It may end by itself at any time, *)
(* and nothing but an "up" starts it again (the app has no restart         *)
(* policy); "ps" lists what runs.  An "up" that creates a container and    *)
(* cannot start it leaves one that has exited.  An image is healthy or not.*)
(*                                                                         *)
(* Left out: legs refused before their first docker command (an ambiguous  *)
(* mode, a promote without identity or artifact, a teardown without name). *)
(***************************************************************************)
EXTENDS Naturals

CONSTANTS Legs,      \* invocations of the script, each once
          Builds,    \* identities forge hands over (DEPLOY_IDENTITY)
          Tokens,    \* names candidate_token makes of them
          TokenOf,   \* its result for each identity
          Images,    \* image ids a build of the repository can give
          Healthy,   \* the images whose /health reports the database connected
          None

Containers == [by : Legs \cup {None}, image : Images]

ASSUME DeployConstants ==
  /\ TokenOf \in [Builds -> Tokens]
  /\ Healthy \subseteq Images
  /\ None \notin Legs \cup Builds \cup Tokens \cup Images
  /\ None \notin Containers
  /\ Legs \cap Tokens = {}

VARIABLES appTag,       \* $APP_IMAGE: the image tagged as the live one
          rollbackTag,  \* $ROLLBACK_IMAGE_REF
          candTag,      \* <project>-app:latest of each candidate project
          pin,          \* the identity tag of each build
          live,         \* the live project's app container
          cand,         \* the app container of each candidate project
          exited,       \* the projects whose container is there and does not run
          restarted,    \* history: candidates started again after they had exited
          pc, mode,
          build,        \* DEPLOY_IDENTITY, or None
          artifact,     \* DEPLOY_ARTIFACT, or None
          cid,          \* the container this leg has seen
          todo,         \* candidate projects this teardown still has to remove
          said,         \* the line forge reads back
          answered      \* history: the container that answered the health wait

tags == <<appTag, rollbackTag, candTag, pin>>
containers == <<live, cand, exited, restarted>>
inputs == <<mode, build, artifact>>
vars == <<tags, containers, pc, inputs, cid, todo, said, answered>>

-----------------------------------------------------------------------------
Modes == {"normal", "revert", "candidate", "promote", "running", "down", "sweep"}
LiveModes == {"normal", "revert", "promote"}

\* One candidate project per token; a check without identity makes its own.
Projects == Tokens \cup Legs
Project(p) == IF build[p] = None THEN p ELSE TokenOf[build[p]]

\* Nothing was read back, and the lines a leg can print.
Silent == [line |-> "", build |-> None, image |-> None]
Line(l, b, i) == [line |-> l, build |-> b, image |-> i]
Lines == {"", "CHECKED", "DEPLOYED", "NOT_DEPLOYED", "RUNNING", "UNIDENTIFIED", "NONE"}
Answers == [line : Lines, build : Builds \cup {None}, image : Images \cup {None}]

Places == {"idle", "snapshot", "build", "name", "retag", "up", "health", "observe",
           "again", "pin", "print", "tags", "find", "remove", "done", "failed", "torn"}

Running(p) == pc[p] \notin {"idle", "done", "failed", "torn"}

Init == /\ live \in {None} \cup [by : {None}, image : Healthy]
        /\ appTag = IF live = None THEN None ELSE live.image
        /\ rollbackTag = None
        /\ candTag = [x \in Projects |-> None]
        /\ pin = [b \in Builds |-> None]
        /\ cand = [x \in Projects |-> None]
        /\ exited = {} /\ restarted = {}
        /\ pc = [p \in Legs |-> "idle"]
        /\ mode = [p \in Legs |-> "running"]
        /\ build = [p \in Legs |-> None]
        /\ artifact = [p \in Legs |-> None]
        /\ cid = [p \in Legs |-> None]
        /\ todo = [p \in Legs |-> {}]
        /\ said = [p \in Legs |-> Silent]
        /\ answered = [p \in Legs |-> None]

\* What "ps -q" lists of a project: the container that runs.
LiveProject == None
LiveRuns == live # None /\ LiveProject \notin exited
Runs(x) == cand[x] # None /\ x \notin exited

Goto(p, step) == pc' = [pc EXCEPT ![p] = step]
Say(p, line) == said' = [said EXCEPT ![p] = line] /\ Goto(p, "done")

\* Forge has an artifact for a build once a check of it has printed one.
Recorded(b, i) == \E q \in Legs : said[q] = Line("CHECKED", b, i)

-----------------------------------------------------------------------------
FirstStep(m) == CASE m = "normal"    -> "snapshot"
                  [] m = "revert"    -> "retag"
                  [] m = "candidate" -> "build"
                  [] m = "promote"   -> "name"
                  [] m = "running"   -> "observe"
                  [] OTHER           -> "find"

\* Forge (or a person, for the sweep) runs the script in one mode.
Start(p, m) ==
  /\ pc[p] = "idle"
  /\ Goto(p, FirstStep(m))
  /\ mode' = [mode EXCEPT ![p] = m]
  /\ \E b \in Builds \cup {None} : \E i \in Images \cup {None} :
       /\ build' = [build EXCEPT ![p] = b]
       /\ artifact' = [artifact EXCEPT ![p] = i]
       /\ b # None => m \in {"candidate", "promote", "down"}
       /\ m \in {"promote", "down"} => b # None
       /\ IF m = "promote" THEN Recorded(b, i) ELSE i = None
  /\ UNCHANGED <<tags, containers, cid, todo, said, answered>>

\* deploy_normal and deploy_promote keep what the live TAG names as the rollback
\* image.  There may be nothing to keep; and when both the inspect and the tag of
\* deploy_normal fail, its "|| true" goes on without a snapshot, like
\* deploy_promote's.
Snapshot(p) ==
  /\ pc[p] = "snapshot"
  /\ \/ appTag # None /\ rollbackTag' = appTag
     \/ UNCHANGED rollbackTag
  /\ Goto(p, IF mode[p] = "normal" THEN "build" ELSE "retag")
  /\ UNCHANGED <<appTag, candTag, pin, containers, inputs, cid, todo, said, answered>>

\* Mutant: a check builds under the live project's image name.
BuildLiveName(p) ==
  /\ pc[p] = "build"
  /\ \E i \in Images : appTag' = i
  /\ Goto(p, "up")
  /\ UNCHANGED <<rollbackTag, candTag, pin, containers, inputs, cid, todo, said, answered>>

\* "up --build", first half: the image is built and the project's tag moved.
BuildImage(p) ==
  /\ pc[p] = "build"
  /\ \E i \in Images :
       IF mode[p] = "normal"
       THEN appTag' = i /\ UNCHANGED candTag
       ELSE candTag' = [candTag EXCEPT ![Project(p)] = i] /\ UNCHANGED appTag
  /\ Goto(p, "up")
  /\ UNCHANGED <<rollbackTag, pin, containers, inputs, cid, todo, said, answered>>

\* deploy_promote: the recorded artifact gets the identity's own name.
Name(p) ==
  /\ pc[p] = "name"
  /\ pin' = [pin EXCEPT ![build[p]] = artifact[p]]
  /\ Goto(p, "snapshot")
  /\ UNCHANGED <<appTag, rollbackTag, candTag, containers, inputs, cid, todo, said, answered>>

\* Mutant: a revert does not refuse when no image was kept.
RetagAnyway(p) ==
  /\ pc[p] = "retag"
  /\ appTag' = IF mode[p] = "promote" THEN artifact[p] ELSE rollbackTag
  /\ Goto(p, "up")
  /\ UNCHANGED <<rollbackTag, candTag, pin, containers, inputs, cid, todo, said, answered>>

\* The live tag is moved: to the recorded artifact, or back to the kept image.
Retag(p) ==
  LET image == IF mode[p] = "promote" THEN artifact[p] ELSE rollbackTag IN
  /\ pc[p] = "retag"
  /\ image # None
  /\ appTag' = image
  /\ Goto(p, "up")
  /\ UNCHANGED <<rollbackTag, candTag, pin, containers, inputs, cid, todo, said, answered>>

\* "up -d", first half: the container of another image is stopped and removed.
\* Until the other half there is none; a leg that ends here leaves none.
Outdated(old, image) == old # None /\ old.image # image

RemoveLive(p) ==
  /\ pc[p] = "up" /\ mode[p] \in LiveModes
  /\ Outdated(live, appTag)
  /\ live' = None
  /\ exited' = exited \ {LiveProject}
  /\ UNCHANGED <<tags, cand, restarted, pc, inputs, cid, todo, said, answered>>

RemoveCandidate(p) ==
  LET x == Project(p) IN
  /\ pc[p] = "up" /\ mode[p] = "candidate"
  /\ Outdated(cand[x], candTag[x])
  /\ cand' = [cand EXCEPT ![x] = None]
  /\ exited' = exited \ {x}
  /\ UNCHANGED <<tags, live, restarted, pc, inputs, cid, todo, said, answered>>

\* "up -d", second half: a container is created, or the one there is made to run.
Started(p, old, image) == IF old = None THEN [by |-> p, image |-> image] ELSE old

UpLive(p) ==
  /\ pc[p] = "up" /\ mode[p] \in LiveModes
  /\ ~Outdated(live, appTag)
  /\ live' = Started(p, live, appTag)
  /\ exited' = exited \ {LiveProject}
  /\ Goto(p, "health")
  /\ UNCHANGED <<tags, cand, restarted, inputs, cid, todo, said, answered>>

\* A candidate publishes the one candidate port: no other candidate may run.
UpCandidate(p) ==
  LET x == Project(p) IN
  /\ pc[p] = "up" /\ mode[p] = "candidate"
  /\ \A y \in Projects \ {x} : ~Runs(y)
  /\ ~Outdated(cand[x], candTag[x])
  /\ cand' = [cand EXCEPT ![x] = Started(p, @, candTag[x])]
  /\ exited' = exited \ {x}
  /\ restarted' = IF cand[x] # None /\ x \in exited
                  THEN restarted \cup {cand[x]} ELSE restarted
  /\ Goto(p, "observe")
  /\ UNCHANGED <<tags, live, inputs, cid, todo, said, answered>>

\* wait_for_health: whatever container holds the port answers.
Health(p) ==
  /\ pc[p] = "health"
  /\ \E c \in IF mode[p] = "candidate" THEN {cand[x] : x \in {y \in Projects : Runs(y)}}
             ELSE {live} :
       /\ mode[p] # "candidate" => LiveRuns
       /\ c.image \in Healthy
       /\ answered' = [answered EXCEPT ![p] = c]
  /\ Goto(p, CASE mode[p] = "candidate" -> "again"
               [] mode[p] = "promote"   -> "observe"
               [] OTHER                 -> "done")
  /\ UNCHANGED <<tags, containers, inputs, cid, todo, said>>

\* deploy_candidate: the container and its image, read off the project.
Observe(p) ==
  /\ pc[p] = "observe" /\ mode[p] = "candidate"
  /\ Runs(Project(p))
  /\ cid' = [cid EXCEPT ![p] = cand[Project(p)]]
  /\ Goto(p, "health")
  /\ UNCHANGED <<tags, containers, inputs, todo, said, answered>>

\* Mutant: the health check passing is taken for an answer about this container.
NotAgain(p) ==
  /\ pc[p] = "again"
  /\ Goto(p, "pin")
  /\ UNCHANGED <<tags, containers, inputs, cid, todo, said, answered>>

\* deploy_candidate after the health wait: still the same container, or refuse.
Again(p) ==
  /\ pc[p] = "again"
  /\ Runs(Project(p)) /\ cand[Project(p)] = cid[p]
  /\ Goto(p, "pin")
  /\ UNCHANGED <<tags, containers, inputs, cid, todo, said, answered>>

\* Mutant: the artifact is read off the project's image name.
PinByName(p) ==
  /\ pc[p] = "pin"
  /\ pin' = IF build[p] = None THEN pin ELSE [pin EXCEPT ![build[p]] = candTag[Project(p)]]
  /\ Goto(p, "print")
  /\ UNCHANGED <<appTag, rollbackTag, candTag, containers, inputs, cid, todo, said, answered>>

\* deploy_candidate names the checked image, then prints it.
Pin(p) ==
  /\ pc[p] = "pin"
  /\ pin' = IF build[p] = None THEN pin ELSE [pin EXCEPT ![build[p]] = cid[p].image]
  /\ Goto(p, "print")
  /\ UNCHANGED <<appTag, rollbackTag, candTag, containers, inputs, cid, todo, said, answered>>

PrintArtifact(p) ==
  /\ pc[p] = "print"
  /\ Say(p, Line("CHECKED", build[p], cid[p].image))
  /\ UNCHANGED <<tags, containers, inputs, cid, todo, answered>>

\* Mutant: what was handed over is what is said to run.
ReportHandedOver(p) ==
  /\ pc[p] = "observe" /\ mode[p] = "promote"
  /\ LiveRuns
  /\ cid' = [cid EXCEPT ![p] = live]
  /\ Say(p, Line("DEPLOYED", build[p], live.image))
  /\ UNCHANGED <<tags, containers, inputs, todo, answered>>

\* deploy_promote asks the live container which image it runs, and claims the
\* identity only for the recorded artifact.
Report(p) ==
  /\ pc[p] = "observe" /\ mode[p] = "promote"
  /\ LiveRuns
  /\ cid' = [cid EXCEPT ![p] = live]
  /\ Say(p, Line(IF live.image = artifact[p] THEN "DEPLOYED" ELSE "NOT_DEPLOYED",
                 build[p], live.image))
  /\ UNCHANGED <<tags, containers, inputs, todo, answered>>

\* Mutant: a query that fails reads as an empty answer.
AskAndForgive(p) ==
  /\ pc[p] = "observe" /\ mode[p] = "running"
  /\ \/ Say(p, Line("NONE", None, None)) /\ UNCHANGED cid
     \/ LiveRuns /\ cid' = [cid EXCEPT ![p] = live] /\ Goto(p, "tags") /\ UNCHANGED said
  /\ UNCHANGED <<tags, containers, inputs, todo, answered>>

\* running_identity: "none" only after a query that succeeded and found nothing.
\* A query that fails ends the leg with RUNNING_IDENTITY_UNKNOWN.
Ask(p) ==
  /\ pc[p] = "observe" /\ mode[p] = "running"
  /\ \/ ~LiveRuns /\ Say(p, Line("NONE", None, None)) /\ UNCHANGED cid
     \/ LiveRuns /\ cid' = [cid EXCEPT ![p] = live] /\ Goto(p, "tags") /\ UNCHANGED said
  /\ UNCHANGED <<tags, containers, inputs, todo, answered>>

\* identity_of_image: the first identity tag the image carries, if it has one.
NameRunning(p) ==
  LET names == {b \in Builds : pin[b] = cid[p].image} IN
  /\ pc[p] = "tags"
  /\ \/ names = {} /\ Say(p, Line("UNIDENTIFIED", None, cid[p].image))
     \/ \E b \in names : Say(p, Line("RUNNING", b, cid[p].image))
  /\ UNCHANGED <<tags, containers, inputs, cid, todo, answered>>

\* Mutant: the teardown goes looking for candidates.
FindEvery(p) ==
  /\ pc[p] = "find"
  /\ todo' = [todo EXCEPT ![p] = {x \in Projects : cand[x] # None}]
  /\ Goto(p, "remove")
  /\ UNCHANGED <<tags, containers, inputs, cid, said, answered>>

\* candidate_down is told its project; the by-hand sweep asks which are up, and
\* its "|| true" reads a query that fails as none.
Find(p) ==
  /\ pc[p] = "find"
  /\ \E found \in IF mode[p] = "down" THEN {{Project(p)}}
                  ELSE {{}, {x \in Projects : cand[x] # None}} :
       todo' = [todo EXCEPT ![p] = found]
  /\ Goto(p, "remove")
  /\ UNCHANGED <<tags, containers, inputs, cid, said, answered>>

\* tear_one_candidate_down, once for each project found.
TearDown(p) ==
  /\ pc[p] = "remove"
  /\ \/ \E x \in todo[p] :
          /\ cand' = [cand EXCEPT ![x] = None]
          /\ exited' = exited \ {x}
          /\ todo' = [todo EXCEPT ![p] = @ \ {x}]
          /\ UNCHANGED pc
     \/ todo[p] = {} /\ Goto(p, "done") /\ UNCHANGED <<cand, exited, todo>>
  /\ UNCHANGED <<tags, live, restarted, inputs, cid, said, answered>>

\* The leg ends here: killed, a command or query failed, the health wait timed
\* out.  A live leg is torn when it had moved the live tag and not come up on it.
Die(p) ==
  /\ Running(p)
  /\ Goto(p, IF pc[p] = "up" /\ mode[p] \in LiveModes THEN "torn" ELSE "failed")
  /\ UNCHANGED <<tags, containers, inputs, cid, todo, said, answered>>

\* The app of a project ends by itself: it crashed, or was stopped by hand.
Exit ==
  /\ \E x \in Projects \cup {LiveProject} :
       /\ IF x = LiveProject THEN LiveRuns ELSE Runs(x)
       /\ exited' = exited \cup {x}
  /\ UNCHANGED <<tags, live, cand, restarted, pc, inputs, cid, todo, said, answered>>

Step(p) ==
  \/ Snapshot(p) \/ BuildImage(p) \/ Name(p) \/ Retag(p)
  \/ RemoveLive(p) \/ UpLive(p) \/ RemoveCandidate(p) \/ UpCandidate(p) \/ Health(p) \/ Observe(p) \/ Again(p) \/ Pin(p) \/ PrintArtifact(p)
  \/ Report(p) \/ Ask(p) \/ NameRunning(p) \/ Find(p) \/ TearDown(p)

Finished == (\A p \in Legs : pc[p] # "idle" /\ ~Running(p)) /\ UNCHANGED vars

Next == \/ \E p \in Legs : (\E m \in Modes : Start(p, m)) \/ Step(p) \/ Die(p)
        \/ Exit
        \/ Finished

Spec == Init /\ [][Next]_vars

-----------------------------------------------------------------------------
\* The state is well formed, and nothing is up or tagged that is not an image.
TypeOK ==
  /\ appTag \in Images \cup {None}
  /\ rollbackTag \in Images \cup {None}
  /\ candTag \in [Projects -> Images \cup {None}]
  /\ pin \in [Builds -> Images \cup {None}]
  /\ live \in Containers \cup {None}
  /\ cand \in [Projects -> Containers \cup {None}]
  /\ exited \subseteq Projects \cup {LiveProject} /\ restarted \subseteq Containers
  /\ pc \in [Legs -> Places]
  /\ mode \in [Legs -> Modes]
  /\ build \in [Legs -> Builds \cup {None}]
  /\ artifact \in [Legs -> Images \cup {None}]
  /\ cid \in [Legs -> Containers \cup {None}]
  /\ todo \in [Legs -> SUBSET Projects]
  /\ said \in [Legs -> Answers]
  /\ answered \in [Legs -> Containers \cup {None}]

\* The artifact a check reports is the image of a container of its own project, and
\* that very container answered its health check, whatever other checks and teardowns
\* come and go on the shared candidate port meanwhile (deploy_candidate: "the thing
\* that passed the health check has to be the thing whose id is reported").  Only a
\* container that had exited and was started again can pass for one that answered.
CheckedIsWhatAnswered ==
  \A p \in Legs : said[p].line = "CHECKED" =>
    /\ said[p].image = cid[p].image
    /\ Project(cid[p].by) = Project(p)
    /\ answered[p] = cid[p] \/ cid[p] \in restarted

\* A build is only ever named as what is live, by the promote that put it there or
\* by the query forge decides on, for an image that passed a health check of that
\* very build, however the legs of several builds interleave and die.  A container
\* that was started again passes on the answer to its check (CheckedIsWhatAnswered).
Passed(b, i) == \E q \in Legs : /\ mode[q] = "candidate" /\ build[q] = b
                                /\ answered[q] # None /\ cid[q].image = i
                                /\ answered[q] = cid[q] \/ cid[q] \in restarted
NamedMeansChecked ==
  \A p \in Legs : said[p].line \in {"DEPLOYED", "RUNNING"} =>
    Passed(said[p].build, said[p].image)

\* A live leg is between the tag and its container, or ended there.
Replacing == \E q \in Legs : mode[q] \in LiveModes /\ pc[q] \in {"up", "torn"}

\* The live container runs the image the live tag names, except while a live leg
\* is between the two or after one died there: checks, teardowns and queries
\* never open that gap.
LiveFollowsTag ==
  live # None /\ appTag # live.image =>
    Replacing

\* "none" tells forge that the target is free.  When a query says it, the live
\* container has exited, or there is none: then no live leg has come up yet, or one
\* is replacing the container or ended while it did.  No other leg of any kind takes
\* the live project down, and a query that fails does not say it.
CameUp(q) == mode[q] \in LiveModes /\ pc[q] \in {"health", "observe", "done"}
NeverUp == \A q \in Legs : ~CameUp(q)
NoneMeansDown ==
  [][\A p \in Legs : said[p] # said'[p] /\ said'[p].line = "NONE" =>
       IF live = None THEN NeverUp \/ Replacing ELSE LiveProject \in exited]_vars

\* A candidate under check is replaced or removed only by a leg of its own build or
\* by the sweep a person runs by hand: one build's cleanup never touches another
\* build's candidate, as long as their tokens differ.
ChecksUndisturbed ==
  [][\A p \in Legs :
       /\ pc[p] \in {"observe", "health", "again"} /\ mode[p] = "candidate"
       /\ cand[Project(p)] # None /\ cand'[Project(p)] # cand[Project(p)]
       => \E q \in Legs : /\ pc[q] \in {"up", "remove"}
                           /\ (mode[q] = "sweep" \/ build[q] = build[p])]_vars

\* deploy_revert says of the kept image "we re-serve a known-good image".  It was
\* read off a tag: a deploy that dies or fails its health check leaves the tag on
\* its own image, and the deploy that is tried next keeps that one.
KeptImageKnownGood == rollbackTag \in Healthy \cup {None}
=============================================================================
