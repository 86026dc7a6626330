---------------------------- MODULE DeployInvariant ----------------------------
(***************************************************************************)
(* An inductive invariant of Deploy, in named parts: the route each mode   *)
(* takes, where the containers come from, what a check knows at each       *)
(* command, and what the names and lines already given imply.              *)
(***************************************************************************)
EXTENDS Deploy

\* A leg that has not come up has started no container.
Early(p) == pc[p] \in {"idle", "snapshot", "build", "name", "retag", "up"}

\* The modes that go through each command.
Travellers(step) ==
  CASE step = "snapshot" -> {"normal", "promote"}
    [] step = "build"    -> {"normal", "candidate"}
    [] step = "name"     -> {"promote"}
    [] step = "retag"    -> {"revert", "promote"}
    [] step = "up"       -> LiveModes \cup {"candidate"}
    [] step = "health"   -> LiveModes \cup {"candidate"}
    [] step = "observe"  -> {"candidate", "promote", "running"}
    [] step \in {"again", "pin", "print"} -> {"candidate"}
    [] step = "tags"     -> {"running"}
    [] step \in {"find", "remove"} -> {"down", "sweep"}
    [] step = "torn"     -> LiveModes
    [] OTHER             -> Modes
RoutesOK == \A p \in Legs : mode[p] \in Travellers(pc[p])

\* What a leg was started with, and what it has not seen before it starts.
InputsOK ==
  \A p \in Legs :
    /\ pc[p] = "idle" => /\ build[p] = None /\ cid[p] = None
                         /\ answered[p] = None /\ todo[p] = {}
    /\ mode[p] \in {"promote", "down"} => build[p] \in Builds
    /\ mode[p] \in {"normal", "revert", "running", "sweep"} => build[p] = None

\* What a leg comes up on has been tagged.
TaggedOK ==
  \A p \in Legs : pc[p] = "up" =>
    /\ mode[p] \in LiveModes => appTag # None
    /\ mode[p] = "candidate" => candTag[Project(p)] # None

\* A container was started by a check of the project it is in.
Belongs(c, x) ==
  c # None => /\ c.by \in Legs /\ ~Early(c.by)
              /\ mode[c.by] = "candidate" /\ Project(c.by) = x
ContainersOK ==
  /\ \A x \in Projects : Belongs(cand[x], x)
  /\ \A p \in Legs : mode[p] = "candidate" => Belongs(cid[p], Project(p))

\* The candidate port is published by one candidate at most.
OneUp == \A x, y \in Projects : Runs(x) /\ Runs(y) => x = y

\* What a check knows at each command.  After the health wait the container it
\* saw may be gone; but if it still runs, and was never started again, it is the
\* one that answered.
Answered(p) == answered[p] = cid[p] \/ cid[p] \in restarted
ChecksOK ==
  \A p \in Legs :
    /\ pc[p] \in {"again", "pin", "print", "tags"} => cid[p] # None
    /\ mode[p] = "candidate" =>
         /\ Early(p) \/ pc[p] \in {"observe", "health"} => answered[p] = None
         /\ pc[p] = "health" => cid[p] # None
         /\ pc[p] \in {"again", "pin", "print", "done"} => cid[p] # None /\ answered[p] # None
         /\ pc[p] = "again" /\ Runs(Project(p)) /\ cand[Project(p)] = cid[p]
              => Answered(p)
         /\ pc[p] \in {"pin", "print", "done"} => Answered(p)

\* What has been said, and by whom.
SaidOK ==
  \A p \in Legs :
    /\ pc[p] # "done" => said[p] = Silent
    /\ said[p].line = "CHECKED" =>
         mode[p] = "candidate" /\ said[p].build = build[p] /\ said[p].image = cid[p].image

\* A name and an artifact stand for an image that passed.
NamesOK ==
  /\ \A b \in Builds : pin[b] # None => Passed(b, pin[b])
  /\ \A p \in Legs : mode[p] = "promote" =>
                       artifact[p] # None /\ Passed(build[p], artifact[p])

\* Once a live leg has come up, the live project has a container, but for a
\* replacement that is under way or was cut off.
StaysUp == live = None => NeverUp \/ Replacing

\* A teardown by name has its own project to remove and no other.
TodoOK == \A p \in Legs : mode[p] = "down" => todo[p] \subseteq {Project(p)}

IInv ==
  /\ TypeOK /\ RoutesOK /\ InputsOK /\ TaggedOK /\ ContainersOK /\ OneUp /\ ChecksOK
  /\ SaidOK /\ NamesOK /\ NamedMeansChecked /\ LiveFollowsTag /\ StaysUp /\ TodoOK
=============================================================================
