-------------------------- MODULE SandboxInvariant --------------------------
(***************************************************************************)
(* An inductive invariant of SandboxRunner, which implies StagedWhole and  *)
(* InstalledWhole: what a stamp says of the copy beside it, and the        *)
(* install's stamp of the venv, however many runs were cut before, unless  *)
(* a HEAD has come back to the commit the stamp names.                     *)
(***************************************************************************)
EXTENDS SandboxRunner

Copying  == {"wipe", "remove", "mkdir", "extract", "stamp"}
Staging  == Copying \cup {"stage"}

\* The route of a run: what its variables are at each place.
RouteOK ==
  /\ at \in Copying \cup {"copying"} => name \in left
  /\ at \notin Copying \cup {"copying"} => name = Absent
  /\ at \in Copying => read \in Commits
  /\ at = "off" => left = {}
  /\ at \in Copying => head[name] \in was[name]
  /\ at \notin Copying => read = Absent

\* A copy is of the commit that its stamp names, if that is HEAD.
StampsOK ==
  \A n \in Mounts : stamp[n] = head[n] => copy[n] = head[n] \/ n \in returned

\* What is being copied has a stamp that HEAD has left, and will have one of the commit
\* that was copied, if that is still HEAD.
CopyingOK ==
  at \in Copying =>
    /\ stamp[name] = head[name] => name \in returned
    /\ at = "stamp" => /\ copy[name] \in was[name]
                       /\ read = head[name] => copy[name] = read \/ name \in returned

\* The copies that this run is done with.
Staged == IF at = "off" THEN {} ELSE IF at \in Staging THEN Mounts \ left ELSE Mounts

StagedOK ==
  \A n \in Staged : /\ stamp[n] \in Commits /\ copy[n] # Absent
                    /\ copy[n] \in was[n] \/ n \in returned

\* The install's stamp does not come true again by itself: what it names for a mount that
\* is at that commit is what the copy was stamped with then and still is, and is not what
\* is being copied.
InstallStampOK ==
  installed # Absent /\ ~reverted =>
    /\ \A n \in Mounts : installed[n] = head[n] => stamp[n] = head[n] /\ copy[n] # Absent
    /\ at \in Copying => installed[name] # read /\ installed[name] # head[name]

\* While its stamp is true the install is that of the copies, but for those that are to
\* be made again.  During an install it is that of the copies done.
InstallOK ==
  /\ installed = stamp /\ ~reverted =>
       \A n \in Mounts : lib[n] = copy[n] \/ (n \notin Staged /\ stamp[n] \notin {head[n], copy[n]})
  /\ at \in {"install", "copying"} =>
       /\ installed # stamp
       /\ \A n \in Mounts \ left : lib[n] = copy[n]

\* What every step of the script, and every move of a HEAD, keeps of the stage.
StageInv == /\ StageTypeOK
            /\ RouteOK
            /\ StampsOK
            /\ CopyingOK
            /\ StagedOK
            /\ InstallStampOK
            /\ InstallOK
            /\ InstalledWhole

IInv == TypeOK /\ StageInv
=============================================================================
