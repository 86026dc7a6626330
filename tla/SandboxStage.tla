---------------------------- MODULE SandboxStage ----------------------------
(***************************************************************************)
(* deploy/sandbox-runner.sh, steps 1 to 4: the factory's own checkouts are *)
(* copied out of their mounts and installed, again only when they have     *)
(* changed.  What was done is remembered in stamp files, so that a run     *)
(* that dies at any command is made good by the next one.                  *)
(*                                                                         *)
(* The mounts are the host's live checkouts: their HEADs move whenever     *)
(* somebody works there, and may come back to a commit they have been at.  *)
(* git, tar and uv are external.                                           *)
(* Left out: a run refused because a mount is missing, and the hurl shim,  *)
(* written the same way by every run.                                      *)
(***************************************************************************)
EXTENDS Naturals

CONSTANTS Mounts,      \* MOUNT_NAMES
          Commits,     \* what a mount's HEAD can be at
          Absent,      \* no such file or folder
          Partial,     \* a folder made from nothing in particular
          MaxMoves     \* bound: moves of HEADs

ASSUME StageConstants ==
  /\ MaxMoves \in Nat
  /\ Absent # Partial /\ {Absent, Partial} \cap Commits = {}
  /\ Absent \notin Mounts /\ Absent \notin [Mounts -> Commits \cup {Absent}]

VARIABLES head,       \* HEAD of each mount
          moves,      \* bounding counter
          copy,       \* ${SRC_ROOT}/<name>: the commit its files are those of
          stamp,      \* ${SRC_ROOT}/<name>.commit
          python,     \* whether ${VENV}/bin/python is there
          lib,        \* what the venv has installed of each copy
          installed,  \* ${INSTALL_STAMP}: the commits it was made from
          at,         \* where the run is
          left,       \* the names its loop still has to do
          name,       \* the name it is doing
          read,       \* $head, as stage_tree read it
          was,        \* history: the HEADs of a mount while this run looked at it
          returned,   \* history: mounts whose HEAD came back to the commit their stamp
                      \* names, or is to name, while the copy was or became another
          reverted    \* history: whether, after the last finished install, a HEAD came
                      \* back so to the commit the install's stamp names for it

mounts == <<head, moves>>
disk == <<copy, stamp, python, lib, installed>>
run  == <<at, left, name, read>>
past == <<was, returned, reverted>>
stageVars == <<mounts, disk, run, past>>

Loops  == {"stage", "install"}
Places == {"off", "wipe", "remove", "mkdir", "extract", "stamp", "venv", "check",
           "copying", "ready"} \cup Loops

StageInit ==
  /\ head \in [Mounts -> Commits]
  /\ moves = 0
  /\ copy = [n \in Mounts |-> Absent]
  /\ stamp = [n \in Mounts |-> Absent]
  /\ python = FALSE
  /\ lib = [n \in Mounts |-> Absent]
  /\ installed = Absent
  /\ at = "off"
  /\ left = {}
  /\ name = Absent
  /\ read = Absent
  /\ was = [n \in Mounts |-> {}]
  /\ returned = {}
  /\ reverted = FALSE

Goto(place) == at' = place

-----------------------------------------------------------------------------
\* HEAD moves to a commit that a stamp names although the copy is not, or no longer, its.
Redoing(n) == name = n /\ read # Absent

ComesBack(n, c) ==
  \/ c = stamp[n] /\ (copy[n] # c \/ Redoing(n))
  \/ c = read /\ Redoing(n)

ComesBackToInstall(n, c) ==
  installed # Absent /\ c = installed[n] /\ (stamp[n] # c \/ copy[n] # c \/ Redoing(n))

\* Somebody commits to, or checks out, something else in a mounted checkout.
Move(n) ==
  /\ moves < MaxMoves
  /\ moves' = moves + 1
  /\ \E c \in Commits \ {head[n]} :
       /\ head' = [head EXCEPT ![n] = c]
       /\ was' = IF Redoing(n) THEN [was EXCEPT ![n] = @ \cup {c}] ELSE was
       /\ returned' = IF ComesBack(n, c) THEN returned \cup {n} ELSE returned
       /\ reverted' = (reverted \/ ComesBackToInstall(n, c))
  /\ UNCHANGED <<disk, run>>

\* The script is started, the first time or again.
Enter ==
  /\ at = "off"
  /\ Goto("stage")
  /\ left' = Mounts
  /\ UNCHANGED <<mounts, disk, name, read, past>>

Copied(n) == copy[n] # Absent /\ stamp[n] = head[n]

\* stage_tree: the copy there was made from this very commit.
AlreadyCopied(n) ==
  /\ at = "stage" /\ n \in left
  /\ Copied(n)
  /\ left' = left \ {n}
  /\ was' = [was EXCEPT ![n] = {head[n]}]
  /\ UNCHANGED <<mounts, disk, at, name, read, returned, reverted>>

\* stage_tree: HEAD has moved, or there is no copy.
ReadHead(n) ==
  /\ at = "stage" /\ n \in left
  /\ ~Copied(n)
  /\ name' = n
  /\ read' = head[n]
  /\ was' = [was EXCEPT ![n] = {head[n]}]
  /\ Goto("wipe")
  /\ UNCHANGED <<mounts, disk, left, returned, reverted>>

\* rm -rf: begun, then done.
Wipe ==
  /\ at = "wipe"
  /\ copy' = [copy EXCEPT ![name] = IF @ = Absent THEN Absent ELSE Partial]
  /\ Goto("remove")
  /\ UNCHANGED <<mounts, stamp, python, lib, installed, left, name, read, past>>

Remove ==
  /\ at = "remove"
  /\ copy' = [copy EXCEPT ![name] = Absent]
  /\ Goto("mkdir")
  /\ UNCHANGED <<mounts, stamp, python, lib, installed, left, name, read, past>>

\* Mutant: the stamp is written before the files are there.
StampFirst ==
  /\ at = "mkdir"
  /\ copy' = [copy EXCEPT ![name] = Partial]
  /\ stamp' = [stamp EXCEPT ![name] = read]
  /\ Goto("extract")
  /\ UNCHANGED <<mounts, python, lib, installed, left, name, read, past>>

MakeFolder ==
  /\ at = "mkdir"
  /\ copy' = [copy EXCEPT ![name] = Partial]
  /\ Goto("extract")
  /\ UNCHANGED <<mounts, stamp, python, lib, installed, left, name, read, past>>

\* git archive HEAD | tar: HEAD is resolved again, and may have moved.
Extract ==
  /\ at = "extract"
  /\ copy' = [copy EXCEPT ![name] = head[name]]
  /\ Goto("stamp")
  /\ UNCHANGED <<mounts, stamp, python, lib, installed, left, name, read, past>>

Stamp ==
  /\ at = "stamp"
  /\ stamp' = [stamp EXCEPT ![name] = read]
  /\ returned' = IF copy[name] = read THEN returned \ {name} ELSE returned
  /\ left' = left \ {name}
  /\ name' = Absent /\ read' = Absent
  /\ Goto("stage")
  /\ UNCHANGED <<mounts, copy, python, lib, installed, was, reverted>>

AllCopied ==
  /\ at = "stage" /\ left = {}
  /\ Goto("venv")
  /\ UNCHANGED <<mounts, disk, left, name, read, past>>

\* Step 3: the venv, unless there is one.
MakeVenv ==
  /\ at = "venv"
  /\ python' = TRUE
  /\ Goto("check")
  /\ UNCHANGED <<mounts, copy, stamp, lib, installed, left, name, read, past>>

\* Mutant: any finished install will do.
CheckAny ==
  /\ at = "check"
  /\ \/ installed # Absent /\ Goto("ready") /\ UNCHANGED left
     \/ installed = Absent /\ Goto("install") /\ left' = Mounts
  /\ UNCHANGED <<mounts, disk, name, read, past>>

\* Step 4: the install is the one made from the copies that are there, or all of
\* them are installed again.
Check ==
  /\ at = "check"
  /\ \/ installed = stamp /\ Goto("ready") /\ UNCHANGED left
     \/ installed # stamp /\ Goto("install") /\ left' = Mounts
  /\ UNCHANGED <<mounts, disk, name, read, past>>

\* uv pip install of one copy: begun, then done.
BeginInstall(n) ==
  /\ at = "install" /\ n \in left
  /\ name' = n
  /\ lib' = [lib EXCEPT ![n] = Partial]
  /\ Goto("copying")
  /\ UNCHANGED <<mounts, copy, stamp, python, installed, left, read, past>>

EndInstall ==
  /\ at = "copying"
  /\ lib' = [lib EXCEPT ![name] = copy[name]]
  /\ left' = left \ {name}
  /\ name' = Absent
  /\ Goto("install")
  /\ UNCHANGED <<mounts, copy, stamp, python, installed, read, past>>

\* The imports succeed and the install is stamped.
Prove ==
  /\ at = "install" /\ left = {}
  /\ installed' = stamp
  /\ reverted' = FALSE
  /\ Goto("ready")
  /\ UNCHANGED <<mounts, copy, stamp, python, lib, left, name, read, was, returned>>

\* The run ends at this command: it failed (set -e), or the script was killed.
\* A file being written may have been emptied already, and a venv being made may
\* have its python.  SANDBOX_RUNNER_BOOTSTRAP_ONLY ends a run that is ready.
Cut ==
  /\ at # "off"
  /\ \/ at = "stamp" /\ stamp' = [stamp EXCEPT ![name] = Absent] /\ UNCHANGED <<installed, python>>
     \/ at = "install" /\ left = {} /\ installed' = Absent /\ UNCHANGED <<stamp, python>>
     \/ at = "venv" /\ python' = TRUE /\ UNCHANGED <<stamp, installed>>
     \/ UNCHANGED <<stamp, installed, python>>
  /\ Goto("off")
  /\ left' = {} /\ name' = Absent /\ read' = Absent
  /\ was' = [n \in Mounts |-> {}]
  /\ UNCHANGED <<mounts, copy, lib, returned, reverted>>

StageStep ==
  \/ Wipe \/ Remove \/ MakeFolder \/ Extract \/ Stamp \/ AllCopied \/ MakeVenv \/ Check
  \/ EndInstall \/ Prove
  \/ \E n \in Mounts : AlreadyCopied(n) \/ ReadHead(n) \/ BeginInstall(n)

-----------------------------------------------------------------------------
StageTypeOK ==
  /\ head \in [Mounts -> Commits]
  /\ moves \in 0..MaxMoves
  /\ copy \in [Mounts -> Commits \cup {Absent, Partial}]
  /\ stamp \in [Mounts -> Commits \cup {Absent}]
  /\ python \in BOOLEAN
  /\ lib \in [Mounts -> Commits \cup {Absent, Partial}]
  /\ installed \in [Mounts -> Commits] \cup {Absent}
  /\ at \in Places
  /\ left \subseteq Mounts
  /\ name \in Mounts \cup {Absent}
  /\ read \in Commits \cup {Absent}
  /\ was \in [Mounts -> SUBSET Commits]
  /\ returned \subseteq Mounts
  /\ reverted \in BOOLEAN

\* Past the copying, every copy is whole and of a commit its mount was at while this run
\* looked at it, wherever earlier runs were cut and however the HEADs moved (stage_tree:
\* "unless the copy already there was made from that same commit"), except where a HEAD
\* came back to the commit of a stamp whose copy was another's, or was being replaced.
StagedWhole ==
  at \in {"venv", "check", "install", "copying", "ready"} =>
    \A n \in Mounts : copy[n] \in was[n] \/ n \in returned

\* The services are started from a finished install of every checkout, each at a commit
\* its mount was at while this run looked at it: a stamp left by an earlier run never passes for an
\* install that a later one broke off, unless a HEAD has come back to the commit that
\* stamp names, or the copy was not that of its own stamp.
InstalledWhole ==
  at = "ready" => reverted \/ \A n \in Mounts : lib[n] \in was[n] \/ n \in returned
=============================================================================
