--------------------------- MODULE SandboxProofs ---------------------------
(***************************************************************************)
(* Proofs about SandboxRunner: whatever is cut, and however often, a later *)
(* run takes a broken copy for a whole one, or a broken install for a      *)
(* finished one, only where a HEAD has come back to the commit of a stamp. *)
(* First that each action of the script keeps the stage's part of the      *)
(* invariant, one step for each conjunct that takes more than the conjunct *)
(* itself; then that the services' steps do, and the theorems.             *)
(***************************************************************************)
EXTENDS SandboxInvariant, TLAPS

USE DEF Goto, Copying, mounts, disk, run, past

-----------------------------------------------------------------------------
\* A HEAD that comes to the commit of a stamp is noted, unless the copy is that commit's.
LEMMA MoveKeeps ==
  ASSUME StageInv, NEW n \in Mounts, Move(n)
  PROVE  StageInv'
<1>1. PICK c \in Commits \ {head[n]} :
        /\ head' = [head EXCEPT ![n] = c]
        /\ was' = IF Redoing(n) THEN [was EXCEPT ![n] = @ \cup {c}] ELSE was
        /\ returned' = IF ComesBack(n, c) THEN returned \cup {n} ELSE returned
        /\ reverted' = (reverted \/ ComesBackToInstall(n, c))
  BY DEF Move
<1>2. moves \in 0..MaxMoves /\ moves < MaxMoves /\ moves' = moves + 1 /\ UNCHANGED <<disk, run>>
  BY DEF Move, StageInv, StageTypeOK
<1>3. /\ returned \subseteq returned' /\ reverted \in BOOLEAN /\ reverted' \in BOOLEAN
      /\ reverted => reverted'
  BY <1>1 DEF StageInv, StageTypeOK, ComesBackToInstall
<1>4. /\ \A m \in Mounts : head'[m] = IF m = n THEN c ELSE head[m]
      /\ head' \in [Mounts -> Commits]
  BY <1>1 DEF StageInv, StageTypeOK
<1>5. /\ was' \in [Mounts -> SUBSET Commits]
      /\ \A m \in Mounts : was[m] \subseteq was'[m]
      /\ Redoing(n) => c \in was'[n]
  BY <1>1 DEF StageInv, StageTypeOK
<1>6. /\ ComesBack(n, c) => n \in returned'
      /\ ComesBackToInstall(n, c) => reverted'
  BY <1>1, <1>3
<1>7. at \in Copying => Redoing(name) /\ name \in Mounts
  BY StageConstants DEF StageInv, StageTypeOK, RouteOK, Redoing
<1>8. StageTypeOK'
  <2>1. moves' \in 0..MaxMoves
    BY <1>2, StageConstants
  <2>2. returned' \subseteq Mounts
    BY <1>1 DEF StageInv, StageTypeOK
  <2> QED  BY <1>2, <1>3, <1>4, <1>5, <2>1, <2>2 DEF StageInv, StageTypeOK
<1>9. RouteOK'
  BY <1>2, <1>4, <1>5, <1>7 DEF StageInv, RouteOK
<1>10. StampsOK'
  BY <1>2, <1>3, <1>4, <1>6 DEF StageInv, StampsOK, ComesBack
<1>11. CopyingOK'
  BY <1>2, <1>3, <1>4, <1>5, <1>6, <1>7 DEF StageInv, CopyingOK, ComesBack
<1>12. StagedOK'
  BY <1>2, <1>3, <1>5 DEF StageInv, StageTypeOK, StagedOK, Staged
<1>13. InstallStampOK'
  <2> SUFFICES ASSUME installed # Absent, ~reverted'  PROVE InstallStampOK'
    BY <1>2 DEF InstallStampOK
  <2>1. c = installed[n] => stamp[n] = c /\ copy[n] = c /\ ~Redoing(n)
    BY <1>6 DEF ComesBackToInstall
  <2>2. ~reverted
    BY <1>3
  <2>3. copy[n] = c => copy[n] # Absent
    BY StageConstants
  <2> QED  BY <1>2, <1>4, <1>7, <2>1, <2>2, <2>3 DEF StageInv, InstallStampOK
<1>14. InstallOK'
  <2>1. ASSUME installed = stamp, ~reverted', NEW m \in Mounts
        PROVE  lib[m] = copy[m] \/ (m \notin Staged /\ stamp[m] \notin {head'[m], copy[m]})
    <3>1. lib[m] = copy[m] \/ (m \notin Staged /\ stamp[m] \notin {head[m], copy[m]})
      BY <1>3, <2>1 DEF StageInv, InstallOK
    <3>2. stamp \in [Mounts -> Commits \cup {Absent}]
      BY DEF StageInv, StageTypeOK
    <3>3. stamp # Absent
      BY <2>1, <3>2, StageConstants DEF StageInv, StageTypeOK
    <3>4. c = stamp[n] => copy[n] = c
      BY <1>6, <2>1, <3>3 DEF ComesBackToInstall
    <3> QED  BY <1>4, <3>1, <3>4
  <2>2. Staged' = Staged
    BY <1>2 DEF Staged
  <2> QED  BY <1>2, <2>1, <2>2 DEF StageInv, InstallOK
<1>15. InstalledWhole'
  BY <1>2, <1>3, <1>5 DEF StageInv, InstalledWhole
<1> QED  BY <1>8, <1>9, <1>10, <1>11, <1>12, <1>13, <1>14, <1>15 DEF StageInv

\* A run that begins has staged nothing yet.
LEMMA EnterKeeps ==
  ASSUME StageInv, Enter
  PROVE  StageInv'
<1> USE DEF Enter
<1>1. StageTypeOK'
  BY DEF StageInv, StageTypeOK, Places, Loops
<1>2. RouteOK'
  BY DEF StageInv, StageTypeOK, RouteOK
<1>3. StampsOK' /\ CopyingOK' /\ StagedOK' /\ InstallStampOK' /\ InstallOK' /\
      InstalledWhole'
  BY DEF StageInv, StampsOK, CopyingOK, StagedOK, InstallStampOK, InstallOK,
         InstalledWhole, Staged, Staging
<1> QED  BY <1>1, <1>2, <1>3 DEF StageInv

\* A copy whose stamp is HEAD is that of HEAD, unless HEAD came back to it.
LEMMA AlreadyCopiedKeeps ==
  ASSUME StageInv, NEW n \in Mounts, AlreadyCopied(n)
  PROVE  StageInv'
<1> USE DEF AlreadyCopied
<1>1. StagedOK'
  BY DEF StageInv, StageTypeOK, RouteOK, StampsOK, StagedOK, Staged, Staging,
         Copied
<1>2. StageTypeOK' /\ RouteOK' /\ StampsOK' /\ CopyingOK' /\ InstallStampOK' /\
      InstallOK' /\ InstalledWhole'
  <2>1. Staged' = Staged \cup {n}
    BY DEF StageInv, StageTypeOK, Staged, Staging
  <2>2. InstallOK'
    BY <2>1 DEF StageInv, InstallOK, Copied
  <2> QED  BY <2>2 DEF StageInv, StageTypeOK, RouteOK, StampsOK, CopyingOK, InstallStampOK,
                       InstalledWhole
<1> QED  BY <1>1, <1>2 DEF StageInv

\* A copy that is to be made again has the stamp of another commit, or is gone.
LEMMA ReadHeadKeeps ==
  ASSUME StageInv, NEW n \in Mounts, ReadHead(n)
  PROVE  StageInv'
<1> USE DEF ReadHead
<1>1. StageTypeOK'
  BY DEF StageInv, StageTypeOK, Places, Loops
<1>2. RouteOK'
  BY DEF StageInv, StageTypeOK, RouteOK
<1>3. CopyingOK'
  BY StageConstants DEF StageInv, StageTypeOK, StampsOK, CopyingOK, Copied
<1>4. InstallStampOK'
  BY StageConstants DEF StageInv, StageTypeOK, StampsOK, InstallStampOK, Copied
<1>5. StampsOK' /\ StagedOK' /\ InstallOK' /\ InstalledWhole'
  BY DEF StageInv, StampsOK, StagedOK, InstallOK, InstalledWhole, Staged, Staging
<1> QED  BY <1>1, <1>2, <1>3, <1>4, <1>5 DEF StageInv

\* While a copy is made again, the install's stamp is not to come true: it is not that of
\* HEAD, nor what will be stamped.
LEMMA RecopyKeepsInstall ==
  ASSUME StageInv, at \in Copying, at' \in Copying, NEW x \in {Absent, Partial, head[name]},
         copy' = [copy EXCEPT ![name] = x],
         UNCHANGED <<head, stamp, lib, installed, left, name, read, reverted>>
  PROVE  InstallStampOK' /\ InstallOK'
<1>1. name \in Mounts /\ name \notin Staged /\ Staged' = Staged
  BY DEF StageInv, StageTypeOK, RouteOK, Staged, Staging
<1>2. \A n \in Mounts : copy'[n] = IF n = name THEN x ELSE copy[n]
  BY DEF StageInv, StageTypeOK
<1>3. InstallStampOK'
  BY <1>1, <1>2 DEF StageInv, InstallStampOK
<1>4. InstallOK'
  <2>1. ASSUME installed = stamp, ~reverted, NEW n \in Mounts
        PROVE  lib[n] = copy'[n] \/ (n \notin Staged /\ stamp[n] \notin {head[n], copy'[n]})
    <3>1. installed # Absent /\ stamp[name] \in Commits
      BY <1>1, <2>1, StageConstants DEF StageInv, StageTypeOK
    <3>2. stamp[name] # head[name]
      BY <2>1, <3>1 DEF StageInv, InstallStampOK
    <3>3. stamp[name] # x
      BY <3>1, <3>2, StageConstants
    <3> QED  BY <1>1, <1>2, <2>1, <3>2, <3>3 DEF StageInv, InstallOK
  <2> QED  BY <1>1, <2>1 DEF InstallOK
<1> QED  BY <1>3, <1>4

\* From here until the stamp is written anew the copy is not whole, and its old stamp is
\* not of HEAD: a run cut here is made good by the next one, unless HEAD comes back.
LEMMA WipeKeeps ==
  ASSUME StageInv, Wipe
  PROVE  StageInv'
<1> USE DEF Wipe
<1>1. StageTypeOK'
  BY DEF StageInv, StageTypeOK, Places, Loops, RouteOK
<1>2. StampsOK'
  BY StageConstants DEF StageInv, StageTypeOK, RouteOK, StampsOK, CopyingOK
<1>3. StagedOK'
  BY DEF StageInv, RouteOK, StagedOK, Staged, Staging
<1>4. InstallStampOK' /\ InstallOK'
  <2>1. PICK x \in {Absent, Partial} : copy' = [copy EXCEPT ![name] = x]
    OBVIOUS
  <2> QED  BY <2>1, RecopyKeepsInstall
<1>5. RouteOK' /\ CopyingOK' /\ InstalledWhole'
  BY DEF StageInv, RouteOK, CopyingOK, InstalledWhole
<1> QED  BY <1>1, <1>2, <1>3, <1>4, <1>5 DEF StageInv

LEMMA RemoveKeeps ==
  ASSUME StageInv, Remove
  PROVE  StageInv'
<1> USE DEF Remove
<1>1. StageTypeOK'
  BY DEF StageInv, StageTypeOK, Places, Loops, RouteOK
<1>2. StampsOK'
  BY StageConstants DEF StageInv, StageTypeOK, RouteOK, StampsOK, CopyingOK
<1>3. StagedOK'
  BY DEF StageInv, RouteOK, StagedOK, Staged, Staging
<1>4. InstallStampOK' /\ InstallOK'
  <2>1. PICK x \in {Absent, Partial} : copy' = [copy EXCEPT ![name] = x]
    OBVIOUS
  <2> QED  BY <2>1, RecopyKeepsInstall
<1>5. RouteOK' /\ CopyingOK' /\ InstalledWhole'
  BY DEF StageInv, RouteOK, CopyingOK, InstalledWhole
<1> QED  BY <1>1, <1>2, <1>3, <1>4, <1>5 DEF StageInv

LEMMA MakeFolderKeeps ==
  ASSUME StageInv, MakeFolder
  PROVE  StageInv'
<1> USE DEF MakeFolder
<1>1. StageTypeOK'
  BY DEF StageInv, StageTypeOK, Places, Loops, RouteOK
<1>2. StampsOK'
  BY StageConstants DEF StageInv, StageTypeOK, RouteOK, StampsOK, CopyingOK
<1>3. StagedOK'
  BY DEF StageInv, RouteOK, StagedOK, Staged, Staging
<1>4. InstallStampOK' /\ InstallOK'
  <2>1. PICK x \in {Absent, Partial} : copy' = [copy EXCEPT ![name] = x]
    OBVIOUS
  <2> QED  BY <2>1, RecopyKeepsInstall
<1>5. RouteOK' /\ CopyingOK' /\ InstalledWhole'
  BY DEF StageInv, RouteOK, CopyingOK, InstalledWhole
<1> QED  BY <1>1, <1>2, <1>3, <1>4, <1>5 DEF StageInv

\* What is extracted is HEAD, not what was read.
LEMMA ExtractKeeps ==
  ASSUME StageInv, Extract
  PROVE  StageInv'
<1> USE DEF Extract
<1>1. StageTypeOK'
  BY DEF StageInv, StageTypeOK, Places, Loops, RouteOK
<1>2. StampsOK'
  BY DEF StageInv, StageTypeOK, StampsOK
<1>3. CopyingOK'
  BY DEF StageInv, StageTypeOK, RouteOK, CopyingOK
<1>4. StagedOK'
  BY DEF StageInv, RouteOK, StagedOK, Staged, Staging
<1>5. InstallStampOK' /\ InstallOK'
  BY RecopyKeepsInstall
<1>6. RouteOK' /\ InstalledWhole'
  BY DEF StageInv, RouteOK, InstalledWhole
<1> QED  BY <1>1, <1>2, <1>3, <1>4, <1>5, <1>6 DEF StageInv

\* The stamp becomes what was read, which is the copy's commit if it is still HEAD, and is
\* not what the install's stamp names.
LEMMA StampKeeps ==
  ASSUME StageInv, Stamp
  PROVE  StageInv'
<1> USE DEF Stamp
<1>1. /\ name \in Mounts /\ read \in Commits /\ copy[name] \in was[name]
      /\ read = head[name] => copy[name] = read \/ name \in returned
      /\ at' = "stage" /\ at = "stamp"
  BY DEF StageInv, StageTypeOK, RouteOK, CopyingOK
<1>2. \A n \in Mounts : stamp'[n] = IF n = name THEN read ELSE stamp[n]
  BY DEF StageInv, StageTypeOK
<1>3. /\ returned' \subseteq returned
      /\ \A n \in returned : n \in returned' \/ (n = name /\ copy[name] = read)
  OBVIOUS
<1>4. StageTypeOK'
  BY <1>1, <1>3 DEF StageInv, StageTypeOK, Places, Loops
<1>5. RouteOK'
  BY DEF StageInv, RouteOK
<1>6. StampsOK'
  BY <1>1, <1>2, <1>3 DEF StageInv, StampsOK
<1>7. Staged = Mounts \ left /\ Staged' = Staged \cup {name}
  BY <1>1 DEF StageInv, StageTypeOK, Staged, Staging
<1>8. StagedOK'
  <2>1. copy[name] # Absent
    BY <1>1, StageConstants DEF StageInv, StageTypeOK
  <2> QED  BY <1>1, <1>2, <1>3, <1>7, <2>1 DEF StageInv, StagedOK
<1>9. InstallStampOK' /\ InstallOK'
  <2>1. installed # Absent /\ ~reverted => installed[name] # read /\ installed[name] # head[name]
    BY <1>1 DEF StageInv, InstallStampOK
  <2>2. installed # Absent /\ ~reverted => installed # stamp'
    BY <1>1, <1>2, <2>1
  <2>3. stamp' # Absent
    BY <1>4, StageConstants DEF StageTypeOK
  <2>4. InstallStampOK'
    BY <1>1, <1>2, <2>1 DEF StageInv, InstallStampOK
  <2> QED  BY <1>1, <2>2, <2>3, <2>4 DEF InstallOK
<1>10. CopyingOK' /\ InstalledWhole'
  BY DEF CopyingOK, InstalledWhole
<1> QED  BY <1>4, <1>5, <1>6, <1>8, <1>9, <1>10 DEF StageInv

\* With nothing left to copy, every copy is whole.
LEMMA AllCopiedKeeps ==
  ASSUME StageInv, AllCopied
  PROVE  StageInv'
<1> USE DEF AllCopied
<1>1. StageTypeOK'
  BY DEF StageInv, StageTypeOK, Places, Loops
<1>2. RouteOK' /\ StampsOK' /\ CopyingOK' /\ StagedOK' /\ InstallStampOK' /\
      InstallOK' /\ InstalledWhole'
  BY DEF StageInv, RouteOK, StampsOK, CopyingOK, StagedOK, InstallStampOK,
         InstallOK, InstalledWhole, Staged, Staging
<1> QED  BY <1>1, <1>2 DEF StageInv

LEMMA MakeVenvKeeps ==
  ASSUME StageInv, MakeVenv
  PROVE  StageInv'
<1> USE DEF MakeVenv
<1>1. StageTypeOK'
  BY DEF StageInv, StageTypeOK, Places, Loops
<1>2. RouteOK' /\ StampsOK' /\ CopyingOK' /\ StagedOK' /\ InstallStampOK' /\
      InstallOK' /\ InstalledWhole'
  BY DEF StageInv, RouteOK, StampsOK, CopyingOK, StagedOK, InstallStampOK,
         InstallOK, InstalledWhole, Staged, Staging
<1> QED  BY <1>1, <1>2 DEF StageInv

\* An install stamped with the commits the copies are stamped with is whole.
LEMMA CheckKeeps ==
  ASSUME StageInv, Check
  PROVE  StageInv'
<1> USE DEF Check
<1>1. StageTypeOK'
  BY DEF StageInv, StageTypeOK, Places, Loops
<1>2. InstalledWhole'
  BY DEF StageInv, StageTypeOK, StagedOK, Staged, Staging, InstallOK,
         InstalledWhole
<1>3. RouteOK' /\ StampsOK' /\ CopyingOK' /\ StagedOK' /\ InstallStampOK' /\
      InstallOK'
  BY DEF StageInv, RouteOK, StampsOK, CopyingOK, StagedOK, InstallStampOK,
         InstallOK, Staged, Staging
<1> QED  BY <1>1, <1>2, <1>3 DEF StageInv

\* A package that is being replaced is among those left to install.
LEMMA BeginInstallKeeps ==
  ASSUME StageInv, NEW n \in Mounts, BeginInstall(n)
  PROVE  StageInv'
<1> USE DEF BeginInstall
<1>1. StageTypeOK'
  BY DEF StageInv, StageTypeOK, Places, Loops
<1>2. RouteOK' /\ StampsOK' /\ CopyingOK' /\ StagedOK' /\ InstallStampOK' /\
      InstallOK' /\ InstalledWhole'
  BY DEF StageInv, RouteOK, StampsOK, CopyingOK, StagedOK, InstallStampOK,
         InstallOK, InstalledWhole, Staged, Staging
<1> QED  BY <1>1, <1>2 DEF StageInv

\* What has been installed is the copy.
LEMMA EndInstallKeeps ==
  ASSUME StageInv, EndInstall
  PROVE  StageInv'
<1> USE DEF EndInstall
<1>1. StageTypeOK'
  BY DEF StageInv, StageTypeOK, Places, Loops, RouteOK
<1>2. InstallOK'
  BY DEF StageInv, StageTypeOK, StampsOK, StagedOK, Staged, Staging, InstallOK
<1>3. RouteOK' /\ StampsOK' /\ CopyingOK' /\ StagedOK' /\ InstallStampOK' /\
      InstalledWhole'
  BY DEF StageInv, RouteOK, StampsOK, CopyingOK, StagedOK, InstallStampOK,
         InstalledWhole, Staged, Staging
<1> QED  BY <1>1, <1>2, <1>3 DEF StageInv

\* The install is stamped when nothing is left to install.
LEMMA ProveKeeps ==
  ASSUME StageInv, Prove
  PROVE  StageInv'
<1> USE DEF Prove
<1>1. StageTypeOK'
  BY DEF StageInv, StageTypeOK, Places, Loops, StagedOK, Staged, Staging
<1>2. InstallStampOK'
  BY DEF StageInv, InstallStampOK, StagedOK, Staged, Staging
<1>3. InstalledWhole'
  BY DEF StageInv, StageTypeOK, StagedOK, Staged, Staging, InstallOK,
         InstalledWhole
<1>4. RouteOK' /\ StampsOK' /\ CopyingOK' /\ StagedOK' /\ InstallOK'
  BY DEF StageInv, RouteOK, StampsOK, CopyingOK, StagedOK, InstallOK,
         Staged, Staging
<1> QED  BY <1>1, <1>2, <1>3, <1>4 DEF StageInv

\* A run that is cut may leave a stamp empty, and nothing staged.
LEMMA CutKeeps ==
  ASSUME StageInv, Cut
  PROVE  StageInv'
<1> USE DEF Cut
<1>1. StageTypeOK'
  BY DEF StageInv, StageTypeOK, Places, Loops
<1>2. RouteOK'
  BY DEF StageInv, StageTypeOK, RouteOK
<1>3. StampsOK'
  BY StageConstants DEF StageInv, StageTypeOK, StampsOK
<1>4. InstallStampOK'
  BY StageConstants DEF StageInv, StageTypeOK, RouteOK, InstallStampOK
<1>5. InstallOK'
  <2>1. /\ installed' = stamp' => stamp' = stamp /\ installed' = installed
        /\ Staged' = {} /\ UNCHANGED <<head, copy, lib, reverted>>
    <3>1. stamp' # Absent /\ installed' \in [Mounts -> Commits] \cup {Absent}
      BY <1>1, StageConstants DEF StageTypeOK
    <3>2. CASE at = "stamp" /\ stamp' = [stamp EXCEPT ![name] = Absent]
      <4>1. name \in Mounts /\ stamp'[name] = Absent
        BY <3>2 DEF StageInv, StageTypeOK, RouteOK
      <4>2. installed' # stamp'
        BY <3>1, <4>1, StageConstants
      <4> QED  BY <4>2 DEF Staged
    <3>3. CASE installed' = Absent
      BY <3>1, <3>3 DEF Staged
    <3> QED  BY <3>2, <3>3 DEF Staged
  <2>2. at' = "off"
    OBVIOUS
  <2> QED  BY <2>1, <2>2 DEF StageInv, InstallOK, Staged
<1>6. CopyingOK' /\ StagedOK' /\ InstalledWhole'
  BY DEF StageInv, CopyingOK, StagedOK, InstalledWhole, Staged, Staging
<1> QED  BY <1>1, <1>2, <1>3, <1>4, <1>5, <1>6 DEF StageInv
-----------------------------------------------------------------------------
\* The steps of the stage: the script's, its start and end, and the moves of HEADs.
LEMMA StageKeeps ==
  ASSUME StageInv,
         StageStep \/ Enter \/ Cut \/ (\E n \in Mounts : Move(n)) \/ UNCHANGED stageVars
  PROVE  StageInv'
<1>1. CASE UNCHANGED stageVars
  BY <1>1 DEF stageVars, StageInv, StageTypeOK, RouteOK, StampsOK, CopyingOK, StagedOK,
              InstallStampOK, InstallOK, InstalledWhole, Staged
<1>2. CASE \E n \in Mounts : AlreadyCopied(n) \/ ReadHead(n) \/ BeginInstall(n)
  BY <1>2, AlreadyCopiedKeeps, ReadHeadKeeps, BeginInstallKeeps
<1>3. CASE Wipe \/ Remove \/ MakeFolder \/ Extract \/ Stamp
  BY <1>3, WipeKeeps, RemoveKeeps, MakeFolderKeeps, ExtractKeeps, StampKeeps
<1>4. CASE AllCopied \/ MakeVenv \/ Check \/ EndInstall \/ Prove
  BY <1>4, AllCopiedKeeps, MakeVenvKeeps, CheckKeeps, EndInstallKeeps, ProveKeeps
<1>5. CASE Enter \/ Cut \/ \E n \in Mounts : Move(n)
  BY <1>5, EnterKeeps, CutKeeps, MoveKeeps
<1> QED  BY <1>1, <1>2, <1>3, <1>4, <1>5 DEF StageStep

\* The stage is where services may run only when it is ready, and no step of it starts
\* from there.
LEMMA StageStepsLeave ==
  ASSUME TypeOK, StageStep \/ Enter, UNCHANGED services, StageTypeOK'
  PROVE  TypeOK'
<1>1. at # "ready"
  BY DEF StageStep, Enter, AlreadyCopied, ReadHead, Wipe, Remove, MakeFolder, Extract,
         Stamp, AllCopied, MakeVenv, Check, BeginInstall, EndInstall, Prove
<1>2. step = "off" /\ ~ \E s \in Services : proc[s] = "up"
  BY <1>1 DEF TypeOK
<1> QED  BY <1>2 DEF TypeOK, services

\* Only a run that is ready starts services, and only such a run has a step of its own.
LEMMA ServicesKeepTypes ==
  ASSUME TypeOK,
         \/ Serve \/ Fork \/ Record \/ Heed \/ Resume \/ Trap \/ AskToStop
         \/ \E s \in Services : End(s) \/ Obey(s)
  PROVE  TypeOK' /\ UNCHANGED stageVars
<1> USE RunnerConstants DEF TypeOK, States, Serving, Ended, Do
<1>1. UNCHANGED stageVars => StageTypeOK' /\ at' = at
  BY DEF stageVars, StageTypeOK
<1>2. CASE Serve
  BY <1>1, <1>2 DEF Serve
<1>3. CASE Fork
  <2>1. svc \in Services => proc' \in [Services -> States]
    BY <1>3 DEF Fork
  <2>2. svc \notin Services => proc' = proc
    BY <1>3 DEF Fork
  <2> QED  BY <1>1, <1>3, <2>1, <2>2 DEF Fork
<1>4. CASE Record
  BY <1>1, <1>4 DEF Record
<1>5. CASE Heed
  BY <1>1, <1>5 DEF Heed
<1>6. CASE Resume
  BY <1>1, <1>6 DEF Resume
<1>7. CASE Trap
  BY <1>1, <1>7 DEF Trap
<1>8. CASE AskToStop
  BY <1>1, <1>8 DEF AskToStop
<1>9. ASSUME NEW s \in Services, End(s)  PROVE TypeOK' /\ UNCHANGED stageVars
  BY <1>1, <1>9 DEF End
<1>10. ASSUME NEW s \in Services, Obey(s)  PROVE TypeOK' /\ UNCHANGED stageVars
  BY <1>1, <1>10 DEF Obey
<1> QED  BY <1>2, <1>3, <1>4, <1>5, <1>6, <1>7, <1>8, <1>9, <1>10

LEMMA ResetKeepsTypes ==
  ASSUME TypeOK, Reset, StageTypeOK'
  PROVE  TypeOK'
BY DEF TypeOK, Reset, States, Serving

LEMMA InitIInv == Init => IInv
<1> SUFFICES ASSUME Init  PROVE IInv
  OBVIOUS
<1> USE DEF Init, StageInit
<1>1. StageTypeOK
  <2>1. moves \in 0..MaxMoves
    BY StageConstants
  <2>2. was \in [Mounts -> SUBSET Commits] /\ at \in Places
    BY DEF Places, Loops
  <2> QED  BY <2>1, <2>2 DEF StageTypeOK
<1>2. TypeOK
  <2>1. proc \in [Services -> States] /\ pid \in [Services -> BOOLEAN]
    BY DEF States
  <2>2. \A s \in Services : proc[s] # "up"
    OBVIOUS
  <2>3. /\ step \in Serving \cup {"off"} /\ svc \in Services \cup {Nobody}
        /\ stop \in BOOLEAN /\ asked \subseteq Services
    OBVIOUS
  <2>4. ends \in 0..MaxEnds
    BY RunnerConstants
  <2>5. ~(step # "off" \/ \E s \in Services : proc[s] = "up")
    BY <2>2
  <2> QED  BY <1>1, <2>1, <2>3, <2>4, <2>5 DEF TypeOK
<1>3. RouteOK /\ StampsOK
  BY StageConstants DEF RouteOK, StampsOK, Copying
<1>4. CopyingOK /\ StagedOK /\ InstalledWhole
  BY DEF CopyingOK, StagedOK, InstalledWhole, Copying, Staged
<1>5. InstallStampOK /\ InstallOK
  BY StageConstants DEF InstallStampOK, InstallOK, Copying
<1> QED  BY <1>1, <1>2, <1>3, <1>4, <1>5 DEF IInv, StageInv

LEMMA NextIInv ==
  ASSUME IInv, [Next]_vars
  PROVE  IInv'
<1> USE DEF IInv
<1>1. CASE (StageStep \/ Enter) /\ UNCHANGED services
  <2>1. StageInv'
    BY <1>1, StageKeeps
  <2> QED  BY <1>1, <2>1, StageStepsLeave DEF StageInv
<1>2. CASE Cut /\ Reset
  <2>1. StageInv'
    BY <1>2, StageKeeps
  <2> QED  BY <1>2, <2>1, ResetKeepsTypes DEF StageInv
<1>3. CASE (\E n \in Mounts : Move(n)) /\ UNCHANGED services
  <2>1. StageInv'
    BY <1>3, StageKeeps
  <2>2. at' = at
    BY <1>3 DEF Move
  <2> QED  BY <1>3, <2>1, <2>2 DEF StageInv, TypeOK, services
<1>4. CASE \/ Serve \/ Fork \/ Record \/ Heed \/ Resume \/ Trap \/ AskToStop
           \/ \E s \in Services : End(s) \/ Obey(s)
  <2>1. TypeOK' /\ UNCHANGED stageVars
    BY <1>4, ServicesKeepTypes
  <2> QED  BY <2>1, StageKeeps
<1>5. CASE UNCHANGED vars
  <2>1. StageInv'
    BY <1>5, StageKeeps DEF vars
  <2> QED  BY <1>5, <2>1 DEF StageInv, TypeOK, vars, services, stageVars
<1> QED  BY <1>1, <1>2, <1>3, <1>4, <1>5 DEF Next, Command, Die, Stopped

-----------------------------------------------------------------------------
\* What holds at every moment of the script, for any mounts, commits and services.
THEOREM Invariance ==
  Spec => []IInv
<1>1. IInv /\ [Next]_vars => IInv'
  BY NextIInv
<1> QED  BY <1>1, InitIInv, PTL DEF Spec

\* The variables keep their types, and services run only under a run that is ready: a
\* stopped script (stop_services, and the session that ends with it) leaves none behind.
THEOREM Typed ==
  Spec => []TypeOK
<1>1. IInv => TypeOK
  BY DEF IInv
<1> QED  BY <1>1, Invariance, PTL

\* stage_tree: once a run is past the copying, every copy is whole and of a commit its
\* mount was at while the run looked at it, wherever earlier runs were cut, except where a
\* HEAD came back to the commit of a stamp whose copy was another's or being replaced.
THEOREM StagesAreWhole ==
  Spec => []StagedWhole
<1>1. IInv => StagedWhole
  BY DEF IInv, StageInv, StagedWhole, StagedOK, Staged, Staging
<1> QED  BY <1>1, Invariance, PTL

\* Step 4: the services are started from a finished install of every checkout, each at a
\* commit its mount was at while the run looked at it, with the same exception.
THEOREM InstallsAreWhole ==
  Spec => []InstalledWhole
<1>1. IInv => InstalledWhole
  BY DEF IInv, StageInv
<1> QED  BY <1>1, Invariance, PTL
=============================================================================
