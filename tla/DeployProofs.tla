----------------------------- MODULE DeployProofs -----------------------------
(***************************************************************************)
(* The properties of deploy.sh that hold for any number of legs, builds    *)
(* and images.  The heart is that a container, once removed, never comes   *)
(* back: a leg that sees its container run after the health wait knows     *)
(* that it ran all along, unless it was started again, and so, the port    *)
(* being one, that it was the one that answered.                           *)
(*                                                                         *)
(* One lemma for each part of the inductive invariant, with a step for     *)
(* each action; the steps that need an argument are lemmas before it.      *)
(***************************************************************************)
EXTENDS DeployInvariant, TLAPS

\* candidate_token gives every leg a project of the engine.
LEMMA ProjectIsProject ==
  ASSUME TypeOK, NEW p \in Legs
  PROVE  Project(p) \in Projects
BY DeployConstants DEF TypeOK, Project, Projects

\* What a printed line says can be read back.
LEMMA LineFields ==
  /\ \A l, b, i : Line(l, b, i).line = l /\ Line(l, b, i).build = b /\ Line(l, b, i).image = i
  /\ Silent.line = ""
BY DEF Line, Silent

LEMMA LineIsAnswer ==
  ASSUME NEW l \in Lines, NEW b \in Builds \cup {None}, NEW i \in Images \cup {None}
  PROVE  Line(l, b, i) \in Answers
BY DEF Line, Answers

-----------------------------------------------------------------------------
\* Every step keeps the state well formed.
LEMMA TypeKept ==
  ASSUME IInv, [Next]_vars
  PROVE  TypeOK'
<1> USE DEF IInv, TypeOK, Goto, Say, inputs, containers, tags
<1>1. ASSUME NEW p \in Legs, NEW m \in Modes, Start(p, m) PROVE TypeOK'
  <2>1. FirstStep(m) \in Places BY DEF FirstStep, Places
  <2> QED BY <1>1, <2>1 DEF Start
<1>2. ASSUME NEW p \in Legs, Snapshot(p) PROVE TypeOK'
  BY <1>2 DEF Snapshot, Places
<1>3. ASSUME NEW p \in Legs, BuildImage(p) PROVE TypeOK'
  BY <1>3 DEF BuildImage, Places
<1>4. ASSUME NEW p \in Legs, Name(p) PROVE TypeOK'
  BY <1>4 DEF Name, Places
<1>5. ASSUME NEW p \in Legs, Retag(p) PROVE TypeOK'
  BY <1>5 DEF Retag, Places
<1>6. ASSUME NEW p \in Legs, UpLive(p) PROVE TypeOK'
  <2>1. appTag \in Images BY <1>6 DEF UpLive, TaggedOK
  <2>2. Started(p, live, appTag) \in Containers BY <2>1 DEF Started, Containers
  <2> QED BY <1>6, <2>2 DEF UpLive, Places
<1>7. ASSUME NEW p \in Legs, UpCandidate(p) PROVE TypeOK'
  <2> DEFINE x == Project(p)
  <2>1. x \in Projects BY ProjectIsProject
  <2>2. candTag[x] \in Images BY <1>7, <2>1 DEF UpCandidate, TaggedOK
  <2>3. Started(p, cand[x], candTag[x]) \in Containers BY <2>1, <2>2 DEF Started, Containers
  <2>4. cand[x] \in Containers \cup {None}
    BY <2>1
  <2>5. /\ cand' = [cand EXCEPT ![x] = Started(p, cand[x], candTag[x])]
        /\ exited' \subseteq exited /\ restarted' \subseteq restarted \cup ({cand[x]} \ {None})
        /\ Goto(p, "observe")
        /\ UNCHANGED <<tags, live, inputs, cid, todo, said, answered>>
    BY <1>7 DEF UpCandidate, x
  <2> HIDE DEF x
  <2> QED BY <2>1, <2>3, <2>4, <2>5 DEF Places
<1>8. ASSUME NEW p \in Legs, Health(p) PROVE TypeOK'
  BY <1>8 DEF Health, Places
<1>9. ASSUME NEW p \in Legs, Observe(p) PROVE TypeOK'
  BY <1>9, ProjectIsProject DEF Observe, Places
<1>10. ASSUME NEW p \in Legs, Again(p) PROVE TypeOK'
  BY <1>10 DEF Again, Places
<1>11. ASSUME NEW p \in Legs, Pin(p) PROVE TypeOK'
  <2>1. cid[p].image \in Images BY <1>11 DEF Pin, ChecksOK, Containers
  <2> QED BY <1>11, <2>1 DEF Pin, Places
<1>12. ASSUME NEW p \in Legs, PrintArtifact(p) PROVE TypeOK'
  <2>1. cid[p].image \in Images BY <1>12 DEF PrintArtifact, ChecksOK, Containers
  <2>2. Line("CHECKED", build[p], cid[p].image) \in Answers
    BY <2>1, LineIsAnswer DEF Lines
  <2> QED BY <1>12, <2>2 DEF PrintArtifact, Places
<1>13. ASSUME NEW p \in Legs, Report(p) PROVE TypeOK'
  <2>1. live.image \in Images BY <1>13 DEF Report, LiveRuns, Containers
  <2>2. \A l \in {"DEPLOYED", "NOT_DEPLOYED"} : Line(l, build[p], live.image) \in Answers
    BY <2>1, LineIsAnswer DEF Lines
  <2>3. \E a \in Answers : Say(p, a)
    BY <1>13, <2>2 DEF Report
  <2> QED BY <1>13, <2>3 DEF Report, Places
<1>14. ASSUME NEW p \in Legs, Ask(p) PROVE TypeOK'
  <2>1. Line("NONE", None, None) \in Answers BY LineIsAnswer DEF Lines
  <2> QED BY <1>14, <2>1 DEF Ask, Places
<1>15. ASSUME NEW p \in Legs, NameRunning(p) PROVE TypeOK'
  <2>1. cid[p].image \in Images BY <1>15 DEF NameRunning, ChecksOK, Containers
  <2>2. Line("UNIDENTIFIED", None, cid[p].image) \in Answers
    BY <2>1, LineIsAnswer DEF Lines
  <2>3. \A b \in Builds : Line("RUNNING", b, cid[p].image) \in Answers
    BY <2>1, LineIsAnswer DEF Lines
  <2> QED BY <1>15, <2>2, <2>3 DEF NameRunning, Places
<1>16. ASSUME NEW p \in Legs, Find(p) PROVE TypeOK'
  BY <1>16, ProjectIsProject DEF Find, Places
<1>17. ASSUME NEW p \in Legs, TearDown(p) PROVE TypeOK'
  <2>1. CASE todo[p] = {} /\ Goto(p, "done") /\ UNCHANGED <<cand, todo>>
    BY <1>17, <2>1 DEF TearDown, Places
  <2>2. ASSUME NEW x \in todo[p],
               cand' = [cand EXCEPT ![x] = None],
               todo' = [todo EXCEPT ![p] = @ \ {x}],
               UNCHANGED pc
        PROVE  TypeOK'
    <3>1. x \in Projects /\ todo[p] \ {x} \in SUBSET Projects
      OBVIOUS
    <3>2. cand' \in [Projects -> Containers \cup {None}]
      BY <2>2, <3>1
    <3>3. todo' \in [Legs -> SUBSET Projects]
      BY <2>2, <3>1
    <3> QED
      BY <1>17, <2>2, <3>2, <3>3 DEF TearDown
  <2> QED BY <1>17, <2>1, <2>2 DEF TearDown
<1>18. ASSUME NEW p \in Legs, Die(p) PROVE TypeOK'
  BY <1>18 DEF Die, Places
<1>19. CASE UNCHANGED vars
  BY <1>19 DEF vars
<1>20. ASSUME NEW p \in Legs, RemoveLive(p) PROVE TypeOK'
  BY <1>20 DEF RemoveLive
<1>21. ASSUME NEW p \in Legs, RemoveCandidate(p) PROVE TypeOK'
  BY <1>21 DEF RemoveCandidate
<1>22. ASSUME Exit PROVE TypeOK'
  BY <1>22 DEF Exit
<1> QED
  BY <1>1, <1>2, <1>3, <1>4, <1>5, <1>6, <1>7, <1>8, <1>9, <1>10, <1>11, <1>12,
     <1>13, <1>14, <1>15, <1>16, <1>17, <1>18, <1>19, <1>20, <1>21, <1>22 DEF Next, Step, Finished

\* Each mode goes through its own commands.
LEMMA RoutesOKKept ==
  ASSUME IInv, [Next]_vars
  PROVE  RoutesOK'
<1> USE DEF IInv, TypeOK, RoutesOK, Travellers, LiveModes, Goto, Say, inputs, containers, tags
<1>1. ASSUME NEW p \in Legs, NEW m \in Modes, Start(p, m) PROVE RoutesOK'
  BY <1>1 DEF Start, FirstStep, Modes
<1>2. ASSUME NEW p \in Legs, Snapshot(p) PROVE RoutesOK'
  BY <1>2 DEF Snapshot
<1>3. ASSUME NEW p \in Legs, BuildImage(p) PROVE RoutesOK'
  BY <1>3 DEF BuildImage
<1>4. ASSUME NEW p \in Legs, Name(p) PROVE RoutesOK'
  BY <1>4 DEF Name
<1>5. ASSUME NEW p \in Legs, Retag(p) PROVE RoutesOK'
  BY <1>5 DEF Retag
<1>6. ASSUME NEW p \in Legs, UpLive(p) PROVE RoutesOK'
  BY <1>6 DEF UpLive
<1>7. ASSUME NEW p \in Legs, UpCandidate(p) PROVE RoutesOK'
  BY <1>7 DEF UpCandidate
<1>8. ASSUME NEW p \in Legs, Health(p) PROVE RoutesOK'
  BY <1>8 DEF Health
<1>9. ASSUME NEW p \in Legs, Observe(p) PROVE RoutesOK'
  BY <1>9 DEF Observe
<1>10. ASSUME NEW p \in Legs, Again(p) PROVE RoutesOK'
  BY <1>10 DEF Again
<1>11. ASSUME NEW p \in Legs, Pin(p) PROVE RoutesOK'
  BY <1>11 DEF Pin
<1>12. ASSUME NEW p \in Legs, PrintArtifact(p) PROVE RoutesOK'
  BY <1>12 DEF PrintArtifact
<1>13. ASSUME NEW p \in Legs, Report(p) PROVE RoutesOK'
  BY <1>13 DEF Report
<1>14. ASSUME NEW p \in Legs, Ask(p) PROVE RoutesOK'
  BY <1>14 DEF Ask
<1>15. ASSUME NEW p \in Legs, NameRunning(p) PROVE RoutesOK'
  BY <1>15 DEF NameRunning
<1>16. ASSUME NEW p \in Legs, Find(p) PROVE RoutesOK'
  BY <1>16 DEF Find
<1>17. ASSUME NEW p \in Legs, TearDown(p) PROVE RoutesOK'
  BY <1>17 DEF TearDown
<1>18. ASSUME NEW p \in Legs, Die(p) PROVE RoutesOK'
  BY <1>18 DEF Die
<1>19. CASE UNCHANGED vars
  BY <1>19 DEF vars
<1>20. ASSUME NEW p \in Legs, RemoveLive(p) PROVE RoutesOK'
  BY <1>20 DEF RemoveLive
<1>21. ASSUME NEW p \in Legs, RemoveCandidate(p) PROVE RoutesOK'
  BY <1>21 DEF RemoveCandidate
<1>22. ASSUME Exit PROVE RoutesOK'
  BY <1>22 DEF Exit
<1> QED
  BY <1>1, <1>2, <1>3, <1>4, <1>5, <1>6, <1>7, <1>8, <1>9, <1>10, <1>11, <1>12, <1>13,
     <1>14, <1>15, <1>16, <1>17, <1>18, <1>19, <1>20, <1>21, <1>22 DEF Next, Step, Finished

\* What a leg was started with stays.
LEMMA InputsOKKept ==
  ASSUME IInv, [Next]_vars
  PROVE  InputsOK'
<1> USE DEF IInv, TypeOK, RoutesOK, Travellers, LiveModes, InputsOK, Goto, Say, inputs, containers, tags
<1>1. ASSUME NEW p \in Legs, NEW m \in Modes, Start(p, m) PROVE InputsOK'
  BY <1>1 DEF Start, FirstStep, Modes
<1>2. ASSUME NEW p \in Legs, Snapshot(p) PROVE InputsOK'
  BY <1>2 DEF Snapshot
<1>3. ASSUME NEW p \in Legs, BuildImage(p) PROVE InputsOK'
  BY <1>3 DEF BuildImage
<1>4. ASSUME NEW p \in Legs, Name(p) PROVE InputsOK'
  BY <1>4 DEF Name
<1>5. ASSUME NEW p \in Legs, Retag(p) PROVE InputsOK'
  BY <1>5 DEF Retag
<1>6. ASSUME NEW p \in Legs, UpLive(p) PROVE InputsOK'
  BY <1>6 DEF UpLive
<1>7. ASSUME NEW p \in Legs, UpCandidate(p) PROVE InputsOK'
  BY <1>7 DEF UpCandidate
<1>8. ASSUME NEW p \in Legs, Health(p) PROVE InputsOK'
  BY <1>8 DEF Health
<1>9. ASSUME NEW p \in Legs, Observe(p) PROVE InputsOK'
  BY <1>9 DEF Observe
<1>10. ASSUME NEW p \in Legs, Again(p) PROVE InputsOK'
  BY <1>10 DEF Again
<1>11. ASSUME NEW p \in Legs, Pin(p) PROVE InputsOK'
  BY <1>11 DEF Pin
<1>12. ASSUME NEW p \in Legs, PrintArtifact(p) PROVE InputsOK'
  BY <1>12 DEF PrintArtifact
<1>13. ASSUME NEW p \in Legs, Report(p) PROVE InputsOK'
  BY <1>13 DEF Report
<1>14. ASSUME NEW p \in Legs, Ask(p) PROVE InputsOK'
  BY <1>14 DEF Ask
<1>15. ASSUME NEW p \in Legs, NameRunning(p) PROVE InputsOK'
  BY <1>15 DEF NameRunning
<1>16. ASSUME NEW p \in Legs, Find(p) PROVE InputsOK'
  BY <1>16 DEF Find
<1>17. ASSUME NEW p \in Legs, TearDown(p) PROVE InputsOK'
  BY <1>17 DEF TearDown
<1>18. ASSUME NEW p \in Legs, Die(p) PROVE InputsOK'
  BY <1>18 DEF Die
<1>19. CASE UNCHANGED vars
  BY <1>19 DEF vars
<1>20. ASSUME NEW p \in Legs, RemoveLive(p) PROVE InputsOK'
  BY <1>20 DEF RemoveLive
<1>21. ASSUME NEW p \in Legs, RemoveCandidate(p) PROVE InputsOK'
  BY <1>21 DEF RemoveCandidate
<1>22. ASSUME Exit PROVE InputsOK'
  BY <1>22 DEF Exit
<1> QED
  BY <1>1, <1>2, <1>3, <1>4, <1>5, <1>6, <1>7, <1>8, <1>9, <1>10, <1>11, <1>12, <1>13,
     <1>14, <1>15, <1>16, <1>17, <1>18, <1>19, <1>20, <1>21, <1>22 DEF Next, Step, Finished

\* A build leaves a tag on what was built.
LEMMA BuildImageKeepsTagged ==
  ASSUME IInv, NEW p \in Legs, BuildImage(p)
  PROVE  TaggedOK'
BY ProjectIsProject, DeployConstants
   DEF BuildImage, IInv, TypeOK, RoutesOK, Travellers, LiveModes, TaggedOK, Project,
       Goto, inputs, containers, tags

\* What a leg comes up on has been tagged.
LEMMA TaggedOKKept ==
  ASSUME IInv, [Next]_vars
  PROVE  TaggedOK'
<1>1. ASSUME NEW p \in Legs, BuildImage(p) PROVE TaggedOK'
  BY <1>1, BuildImageKeepsTagged
<1> USE DEF IInv, TypeOK, RoutesOK, Travellers, LiveModes, TaggedOK, Project, Goto, Say, inputs, containers, tags
<1>2. ASSUME NEW p \in Legs, NEW m \in Modes, Start(p, m) PROVE TaggedOK'
  BY <1>2 DEF Start, FirstStep, Modes
<1>3. ASSUME NEW p \in Legs, Snapshot(p) PROVE TaggedOK'
  BY <1>3 DEF Snapshot
<1>4. ASSUME NEW p \in Legs, Name(p) PROVE TaggedOK'
  BY <1>4 DEF Name
<1>5. ASSUME NEW p \in Legs, Retag(p) PROVE TaggedOK'
  BY <1>5 DEF Retag
<1>6. ASSUME NEW p \in Legs, UpLive(p) PROVE TaggedOK'
  BY <1>6 DEF UpLive
<1>7. ASSUME NEW p \in Legs, UpCandidate(p) PROVE TaggedOK'
  BY <1>7 DEF UpCandidate
<1>8. ASSUME NEW p \in Legs, Health(p) PROVE TaggedOK'
  BY <1>8 DEF Health
<1>9. ASSUME NEW p \in Legs, Observe(p) PROVE TaggedOK'
  BY <1>9 DEF Observe
<1>10. ASSUME NEW p \in Legs, Again(p) PROVE TaggedOK'
  BY <1>10 DEF Again
<1>11. ASSUME NEW p \in Legs, Pin(p) PROVE TaggedOK'
  BY <1>11 DEF Pin
<1>12. ASSUME NEW p \in Legs, PrintArtifact(p) PROVE TaggedOK'
  BY <1>12 DEF PrintArtifact
<1>13. ASSUME NEW p \in Legs, Report(p) PROVE TaggedOK'
  BY <1>13 DEF Report
<1>14. ASSUME NEW p \in Legs, Ask(p) PROVE TaggedOK'
  BY <1>14 DEF Ask
<1>15. ASSUME NEW p \in Legs, NameRunning(p) PROVE TaggedOK'
  BY <1>15 DEF NameRunning
<1>16. ASSUME NEW p \in Legs, Find(p) PROVE TaggedOK'
  BY <1>16 DEF Find
<1>17. ASSUME NEW p \in Legs, TearDown(p) PROVE TaggedOK'
  BY <1>17 DEF TearDown
<1>18. ASSUME NEW p \in Legs, Die(p) PROVE TaggedOK'
  BY <1>18 DEF Die
<1>19. CASE UNCHANGED vars
  BY <1>19 DEF vars
<1>20. ASSUME NEW p \in Legs, RemoveLive(p) PROVE TaggedOK'
  BY <1>20 DEF RemoveLive
<1>21. ASSUME NEW p \in Legs, RemoveCandidate(p) PROVE TaggedOK'
  BY <1>21 DEF RemoveCandidate
<1>22. ASSUME Exit PROVE TaggedOK'
  BY <1>22 DEF Exit
<1> QED
  BY <1>1, <1>2, <1>3, <1>4, <1>5, <1>6, <1>7, <1>8, <1>9, <1>10, <1>11, <1>12, <1>13,
     <1>14, <1>15, <1>16, <1>17, <1>18, <1>19, <1>20, <1>21, <1>22 DEF Next, Step, Finished

\* Two candidates are never up together.
LEMMA OneUpKept ==
  ASSUME IInv, [Next]_vars
  PROVE  OneUp'
<1> USE DEF IInv, OneUp, Runs, Project, TypeOK, Goto, Say, inputs, containers, tags
<1>1. ASSUME NEW p \in Legs, NEW m \in Modes, Start(p, m) PROVE OneUp'
  BY <1>1 DEF Start, FirstStep, Modes
<1>2. ASSUME NEW p \in Legs, Snapshot(p) PROVE OneUp'
  BY <1>2 DEF Snapshot
<1>3. ASSUME NEW p \in Legs, BuildImage(p) PROVE OneUp'
  BY <1>3 DEF BuildImage
<1>4. ASSUME NEW p \in Legs, Name(p) PROVE OneUp'
  BY <1>4 DEF Name
<1>5. ASSUME NEW p \in Legs, Retag(p) PROVE OneUp'
  BY <1>5 DEF Retag
<1>6. ASSUME NEW p \in Legs, UpLive(p) PROVE OneUp'
  BY <1>6, DeployConstants DEF UpLive, LiveProject, Projects
<1>7. ASSUME NEW p \in Legs, UpCandidate(p) PROVE OneUp'
  BY <1>7 DEF UpCandidate
<1>8. ASSUME NEW p \in Legs, Health(p) PROVE OneUp'
  BY <1>8 DEF Health
<1>9. ASSUME NEW p \in Legs, Observe(p) PROVE OneUp'
  BY <1>9 DEF Observe
<1>10. ASSUME NEW p \in Legs, Again(p) PROVE OneUp'
  BY <1>10 DEF Again
<1>11. ASSUME NEW p \in Legs, Pin(p) PROVE OneUp'
  BY <1>11 DEF Pin
<1>12. ASSUME NEW p \in Legs, PrintArtifact(p) PROVE OneUp'
  BY <1>12 DEF PrintArtifact
<1>13. ASSUME NEW p \in Legs, Report(p) PROVE OneUp'
  BY <1>13 DEF Report
<1>14. ASSUME NEW p \in Legs, Ask(p) PROVE OneUp'
  BY <1>14 DEF Ask
<1>15. ASSUME NEW p \in Legs, NameRunning(p) PROVE OneUp'
  BY <1>15 DEF NameRunning
<1>16. ASSUME NEW p \in Legs, Find(p) PROVE OneUp'
  BY <1>16 DEF Find
<1>17. ASSUME NEW p \in Legs, TearDown(p) PROVE OneUp'
  BY <1>17 DEF TearDown
<1>18. ASSUME NEW p \in Legs, Die(p) PROVE OneUp'
  BY <1>18 DEF Die
<1>19. CASE UNCHANGED vars
  BY <1>19 DEF vars
<1>20. ASSUME NEW p \in Legs, RemoveLive(p) PROVE OneUp'
  BY <1>20, DeployConstants DEF RemoveLive, LiveProject, Projects
<1>21. ASSUME NEW p \in Legs, RemoveCandidate(p) PROVE OneUp'
  BY <1>21 DEF RemoveCandidate
<1>22. ASSUME Exit PROVE OneUp'
  BY <1>22 DEF Exit
<1> QED
  BY <1>1, <1>2, <1>3, <1>4, <1>5, <1>6, <1>7, <1>8, <1>9, <1>10, <1>11, <1>12, <1>13,
     <1>14, <1>15, <1>16, <1>17, <1>18, <1>19, <1>20, <1>21, <1>22 DEF Next, Step, Finished

\* A teardown by name keeps to its project.
LEMMA TodoOKKept ==
  ASSUME IInv, [Next]_vars
  PROVE  TodoOK'
<1> USE DEF IInv, TypeOK, RoutesOK, TodoOK, InputsOK, Project, Goto, Say, inputs, containers, tags
<1>1. ASSUME NEW p \in Legs, NEW m \in Modes, Start(p, m) PROVE TodoOK'
  BY <1>1 DEF Start, FirstStep, Modes
<1>2. ASSUME NEW p \in Legs, Snapshot(p) PROVE TodoOK'
  BY <1>2 DEF Snapshot
<1>3. ASSUME NEW p \in Legs, BuildImage(p) PROVE TodoOK'
  BY <1>3 DEF BuildImage
<1>4. ASSUME NEW p \in Legs, Name(p) PROVE TodoOK'
  BY <1>4 DEF Name
<1>5. ASSUME NEW p \in Legs, Retag(p) PROVE TodoOK'
  BY <1>5 DEF Retag
<1>6. ASSUME NEW p \in Legs, UpLive(p) PROVE TodoOK'
  BY <1>6 DEF UpLive
<1>7. ASSUME NEW p \in Legs, UpCandidate(p) PROVE TodoOK'
  BY <1>7 DEF UpCandidate
<1>8. ASSUME NEW p \in Legs, Health(p) PROVE TodoOK'
  BY <1>8 DEF Health
<1>9. ASSUME NEW p \in Legs, Observe(p) PROVE TodoOK'
  BY <1>9 DEF Observe
<1>10. ASSUME NEW p \in Legs, Again(p) PROVE TodoOK'
  BY <1>10 DEF Again
<1>11. ASSUME NEW p \in Legs, Pin(p) PROVE TodoOK'
  BY <1>11 DEF Pin
<1>12. ASSUME NEW p \in Legs, PrintArtifact(p) PROVE TodoOK'
  BY <1>12 DEF PrintArtifact
<1>13. ASSUME NEW p \in Legs, Report(p) PROVE TodoOK'
  BY <1>13 DEF Report
<1>14. ASSUME NEW p \in Legs, Ask(p) PROVE TodoOK'
  BY <1>14 DEF Ask
<1>15. ASSUME NEW p \in Legs, NameRunning(p) PROVE TodoOK'
  BY <1>15 DEF NameRunning
<1>16. ASSUME NEW p \in Legs, Find(p) PROVE TodoOK'
  BY <1>16 DEF Find
<1>17. ASSUME NEW p \in Legs, TearDown(p) PROVE TodoOK'
  BY <1>17 DEF TearDown
<1>18. ASSUME NEW p \in Legs, Die(p) PROVE TodoOK'
  BY <1>18 DEF Die
<1>19. CASE UNCHANGED vars
  BY <1>19 DEF vars
<1>20. ASSUME NEW p \in Legs, RemoveLive(p) PROVE TodoOK'
  BY <1>20 DEF RemoveLive
<1>21. ASSUME NEW p \in Legs, RemoveCandidate(p) PROVE TodoOK'
  BY <1>21 DEF RemoveCandidate
<1>22. ASSUME Exit PROVE TodoOK'
  BY <1>22 DEF Exit
<1> QED
  BY <1>1, <1>2, <1>3, <1>4, <1>5, <1>6, <1>7, <1>8, <1>9, <1>10, <1>11, <1>12, <1>13,
     <1>14, <1>15, <1>16, <1>17, <1>18, <1>19, <1>20, <1>21, <1>22 DEF Next, Step, Finished

\* Coming up leaves a container.
LEMMA UpLiveKeepsUp ==
  ASSUME IInv, NEW p \in Legs, UpLive(p)
  PROVE  StaysUp'
<1>1. appTag \in Images
  BY DEF UpLive, TaggedOK, IInv, TypeOK
<1>2. Started(p, live, appTag) \in Containers
  BY <1>1 DEF Started, Containers, IInv, TypeOK
<1> QED
  BY <1>2, DeployConstants DEF UpLive, StaysUp

\* A leg that dies while it replaces the live container is torn.
LEMMA DieKeepsUp ==
  ASSUME IInv, NEW p \in Legs, Die(p)
  PROVE  StaysUp'
<1>1. /\ \A q \in Legs \ {p} : pc'[q] = pc[q]
      /\ pc'[p] \in {"torn", "failed"}
      /\ pc[p] = "up" /\ mode[p] \in LiveModes => pc'[p] = "torn"
      /\ pc[p] # "torn" /\ mode' = mode /\ live' = live
  BY DEF Die, Running, Goto, IInv, TypeOK, inputs, containers
<1>2. Replacing => Replacing'
  BY <1>1 DEF Replacing
<1>3. NeverUp => NeverUp'
  BY <1>1 DEF NeverUp, CameUp
<1> QED BY <1>1, <1>2, <1>3 DEF IInv, StaysUp

\* Nothing but a live leg leaves the live project without a container.
LEMMA StaysUpKept ==
  ASSUME IInv, [Next]_vars
  PROVE  StaysUp'
<1>1. ASSUME NEW p \in Legs, UpLive(p) PROVE StaysUp'
  BY <1>1, UpLiveKeepsUp
<1> USE DEF IInv, TypeOK, StaysUp, NeverUp, Replacing, CameUp, LiveModes, RoutesOK, Travellers, Goto, Say, inputs, containers, tags
<1>2. ASSUME NEW p \in Legs, NEW m \in Modes, Start(p, m) PROVE StaysUp'
  BY <1>2 DEF Start, FirstStep, Modes
<1>3. ASSUME NEW p \in Legs, Snapshot(p) PROVE StaysUp'
  BY <1>3 DEF Snapshot
<1>4. ASSUME NEW p \in Legs, BuildImage(p) PROVE StaysUp'
  BY <1>4 DEF BuildImage
<1>5. ASSUME NEW p \in Legs, Name(p) PROVE StaysUp'
  BY <1>5 DEF Name
<1>6. ASSUME NEW p \in Legs, Retag(p) PROVE StaysUp'
  BY <1>6 DEF Retag
<1>7. ASSUME NEW p \in Legs, UpCandidate(p) PROVE StaysUp'
  BY <1>7 DEF UpCandidate
<1>8. ASSUME NEW p \in Legs, Health(p) PROVE StaysUp'
  BY <1>8 DEF Health
<1>9. ASSUME NEW p \in Legs, Observe(p) PROVE StaysUp'
  BY <1>9 DEF Observe
<1>10. ASSUME NEW p \in Legs, Again(p) PROVE StaysUp'
  BY <1>10 DEF Again
<1>11. ASSUME NEW p \in Legs, Pin(p) PROVE StaysUp'
  BY <1>11 DEF Pin
<1>12. ASSUME NEW p \in Legs, PrintArtifact(p) PROVE StaysUp'
  BY <1>12 DEF PrintArtifact
<1>13. ASSUME NEW p \in Legs, Report(p) PROVE StaysUp'
  BY <1>13 DEF Report
<1>14. ASSUME NEW p \in Legs, Ask(p) PROVE StaysUp'
  BY <1>14 DEF Ask
<1>15. ASSUME NEW p \in Legs, NameRunning(p) PROVE StaysUp'
  BY <1>15 DEF NameRunning
<1>16. ASSUME NEW p \in Legs, Find(p) PROVE StaysUp'
  BY <1>16 DEF Find
<1>17. ASSUME NEW p \in Legs, TearDown(p) PROVE StaysUp'
  BY <1>17 DEF TearDown
<1>18. ASSUME NEW p \in Legs, Die(p) PROVE StaysUp'
  BY <1>18, DieKeepsUp
<1>19. CASE UNCHANGED vars
  BY <1>19 DEF vars
<1>20. ASSUME NEW p \in Legs, RemoveLive(p) PROVE StaysUp'
  BY <1>20 DEF RemoveLive
<1>21. ASSUME NEW p \in Legs, RemoveCandidate(p) PROVE StaysUp'
  BY <1>21 DEF RemoveCandidate
<1>22. ASSUME Exit PROVE StaysUp'
  BY <1>22 DEF Exit
<1> QED
  BY <1>1, <1>2, <1>3, <1>4, <1>5, <1>6, <1>7, <1>8, <1>9, <1>10, <1>11, <1>12, <1>13,
     <1>14, <1>15, <1>16, <1>17, <1>18, <1>19, <1>20, <1>21, <1>22 DEF Next, Step, Finished

\* A live leg that dies between the tag and coming up is torn.
LEMMA DieKeepsLive ==
  ASSUME IInv, NEW p \in Legs, Die(p)
  PROVE  LiveFollowsTag'
BY DEF Die, IInv, TypeOK, LiveFollowsTag, Replacing, Running, Goto, inputs, containers, tags

\* Tag and live container part only around a live leg.
LEMMA LiveFollowsTagKept ==
  ASSUME IInv, [Next]_vars
  PROVE  LiveFollowsTag'
<1>1. ASSUME NEW p \in Legs, Die(p) PROVE LiveFollowsTag'
  BY <1>1, DieKeepsLive
<1> USE DEF IInv, TypeOK, LiveFollowsTag, Replacing, LiveModes, RoutesOK, Travellers, Outdated, Started, Goto, Say, inputs, containers, tags
<1>2. ASSUME NEW p \in Legs, NEW m \in Modes, Start(p, m) PROVE LiveFollowsTag'
  BY <1>2 DEF Start, FirstStep, Modes
<1>3. ASSUME NEW p \in Legs, Snapshot(p) PROVE LiveFollowsTag'
  BY <1>3 DEF Snapshot
<1>4. ASSUME NEW p \in Legs, BuildImage(p) PROVE LiveFollowsTag'
  BY <1>4 DEF BuildImage
<1>5. ASSUME NEW p \in Legs, Name(p) PROVE LiveFollowsTag'
  BY <1>5 DEF Name
<1>6. ASSUME NEW p \in Legs, Retag(p) PROVE LiveFollowsTag'
  BY <1>6 DEF Retag
<1>7. ASSUME NEW p \in Legs, UpLive(p) PROVE LiveFollowsTag'
  BY <1>7 DEF UpLive
<1>8. ASSUME NEW p \in Legs, UpCandidate(p) PROVE LiveFollowsTag'
  BY <1>8 DEF UpCandidate
<1>9. ASSUME NEW p \in Legs, Health(p) PROVE LiveFollowsTag'
  BY <1>9 DEF Health
<1>10. ASSUME NEW p \in Legs, Observe(p) PROVE LiveFollowsTag'
  BY <1>10 DEF Observe
<1>11. ASSUME NEW p \in Legs, Again(p) PROVE LiveFollowsTag'
  BY <1>11 DEF Again
<1>12. ASSUME NEW p \in Legs, Pin(p) PROVE LiveFollowsTag'
  BY <1>12 DEF Pin
<1>13. ASSUME NEW p \in Legs, PrintArtifact(p) PROVE LiveFollowsTag'
  BY <1>13 DEF PrintArtifact
<1>14. ASSUME NEW p \in Legs, Report(p) PROVE LiveFollowsTag'
  BY <1>14 DEF Report
<1>15. ASSUME NEW p \in Legs, Ask(p) PROVE LiveFollowsTag'
  BY <1>15 DEF Ask
<1>16. ASSUME NEW p \in Legs, NameRunning(p) PROVE LiveFollowsTag'
  BY <1>16 DEF NameRunning
<1>17. ASSUME NEW p \in Legs, Find(p) PROVE LiveFollowsTag'
  BY <1>17 DEF Find
<1>18. ASSUME NEW p \in Legs, TearDown(p) PROVE LiveFollowsTag'
  BY <1>18 DEF TearDown
<1>19. CASE UNCHANGED vars
  BY <1>19 DEF vars
<1>20. ASSUME NEW p \in Legs, RemoveLive(p) PROVE LiveFollowsTag'
  BY <1>20 DEF RemoveLive
<1>21. ASSUME NEW p \in Legs, RemoveCandidate(p) PROVE LiveFollowsTag'
  BY <1>21 DEF RemoveCandidate
<1>22. ASSUME Exit PROVE LiveFollowsTag'
  BY <1>22 DEF Exit
<1> QED
  BY <1>1, <1>2, <1>3, <1>4, <1>5, <1>6, <1>7, <1>8, <1>9, <1>10, <1>11, <1>12, <1>13,
     <1>14, <1>15, <1>16, <1>17, <1>18, <1>19, <1>20, <1>21, <1>22 DEF Next, Step, Finished

\* A teardown makes a candidate disappear; none takes its place.
LEMMA TearDownKeepsChecks ==
  ASSUME IInv, NEW p \in Legs, TearDown(p)
  PROVE  ChecksOK'
<1>0. pc[p] = "remove" /\ UNCHANGED <<inputs, cid, answered>>
  BY DEF TearDown, inputs
<1>1. /\ pc[p] = "remove" /\ mode[p] # "candidate"
      /\ mode' = mode /\ cid' = cid /\ answered' = answered
      /\ \A q \in Legs : Project(q)' = Project(q)
  BY <1>0 DEF IInv, RoutesOK, Travellers, Project, inputs
<1>4. pc' = pc \/ pc' = [pc EXCEPT ![p] = "done"]
  BY DEF TearDown, Goto
<1>5. pc'[p] \in {"remove", "done"} /\ \A q \in Legs \ {p} : pc'[q] = pc[q]
  BY <1>1, <1>4 DEF IInv, TypeOK
<1>2. \A y \in Projects : cand'[y] \in {cand[y], None}
  BY DEF TearDown, IInv, TypeOK
<1>3. \A q \in Legs : Project(q) \in Projects
  BY ProjectIsProject DEF IInv
<1>6. \A q \in Legs : Runs(Project(q))' /\ cand'[Project(q)] = cid[q]
         => Runs(Project(q)) /\ cand[Project(q)] = cid[q]
  <2>1. \A y \in Projects : cand'[y] # None => y \in exited' \/ y \notin exited
    BY DEF TearDown, IInv, TypeOK
  <2> QED BY <1>1, <1>2, <1>3, <2>1 DEF Runs
<1>7. restarted' = restarted
  BY DEF TearDown
<1> QED BY <1>1, <1>5, <1>6, <1>7 DEF IInv, ChecksOK, Early, Answered

\* Coming up on the live project is no business of a check.
LEMMA UpLiveKeepsChecks ==
  ASSUME IInv, NEW p \in Legs, UpLive(p)
  PROVE  ChecksOK'
<1>1. mode[p] # "candidate" /\ pc'[p] = "health" /\ \A q \in Legs \ {p} : pc'[q] = pc[q]
  BY DEF UpLive, LiveModes, Goto, IInv, TypeOK
<1>2. exited' \cap Projects = exited \cap Projects
  BY DeployConstants DEF UpLive, LiveProject, Projects
<1>3. \A q \in Legs : Project(q) \in Projects
  BY ProjectIsProject DEF IInv
<1>4. \A q \in Legs : Runs(Project(q))' => Runs(Project(q))
  BY <1>2, <1>3 DEF UpLive, Runs, Project, inputs
<1> QED BY <1>1, <1>4 DEF UpLive, IInv, ChecksOK, Early, Answered, Project, inputs

\* The container that answered is the one the check saw, if that is still there.
LEMMA HealthKeepsChecks ==
  ASSUME IInv, NEW p \in Legs, Health(p)
  PROVE  ChecksOK'
<1>1. /\ pc[p] = "health"
      /\ \A q \in Legs \ {p} : pc'[q] = pc[q] /\ answered'[q] = answered[q]
      /\ mode' = mode /\ cid' = cid /\ cand' = cand
      /\ exited' = exited /\ restarted' = restarted
      /\ \A q \in Legs : Project(q)' = Project(q)
  BY DEF Health, IInv, TypeOK, Goto, Project, inputs, containers
<1>2. CASE mode[p] # "candidate"
  <2>1. pc'[p] \in {"observe", "done"}
    BY <1>1, <1>2 DEF Health, IInv, TypeOK, Goto
  <2> QED BY <1>1, <1>2, <2>1 DEF IInv, ChecksOK, Early, Answered, Runs
<1>3. CASE mode[p] = "candidate"
  <2>1. pc'[p] = "again"
    BY <1>1, <1>3 DEF Health, IInv, TypeOK, Goto
  <2>2. cid[p] # None /\ Project(p) \in Projects
    BY <1>1, <1>3, ProjectIsProject DEF IInv, ChecksOK
  <2>3. PICK y \in Projects : Runs(y) /\ answered'[p] = cand[y]
    BY <1>3 DEF Health, IInv, TypeOK
  <2>4. Runs(Project(p)) => y = Project(p)
    BY <2>2, <2>3 DEF IInv, OneUp
  <2>5. answered'[p] # None
    BY <2>3 DEF Runs
  <2> QED BY <1>1, <1>3, <2>1, <2>2, <2>3, <2>4, <2>5 DEF IInv, ChecksOK, Early, Answered, Runs
<1> QED BY <1>2, <1>3

\* A container that is created is none of those seen before.
LEMMA UpCandidateKeepsChecks ==
  ASSUME IInv, NEW p \in Legs, UpCandidate(p)
  PROVE  ChecksOK'
<1>1. PICK x \in Projects : x = Project(p) BY ProjectIsProject DEF IInv
<1>2. /\ pc[p] = "up" /\ mode[p] = "candidate" /\ pc'[p] = "observe" /\ answered' = answered
      /\ \A q \in Legs \ {p} : pc'[q] = pc[q]
      /\ mode' = mode /\ cid' = cid
      /\ \A q \in Legs : Project(q)' = Project(q)
      /\ cand' = [cand EXCEPT ![x] = Started(p, cand[x], candTag[x])]
  BY <1>1 DEF UpCandidate, IInv, TypeOK, Goto, Project, inputs, containers
<1>3. \A q \in Legs : mode[q] = "candidate" /\ cid[q] # None => cid[q].by # p
  BY <1>2 DEF IInv, ContainersOK, Belongs, Early
<1>4. \A q \in Legs \ {p} : mode[q] = "candidate" /\ pc[q] = "again" /\ cand'[Project(q)] = cid[q]
         => cand[Project(q)] = cid[q]
  BY <1>2, <1>3, ProjectIsProject DEF Started, IInv, TypeOK, ChecksOK
<1>5. /\ \A y \in Projects \ {x} : y \in exited' <=> y \in exited
      /\ restarted \subseteq restarted'
      /\ cand[x] # None /\ x \in exited => cand[x] \in restarted'
  BY <1>1 DEF UpCandidate
<1>6. ASSUME NEW q \in Legs, mode[q] = "candidate", pc[q] = "again", q # p,
             cand'[Project(q)] = cid[q], Runs(Project(q))'
      PROVE  Answered(q)'
  <2>1. cand[Project(q)] = cid[q] /\ cid[q] # None /\ Project(q) \in Projects
    BY <1>4, <1>6, ProjectIsProject DEF IInv, ChecksOK
  <2>2. CASE Project(q) \in exited
    <3>1. Project(q) = x
      BY <1>2, <1>5, <1>6, <2>1, <2>2 DEF Runs
    <3> QED BY <1>2, <1>5, <2>1, <2>2, <3>1 DEF Answered
  <2>3. CASE Project(q) \notin exited
    <3>1. Runs(Project(q))
      BY <2>1, <2>3 DEF Runs
    <3> QED BY <1>2, <1>5, <1>6, <2>1, <3>1 DEF IInv, ChecksOK, Answered
  <2> QED BY <2>2, <2>3
<1>7. \A q \in Legs : Answered(q) => Answered(q)'
  BY <1>2, <1>5 DEF Answered
<1> QED BY <1>2, <1>6, <1>7 DEF IInv, ChecksOK, Early

\* A candidate that is removed or exits does not run.
LEMMA RemoveCandidateKeepsChecks ==
  ASSUME IInv, NEW p \in Legs, RemoveCandidate(p)
  PROVE  ChecksOK'
<1>1. PICK x \in Projects : x = Project(p)
  BY ProjectIsProject DEF IInv
<1>2. /\ \A q \in Legs : Project(q)' = Project(q)
      /\ cand' = [cand EXCEPT ![x] = None] /\ exited' = exited \ {x}
      /\ UNCHANGED <<pc, mode, cid, answered, restarted>>
  BY <1>1 DEF RemoveCandidate, Project, inputs
<1>3. \A y \in Projects : Runs(y)' => Runs(y) /\ cand'[y] = cand[y]
  BY <1>2 DEF Runs, IInv, TypeOK
<1>4. \A q \in Legs : Runs(Project(q))' => Runs(Project(q)) /\ cand'[Project(q)] = cand[Project(q)]
  BY <1>2, <1>3, ProjectIsProject DEF IInv
<1> QED BY <1>2, <1>4 DEF IInv, ChecksOK, Early, Answered

LEMMA ExitKeepsChecks ==
  ASSUME IInv, Exit
  PROVE  ChecksOK'
<1>1. /\ \A q \in Legs : Project(q)' = Project(q)
      /\ UNCHANGED <<pc, mode, cid, answered, restarted, cand>>
      /\ exited \subseteq exited'
  BY DEF Exit, Project, inputs
<1>2. \A q \in Legs : Runs(Project(q))' => Runs(Project(q))
  BY <1>1 DEF Runs
<1> QED BY <1>1, <1>2 DEF IInv, ChecksOK, Early, Answered

\* The live container is no candidate.
LEMMA RemoveLiveKeepsChecks ==
  ASSUME IInv, NEW p \in Legs, RemoveLive(p)
  PROVE  ChecksOK'
<1>1. /\ \A q \in Legs : Project(q)' = Project(q)
      /\ UNCHANGED <<pc, mode, cid, answered, restarted, cand>>
  BY DEF RemoveLive, Project, inputs
<1>2. exited' \cap Projects = exited \cap Projects
  BY DeployConstants DEF RemoveLive, LiveProject, Projects
<1>3. \A q \in Legs : Project(q) \in Projects
  BY ProjectIsProject DEF IInv
<1>4. \A q \in Legs : Runs(Project(q))' => Runs(Project(q))
  BY <1>1, <1>2, <1>3 DEF Runs
<1> QED BY <1>1, <1>4 DEF IInv, ChecksOK, Early, Answered

\* What a check knows at each command.
LEMMA ChecksOKKept ==
  ASSUME IInv, [Next]_vars
  PROVE  ChecksOK'
<1>1. ASSUME NEW p \in Legs, UpLive(p) PROVE ChecksOK'
  BY <1>1, UpLiveKeepsChecks
<1>2. ASSUME NEW p \in Legs, UpCandidate(p) PROVE ChecksOK'
  BY <1>2, UpCandidateKeepsChecks
<1>3. ASSUME NEW p \in Legs, Health(p) PROVE ChecksOK'
  BY <1>3, HealthKeepsChecks
<1>4. ASSUME NEW p \in Legs, TearDown(p) PROVE ChecksOK'
  BY <1>4, TearDownKeepsChecks
<1> USE DEF IInv, TypeOK, ChecksOK, Answered, Runs, RoutesOK, InputsOK, Travellers, Early, Project, Goto, Say, inputs, containers, tags
<1>5. ASSUME NEW p \in Legs, NEW m \in Modes, Start(p, m) PROVE ChecksOK'
  BY <1>5 DEF Start, FirstStep, Modes
<1>6. ASSUME NEW p \in Legs, Snapshot(p) PROVE ChecksOK'
  BY <1>6 DEF Snapshot
<1>7. ASSUME NEW p \in Legs, BuildImage(p) PROVE ChecksOK'
  BY <1>7 DEF BuildImage
<1>8. ASSUME NEW p \in Legs, Name(p) PROVE ChecksOK'
  BY <1>8 DEF Name
<1>9. ASSUME NEW p \in Legs, Retag(p) PROVE ChecksOK'
  BY <1>9 DEF Retag
<1>10. ASSUME NEW p \in Legs, Observe(p) PROVE ChecksOK'
  BY <1>10 DEF Observe
<1>11. ASSUME NEW p \in Legs, Again(p) PROVE ChecksOK'
  BY <1>11 DEF Again
<1>12. ASSUME NEW p \in Legs, Pin(p) PROVE ChecksOK'
  BY <1>12 DEF Pin
<1>13. ASSUME NEW p \in Legs, PrintArtifact(p) PROVE ChecksOK'
  BY <1>13 DEF PrintArtifact
<1>14. ASSUME NEW p \in Legs, Report(p) PROVE ChecksOK'
  BY <1>14 DEF Report
<1>15. ASSUME NEW p \in Legs, Ask(p) PROVE ChecksOK'
  BY <1>15 DEF Ask, LiveRuns
<1>16. ASSUME NEW p \in Legs, NameRunning(p) PROVE ChecksOK'
  BY <1>16 DEF NameRunning
<1>17. ASSUME NEW p \in Legs, Find(p) PROVE ChecksOK'
  BY <1>17 DEF Find
<1>18. ASSUME NEW p \in Legs, Die(p) PROVE ChecksOK'
  BY <1>18 DEF Die
<1>19. CASE UNCHANGED vars
  BY <1>19 DEF vars
<1>20. ASSUME NEW p \in Legs, RemoveLive(p) PROVE ChecksOK'
  BY <1>20, RemoveLiveKeepsChecks
<1>21. ASSUME NEW p \in Legs, RemoveCandidate(p) PROVE ChecksOK'
  BY <1>21, RemoveCandidateKeepsChecks
<1>22. ASSUME Exit PROVE ChecksOK'
  BY <1>22, ExitKeepsChecks
<1> QED
  BY <1>1, <1>2, <1>3, <1>4, <1>5, <1>6, <1>7, <1>8, <1>9, <1>10, <1>11, <1>12, <1>13,
     <1>14, <1>15, <1>16, <1>17, <1>18, <1>19, <1>20, <1>21, <1>22 DEF Next, Step, Finished

\* A leg that starts has said nothing.
LEMMA StartKeepsSaid ==
  ASSUME IInv, NEW p \in Legs, NEW m \in Modes, Start(p, m)
  PROVE  SaidOK'
<1>1. FirstStep(m) # "done"
  BY DEF FirstStep
<1>2. said[p] = Silent /\ Silent.line # "CHECKED"
  BY LineFields DEF Start, IInv, SaidOK
<1>3. \A q \in Legs \ {p} : pc'[q] = pc[q] /\ mode'[q] = mode[q] /\ build'[q] = build[q]
  BY DEF Start, IInv, TypeOK, Goto
<1>4. pc'[p] # "done" /\ said' = said /\ cid' = cid
  BY <1>1 DEF Start, IInv, TypeOK, Goto
<1> QED
  BY <1>1, <1>2, <1>3, <1>4 DEF IInv, SaidOK

\* A check that looks at its container has said nothing yet.
LEMMA ObserveKeepsSaid ==
  ASSUME IInv, NEW p \in Legs, Observe(p)
  PROVE  SaidOK'
BY LineFields DEF Observe, IInv, TypeOK, SaidOK, Goto, inputs, containers, tags

\* "none" claims no check.
LEMMA AskKeepsSaid ==
  ASSUME IInv, NEW p \in Legs, Ask(p)
  PROVE  SaidOK'
<1>1. Line("NONE", None, None).line # "CHECKED"
  BY LineFields
<1>2. said[p] = Silent /\ Silent.line # "CHECKED"
  BY LineFields DEF Ask, IInv, SaidOK
<1> QED
  BY <1>1, <1>2 DEF Ask, IInv, TypeOK, SaidOK, Goto, Say, inputs

\* Naming what runs claims no check.
LEMMA NameRunningKeepsSaid ==
  ASSUME IInv, NEW p \in Legs, NameRunning(p)
  PROVE  SaidOK'
<1>1. PICK line : Say(p, line) /\ line.line # "CHECKED"
  <2>1. /\ Line("UNIDENTIFIED", None, cid[p].image).line # "CHECKED"
        /\ \A b : Line("RUNNING", b, cid[p].image).line # "CHECKED"
    BY LineFields
  <2>2. \/ Say(p, Line("UNIDENTIFIED", None, cid[p].image))
        \/ \E b \in Builds : Say(p, Line("RUNNING", b, cid[p].image))
    BY DEF NameRunning
  <2> QED BY <2>1, <2>2
<1> QED
  BY <1>1 DEF NameRunning, IInv, TypeOK, SaidOK, Goto, Say, inputs

\* Only a check says what was checked, and it says what it saw.
LEMMA SaidOKKept ==
  ASSUME IInv, [Next]_vars
  PROVE  SaidOK'
<1>1. ASSUME NEW p \in Legs, NEW m \in Modes, Start(p, m) PROVE SaidOK'
  BY <1>1, StartKeepsSaid
<1>2. ASSUME NEW p \in Legs, Observe(p) PROVE SaidOK'
  BY <1>2, ObserveKeepsSaid
<1>3. ASSUME NEW p \in Legs, Ask(p) PROVE SaidOK'
  BY <1>3, AskKeepsSaid
<1>4. ASSUME NEW p \in Legs, NameRunning(p) PROVE SaidOK'
  BY <1>4, NameRunningKeepsSaid
<1> USE DEF IInv, TypeOK, SaidOK, RoutesOK, InputsOK, Travellers, Line, Silent, Running, Goto, Say, inputs, containers, tags
<1>5. ASSUME NEW p \in Legs, Snapshot(p) PROVE SaidOK'
  BY <1>5 DEF Snapshot
<1>6. ASSUME NEW p \in Legs, BuildImage(p) PROVE SaidOK'
  BY <1>6 DEF BuildImage
<1>7. ASSUME NEW p \in Legs, Name(p) PROVE SaidOK'
  BY <1>7 DEF Name
<1>8. ASSUME NEW p \in Legs, Retag(p) PROVE SaidOK'
  BY <1>8 DEF Retag
<1>9. ASSUME NEW p \in Legs, UpLive(p) PROVE SaidOK'
  BY <1>9 DEF UpLive
<1>10. ASSUME NEW p \in Legs, UpCandidate(p) PROVE SaidOK'
  BY <1>10 DEF UpCandidate
<1>11. ASSUME NEW p \in Legs, Health(p) PROVE SaidOK'
  BY <1>11 DEF Health
<1>12. ASSUME NEW p \in Legs, Again(p) PROVE SaidOK'
  BY <1>12 DEF Again
<1>13. ASSUME NEW p \in Legs, Pin(p) PROVE SaidOK'
  BY <1>13 DEF Pin
<1>14. ASSUME NEW p \in Legs, PrintArtifact(p) PROVE SaidOK'
  BY <1>14 DEF PrintArtifact
<1>15. ASSUME NEW p \in Legs, Report(p) PROVE SaidOK'
  BY <1>15 DEF Report
<1>16. ASSUME NEW p \in Legs, Find(p) PROVE SaidOK'
  BY <1>16 DEF Find
<1>17. ASSUME NEW p \in Legs, TearDown(p) PROVE SaidOK'
  BY <1>17 DEF TearDown
<1>18. ASSUME NEW p \in Legs, Die(p) PROVE SaidOK'
  BY <1>18 DEF Die
<1>19. CASE UNCHANGED vars
  BY <1>19 DEF vars
<1>20. ASSUME NEW p \in Legs, RemoveLive(p) PROVE SaidOK'
  BY <1>20 DEF RemoveLive
<1>21. ASSUME NEW p \in Legs, RemoveCandidate(p) PROVE SaidOK'
  BY <1>21 DEF RemoveCandidate
<1>22. ASSUME Exit PROVE SaidOK'
  BY <1>22 DEF Exit
<1> QED
  BY <1>1, <1>2, <1>3, <1>4, <1>5, <1>6, <1>7, <1>8, <1>9, <1>10, <1>11, <1>12, <1>13,
     <1>14, <1>15, <1>16, <1>17, <1>18, <1>19, <1>20, <1>21, <1>22 DEF Next, Step, Finished

\* What a check sees in its project belongs there.
LEMMA ObserveKeepsContainers ==
  ASSUME IInv, NEW p \in Legs, Observe(p)
  PROVE  ContainersOK'
<1>1. Project(p) \in Projects
  BY ProjectIsProject DEF IInv
<1>2. \A q \in Legs : Project(q)' = Project(q) /\ mode'[q] = mode[q] /\ (~Early(q) => ~Early(q)')
  BY DEF Observe, IInv, TypeOK, Project, Early, Goto, inputs
<1>3. \A c, y : Belongs(c, y) => Belongs(c, y)'
  BY <1>2 DEF Belongs
<1>4. cand' = cand /\ cid' = [cid EXCEPT ![p] = cand[Project(p)]]
  BY DEF Observe, containers
<1>5. DOMAIN cid = Legs
  BY DEF IInv, TypeOK
<1> QED
  BY <1>1, <1>2, <1>3, <1>4, <1>5 DEF IInv, ContainersOK

\* What a check brings up belongs to its project.
LEMMA UpCandidateKeepsContainers ==
  ASSUME IInv, NEW p \in Legs, UpCandidate(p)
  PROVE  ContainersOK'
<1>1. PICK x \in Projects : x = Project(p) BY ProjectIsProject DEF IInv
<1>2. PICK new : new = Started(p, cand[x], candTag[x]) OBVIOUS
<1>3. /\ \A q \in Legs : Project(q)' = Project(q) /\ mode'[q] = mode[q] /\ (~Early(q) => ~Early(q)')
      /\ ~Early(p)' /\ mode[p] = "candidate"
  BY  DEF UpCandidate, IInv, TypeOK, Project, Early, Goto, inputs
<1>4. cand' = [cand EXCEPT ![x] = new] /\ cid' = cid
  BY <1>1, <1>2 DEF UpCandidate
<1>5. \A c, y : Belongs(c, y) => Belongs(c, y)'
  BY <1>3 DEF Belongs
<1>6. Belongs(new, x)'
  <2>1. CASE new.by = p
    BY <1>1, <1>3, <2>1 DEF Belongs
  <2>2. CASE new = cand[x]
    BY <1>5, <2>2 DEF IInv, ContainersOK
  <2> QED BY <1>2, <2>1, <2>2 DEF Started
<1> QED BY <1>1, <1>3, <1>4, <1>5, <1>6 DEF IInv, TypeOK, ContainersOK

\* Containers are where they were started.
LEMMA ContainersOKKept ==
  ASSUME IInv, [Next]_vars
  PROVE  ContainersOK'
<1>1. ASSUME NEW p \in Legs, UpCandidate(p) PROVE ContainersOK'
  BY <1>1, UpCandidateKeepsContainers
<1>2. ASSUME NEW p \in Legs, Observe(p) PROVE ContainersOK'
  BY <1>2, ObserveKeepsContainers
<1> USE DEF IInv, TypeOK, ContainersOK, Belongs, RoutesOK, InputsOK, Travellers, Early, Project, Goto, Say, inputs, containers, tags
<1>3. ASSUME NEW p \in Legs, NEW m \in Modes, Start(p, m) PROVE ContainersOK'
  BY <1>3 DEF Start, FirstStep, Modes
<1>4. ASSUME NEW p \in Legs, Snapshot(p) PROVE ContainersOK'
  BY <1>4 DEF Snapshot
<1>5. ASSUME NEW p \in Legs, BuildImage(p) PROVE ContainersOK'
  BY <1>5 DEF BuildImage
<1>6. ASSUME NEW p \in Legs, Name(p) PROVE ContainersOK'
  BY <1>6 DEF Name
<1>7. ASSUME NEW p \in Legs, Retag(p) PROVE ContainersOK'
  BY <1>7 DEF Retag
<1>8. ASSUME NEW p \in Legs, UpLive(p) PROVE ContainersOK'
  BY <1>8 DEF UpLive
<1>9. ASSUME NEW p \in Legs, Health(p) PROVE ContainersOK'
  BY <1>9 DEF Health
<1>10. ASSUME NEW p \in Legs, Again(p) PROVE ContainersOK'
  BY <1>10 DEF Again
<1>11. ASSUME NEW p \in Legs, Pin(p) PROVE ContainersOK'
  BY <1>11 DEF Pin
<1>12. ASSUME NEW p \in Legs, PrintArtifact(p) PROVE ContainersOK'
  BY <1>12 DEF PrintArtifact
<1>13. ASSUME NEW p \in Legs, Report(p) PROVE ContainersOK'
  BY <1>13 DEF Report
<1>14. ASSUME NEW p \in Legs, Ask(p) PROVE ContainersOK'
  BY <1>14 DEF Ask
<1>15. ASSUME NEW p \in Legs, NameRunning(p) PROVE ContainersOK'
  BY <1>15 DEF NameRunning
<1>16. ASSUME NEW p \in Legs, Find(p) PROVE ContainersOK'
  BY <1>16 DEF Find
<1>17. ASSUME NEW p \in Legs, TearDown(p) PROVE ContainersOK'
  BY <1>17 DEF TearDown
<1>18. ASSUME NEW p \in Legs, Die(p) PROVE ContainersOK'
  BY <1>18 DEF Die
<1>19. CASE UNCHANGED vars
  BY <1>19 DEF vars
<1>20. ASSUME NEW p \in Legs, RemoveLive(p) PROVE ContainersOK'
  BY <1>20 DEF RemoveLive
<1>21. ASSUME NEW p \in Legs, RemoveCandidate(p) PROVE ContainersOK'
  BY <1>21 DEF RemoveCandidate
<1>22. ASSUME Exit PROVE ContainersOK'
  BY <1>22 DEF Exit
<1> QED
  BY <1>1, <1>2, <1>3, <1>4, <1>5, <1>6, <1>7, <1>8, <1>9, <1>10, <1>11, <1>12, <1>13,
     <1>14, <1>15, <1>16, <1>17, <1>18, <1>19, <1>20, <1>21, <1>22 DEF Next, Step, Finished

\* A health check, once passed, stays passed.
LEMMA PassedStays ==
  ASSUME IInv, [Next]_vars
  PROVE  \A b, i : Passed(b, i) => Passed(b, i)'
<1>0. restarted \subseteq restarted'
  BY DEF Next, Step, Finished, Start, Snapshot, BuildImage, Name, Retag, RemoveLive, UpLive,
         RemoveCandidate, UpCandidate, Health, Observe, Again, Pin, PrintArtifact, Report, Ask,
         NameRunning, Find, TearDown, Die, Exit, containers, vars
<1>1. ASSUME NEW p \in Legs,
             \A q \in Legs \ {p} : /\ mode'[q] = mode[q] /\ build'[q] = build[q]
                                  /\ answered'[q] = answered[q] /\ cid'[q] = cid[q],
             mode[p] = "candidate" => answered[p] = None
      PROVE  \A b, i : Passed(b, i) => Passed(b, i)'
  BY <1>0, <1>1 DEF Passed
<1>2. ASSUME UNCHANGED <<mode, build, answered, cid>>
      PROVE  \A b, i : Passed(b, i) => Passed(b, i)'
  BY <1>0, <1>2 DEF Passed
<1>3. ASSUME NEW p \in Legs, NEW m \in Modes, Start(p, m)
      PROVE  \A b, i : Passed(b, i) => Passed(b, i)'
  BY <1>1, <1>3 DEF Start, IInv, InputsOK, TypeOK
<1>4. ASSUME NEW p \in Legs, Health(p)
      PROVE  \A b, i : Passed(b, i) => Passed(b, i)'
  BY <1>1, <1>4 DEF Health, IInv, ChecksOK, TypeOK, inputs
<1>5. ASSUME NEW p \in Legs, Observe(p)
      PROVE  \A b, i : Passed(b, i) => Passed(b, i)'
  BY <1>1, <1>5 DEF Observe, IInv, ChecksOK, TypeOK, inputs
<1>6. ASSUME NEW p \in Legs, Report(p)
      PROVE  \A b, i : Passed(b, i) => Passed(b, i)'
  BY <1>1, <1>6 DEF Report, IInv, TypeOK, inputs
<1>7. ASSUME NEW p \in Legs, Ask(p)
      PROVE  \A b, i : Passed(b, i) => Passed(b, i)'
  BY <1>1, <1>7 DEF Ask, IInv, TypeOK, inputs
<1>8. \/ \E p \in Legs : Health(p) \/ Observe(p) \/ Report(p) \/ Ask(p) \/ \E m \in Modes : Start(p, m)
      \/ UNCHANGED <<mode, build, answered, cid>>
  BY DEF Next, Step, Finished, Snapshot, BuildImage, Name, Retag, RemoveLive, UpLive,
         RemoveCandidate, UpCandidate, Again, Pin, PrintArtifact, NameRunning, Find, TearDown,
         Die, Exit, inputs, vars
<1> QED
  BY <1>2, <1>3, <1>4, <1>5, <1>6, <1>7, <1>8

\* An artifact forge has been given passed a health check of its build.
LEMMA StartKeepsNames ==
  ASSUME IInv, NEW p \in Legs, NEW m \in Modes, Start(p, m)
  PROVE  NamesOK'
<1>1. PICK b \in Builds \cup {None}, i \in Images \cup {None} :
        /\ mode' = [mode EXCEPT ![p] = m] /\ build' = [build EXCEPT ![p] = b]
        /\ artifact' = [artifact EXCEPT ![p] = i]
        /\ m = "promote" => Recorded(b, i)
  BY DEF Start
<1>2. m = "promote" => i # None /\ Passed(b, i)
  <2>1. SUFFICES ASSUME m = "promote" PROVE i # None /\ Passed(b, i)
    OBVIOUS
  <2>2. PICK q \in Legs : said[q] = Line("CHECKED", b, i)
    BY <1>1, <2>1 DEF Recorded
  <2>3. said[q].line = "CHECKED" /\ said[q].build = b /\ said[q].image = i
    BY <2>2 DEF Line
  <2>4. pc[q] = "done" /\ mode[q] = "candidate" /\ build[q] = b /\ i = cid[q].image
    BY <2>3, LineFields DEF IInv, SaidOK
  <2>5. Answered(q) /\ cid[q] # None /\ answered[q] # None
    BY <2>4 DEF IInv, ChecksOK
  <2>6. i \in Images
    BY <2>4, <2>5 DEF IInv, TypeOK, Containers
  <2> QED BY <2>4, <2>5, <2>6, DeployConstants DEF Passed, Answered
<1>3. \A c, j : Passed(c, j) => Passed(c, j)'
  BY PassedStays DEF Next
<1>4. \A q \in Legs \ {p} : mode'[q] = mode[q] /\ build'[q] = build[q] /\ artifact'[q] = artifact[q]
  BY <1>1 DEF IInv, TypeOK
<1>5. mode'[p] = m /\ build'[p] = b /\ artifact'[p] = i /\ pin' = pin
  BY <1>1 DEF Start, tags, IInv, TypeOK
<1> QED BY <1>2, <1>3, <1>4, <1>5 DEF IInv, NamesOK

\* A promote names what forge recorded.
LEMMA NameKeepsNames ==
  ASSUME IInv, NEW p \in Legs, Name(p)
  PROVE  NamesOK'
<1>1. mode[p] = "promote" /\ pin' = [pin EXCEPT ![build[p]] = artifact[p]] 
      /\ UNCHANGED <<mode, build, artifact, answered, cid, restarted>>
  BY DEF Name, IInv, RoutesOK, Travellers, inputs, containers
<1>2. Passed(build[p], artifact[p])
  BY <1>1 DEF IInv, NamesOK
<1>3. \A c, j : Passed(c, j) => Passed(c, j)'
  BY <1>1 DEF Passed
<1> QED BY <1>1, <1>2, <1>3 DEF IInv, NamesOK, TypeOK

\* A check names the container that answered.
LEMMA PinKeepsNames ==
  ASSUME IInv, NEW p \in Legs, Pin(p)
  PROVE  NamesOK'
<1>1. /\ mode[p] = "candidate" /\ Answered(p) /\ cid[p] # None /\ answered[p] # None
      /\ pin' = IF build[p] = None THEN pin ELSE [pin EXCEPT ![build[p]] = cid[p].image] 
      /\ UNCHANGED <<mode, build, artifact, answered, cid, restarted>>
  BY DEF Pin, IInv, RoutesOK, Travellers, inputs, containers, ChecksOK
<1>2. Passed(build[p], cid[p].image)
  BY <1>1 DEF IInv, Passed, Answered
<1>3. \A c, j : Passed(c, j) => Passed(c, j)'
  BY <1>1 DEF Passed
<1> QED BY <1>1, <1>2, <1>3 DEF IInv, NamesOK, TypeOK

\* Every name and every artifact has passed a health check of its build.
LEMMA NamesOKKept ==
  ASSUME IInv, [Next]_vars
  PROVE  NamesOK'
<1>1. ASSUME NEW p \in Legs, NEW m \in Modes, Start(p, m) PROVE NamesOK'
  BY <1>1, StartKeepsNames
<1>2. ASSUME NEW p \in Legs, Name(p) PROVE NamesOK'
  BY <1>2, NameKeepsNames
<1>3. ASSUME NEW p \in Legs, Pin(p) PROVE NamesOK'
  BY <1>3, PinKeepsNames
<1>0. \A b, i : Passed(b, i) => Passed(b, i)'
  BY PassedStays
<1> USE DEF IInv, TypeOK, NamesOK, RoutesOK, Travellers, Goto, Say, inputs, containers, tags
<1>4. ASSUME NEW p \in Legs, Snapshot(p) PROVE NamesOK'
  BY <1>0, <1>4 DEF Snapshot
<1>5. ASSUME NEW p \in Legs, BuildImage(p) PROVE NamesOK'
  BY <1>0, <1>5 DEF BuildImage
<1>6. ASSUME NEW p \in Legs, Retag(p) PROVE NamesOK'
  BY <1>0, <1>6 DEF Retag
<1>7. ASSUME NEW p \in Legs, UpLive(p) PROVE NamesOK'
  BY <1>0, <1>7 DEF UpLive
<1>8. ASSUME NEW p \in Legs, UpCandidate(p) PROVE NamesOK'
  BY <1>0, <1>8 DEF UpCandidate
<1>9. ASSUME NEW p \in Legs, Health(p) PROVE NamesOK'
  BY <1>0, <1>9 DEF Health
<1>10. ASSUME NEW p \in Legs, Observe(p) PROVE NamesOK'
  BY <1>0, <1>10 DEF Observe
<1>11. ASSUME NEW p \in Legs, Again(p) PROVE NamesOK'
  BY <1>0, <1>11 DEF Again
<1>12. ASSUME NEW p \in Legs, PrintArtifact(p) PROVE NamesOK'
  BY <1>0, <1>12 DEF PrintArtifact
<1>13. ASSUME NEW p \in Legs, Report(p) PROVE NamesOK'
  BY <1>0, <1>13 DEF Report
<1>14. ASSUME NEW p \in Legs, Ask(p) PROVE NamesOK'
  BY <1>0, <1>14 DEF Ask
<1>15. ASSUME NEW p \in Legs, NameRunning(p) PROVE NamesOK'
  BY <1>0, <1>15 DEF NameRunning
<1>16. ASSUME NEW p \in Legs, Find(p) PROVE NamesOK'
  BY <1>0, <1>16 DEF Find
<1>17. ASSUME NEW p \in Legs, TearDown(p) PROVE NamesOK'
  BY <1>0, <1>17 DEF TearDown
<1>18. ASSUME NEW p \in Legs, Die(p) PROVE NamesOK'
  BY <1>0, <1>18 DEF Die
<1>19. CASE UNCHANGED vars
  BY <1>0, <1>19 DEF vars
<1>20. ASSUME NEW p \in Legs, RemoveLive(p) PROVE NamesOK'
  BY <1>0, <1>20 DEF RemoveLive
<1>21. ASSUME NEW p \in Legs, RemoveCandidate(p) PROVE NamesOK'
  BY <1>0, <1>21 DEF RemoveCandidate
<1>22. ASSUME Exit PROVE NamesOK'
  BY <1>0, <1>22 DEF Exit
<1> QED
  BY <1>1, <1>2, <1>3, <1>4, <1>5, <1>6, <1>7, <1>8, <1>9, <1>10, <1>11, <1>12, <1>13,
     <1>14, <1>15, <1>16, <1>17, <1>18, <1>19, <1>20, <1>21, <1>22 DEF Next, Step, Finished

\* A promote says its build is live only if the artifact is.
LEMMA ReportKeepsNamed ==
  ASSUME IInv, NEW p \in Legs, Report(p)
  PROVE  NamedMeansChecked'
<1> DEFINE l == IF live.image = artifact[p] THEN "DEPLOYED" ELSE "NOT_DEPLOYED"
<1>0. PICK a : a = Line(l, build[p], live.image)
  OBVIOUS
<1>1. /\ said' = [said EXCEPT ![p] = a]
      /\ a = Line(l, build[p], live.image)
      /\ l = "DEPLOYED" => live.image = artifact[p]
      /\ l \in {"DEPLOYED", "NOT_DEPLOYED"}
  BY <1>0 DEF Report, Say
<1> HIDE DEF l
<1>2. mode[p] = "promote"
  BY DEF Report
<1>3. a.line = l /\ a.build = build[p] /\ a.image = live.image
  BY <1>1 DEF Line
<1>4. l = "DEPLOYED" => Passed(build[p], live.image)
  BY <1>1, <1>2 DEF IInv, NamesOK
<1>5. /\ said'[p] = a
      /\ \A q \in Legs \ {p} : said'[q] = said[q]
  BY <1>1 DEF IInv, TypeOK
<1>6. \A b, i : Passed(b, i) => Passed(b, i)'
  BY PassedStays DEF Next, Step
<1> QED BY <1>1, <1>3, <1>4, <1>5, <1>6 DEF IInv, NamedMeansChecked

\* A query names the live image by a tag that only checked images carry.
LEMMA NameRunningKeepsNamed ==
  ASSUME IInv, NEW p \in Legs, NameRunning(p)
  PROVE  NamedMeansChecked'
<1>0. \A b, i : Passed(b, i) => Passed(b, i)'
  BY PassedStays DEF Next, Step
<1>1. CASE Say(p, Line("UNIDENTIFIED", None, cid[p].image))
  <2>1. Line("UNIDENTIFIED", None, cid[p].image).line \notin {"DEPLOYED", "RUNNING"}
    BY DEF Line
  <2> QED BY <1>0, <1>1, <2>1 DEF Say, IInv, TypeOK, NamedMeansChecked
<1>2. ASSUME NEW b \in Builds, pin[b] = cid[p].image, Say(p, Line("RUNNING", b, cid[p].image))
      PROVE  NamedMeansChecked'
  <2>1. PICK a : a = Line("RUNNING", b, cid[p].image)
    OBVIOUS
  <2>2. a.build = b /\ a.image = cid[p].image
    BY <2>1 DEF Line
  <2>3. pin[b] # None
    BY <1>2, DeployConstants DEF NameRunning, IInv, TypeOK, ChecksOK, Containers
  <2>4. Passed(b, cid[p].image)
    BY <1>2, <2>3 DEF IInv, NamesOK
  <2>6. /\ said'[p] = a
        /\ \A q \in Legs \ {p} : said'[q] = said[q]
    BY <1>2, <2>1 DEF Say, IInv, TypeOK
  <2> QED BY <1>0, <2>2, <2>4, <2>6 DEF IInv, NamedMeansChecked
<1> QED BY <1>1, <1>2 DEF NameRunning

\* What has been said stays true.
LEMMA SilenceKeepsNamed ==
  ASSUME IInv, [Next]_vars, said' = said
  PROVE  NamedMeansChecked'
<1>1. SUFFICES ASSUME NEW q \in Legs, said[q].line \in {"DEPLOYED", "RUNNING"},
                      NEW b, NEW i, b = said[q].build, i = said[q].image
               PROVE  Passed(b, i)'
  BY DEF NamedMeansChecked
<1>2. Passed(b, i)
  BY <1>1 DEF IInv, NamedMeansChecked
<1> QED
  BY <1>2, PassedStays

\* Whatever is named was checked.
LEMMA NamedMeansCheckedKept ==
  ASSUME IInv, [Next]_vars
  PROVE  NamedMeansChecked'
<1>1. ASSUME NEW p \in Legs, NEW m \in Modes, Start(p, m) PROVE NamedMeansChecked'
  BY <1>1, SilenceKeepsNamed DEF Next, Start
<1>2. ASSUME NEW p \in Legs, Health(p) PROVE NamedMeansChecked'
  BY <1>2, SilenceKeepsNamed DEF Next, Step, Health
<1>3. ASSUME NEW p \in Legs, Report(p) PROVE NamedMeansChecked'
  BY <1>3, ReportKeepsNamed
<1>4. ASSUME NEW p \in Legs, NameRunning(p) PROVE NamedMeansChecked'
  BY <1>4, NameRunningKeepsNamed
<1>0. \A b, i : Passed(b, i) => Passed(b, i)'
  BY PassedStays
<1> USE DEF IInv, TypeOK, NamedMeansChecked, Line, Goto, Say, inputs, containers, tags
<1>5. ASSUME NEW p \in Legs, Snapshot(p) PROVE NamedMeansChecked'
  BY <1>0, <1>5 DEF Snapshot
<1>6. ASSUME NEW p \in Legs, BuildImage(p) PROVE NamedMeansChecked'
  BY <1>0, <1>6 DEF BuildImage
<1>7. ASSUME NEW p \in Legs, Name(p) PROVE NamedMeansChecked'
  BY <1>0, <1>7 DEF Name
<1>8. ASSUME NEW p \in Legs, Retag(p) PROVE NamedMeansChecked'
  BY <1>0, <1>8 DEF Retag
<1>9. ASSUME NEW p \in Legs, UpLive(p) PROVE NamedMeansChecked'
  BY <1>0, <1>9 DEF UpLive
<1>10. ASSUME NEW p \in Legs, UpCandidate(p) PROVE NamedMeansChecked'
  BY <1>0, <1>10 DEF UpCandidate
<1>11. ASSUME NEW p \in Legs, Observe(p) PROVE NamedMeansChecked'
  BY <1>0, <1>11 DEF Observe
<1>12. ASSUME NEW p \in Legs, Again(p) PROVE NamedMeansChecked'
  BY <1>0, <1>12 DEF Again
<1>13. ASSUME NEW p \in Legs, Pin(p) PROVE NamedMeansChecked'
  BY <1>0, <1>13 DEF Pin
<1>14. ASSUME NEW p \in Legs, PrintArtifact(p) PROVE NamedMeansChecked'
  BY <1>0, <1>14 DEF PrintArtifact
<1>15. ASSUME NEW p \in Legs, Ask(p) PROVE NamedMeansChecked'
  BY <1>0, <1>15 DEF Ask
<1>16. ASSUME NEW p \in Legs, Find(p) PROVE NamedMeansChecked'
  BY <1>0, <1>16 DEF Find
<1>17. ASSUME NEW p \in Legs, TearDown(p) PROVE NamedMeansChecked'
  BY <1>0, <1>17 DEF TearDown
<1>18. ASSUME NEW p \in Legs, Die(p) PROVE NamedMeansChecked'
  BY <1>0, <1>18 DEF Die
<1>19. CASE UNCHANGED vars
  BY <1>0, <1>19 DEF vars
<1>20. ASSUME NEW p \in Legs, RemoveLive(p) PROVE NamedMeansChecked'
  BY <1>0, <1>20 DEF RemoveLive
<1>21. ASSUME NEW p \in Legs, RemoveCandidate(p) PROVE NamedMeansChecked'
  BY <1>0, <1>21 DEF RemoveCandidate
<1>22. ASSUME Exit PROVE NamedMeansChecked'
  BY <1>0, <1>22 DEF Exit
<1> QED
  BY <1>1, <1>2, <1>3, <1>4, <1>5, <1>6, <1>7, <1>8, <1>9, <1>10, <1>11, <1>12, <1>13,
     <1>14, <1>15, <1>16, <1>17, <1>18, <1>19, <1>20, <1>21, <1>22 DEF Next, Step, Finished

-----------------------------------------------------------------------------
LEMMA InitEstablishes == Init => IInv
<1> SUFFICES ASSUME Init PROVE IInv
  OBVIOUS
<1>1. live \in Containers \cup {None} /\ appTag \in Images \cup {None}
  BY DeployConstants DEF Init, Containers
<1>2. Silent \in Answers /\ Silent.line = ""
  BY DEF Silent, Answers, Lines
<1>3. TypeOK
  BY <1>1, <1>2 DEF Init, TypeOK, Places, Modes
<1>4. RoutesOK /\ InputsOK /\ TaggedOK /\ TodoOK
  BY DEF Init, RoutesOK, Travellers, Modes, InputsOK, TaggedOK, TodoOK
<1>5. ContainersOK /\ OneUp /\ ChecksOK
  BY DEF Init, ContainersOK, Belongs, OneUp, Runs, ChecksOK, Early
<1>6. SaidOK /\ NamesOK /\ NamedMeansChecked
  BY <1>2 DEF Init, SaidOK, NamesOK, NamedMeansChecked
<1>7. StaysUp /\ LiveFollowsTag
  BY DEF Init, StaysUp, NeverUp, CameUp, LiveModes, LiveFollowsTag
<1> QED
  BY <1>3, <1>4, <1>5, <1>6, <1>7 DEF IInv

LEMMA NextKeeps == IInv /\ [Next]_vars => IInv'
BY TypeKept, RoutesOKKept, InputsOKKept, TaggedOKKept, ContainersOKKept, OneUpKept,
   ChecksOKKept, SaidOKKept, NamesOKKept, NamedMeansCheckedKept, LiveFollowsTagKept,
   StaysUpKept, TodoOKKept DEF IInv

\* The inductive invariant of deploy.sh holds for any number of legs.
THEOREM Invariance == Spec => []IInv
BY InitEstablishes, NextKeeps, PTL DEF Spec

\* The state is well formed, and no leg tags or starts what is not an image.
THEOREM Typed == Spec => []TypeOK
<1>1. IInv => TypeOK
  BY DEF IInv
<1> QED
  BY <1>1, Invariance, PTL

\* The artifact a check reports is the image of a container of its own project, and
\* that container answered its health check on the shared port, unless it had exited
\* and was started again (deploy_candidate).
THEOREM ReportsWhatAnswered == Spec => []CheckedIsWhatAnswered
<1>1. IInv => CheckedIsWhatAnswered
  <2> SUFFICES ASSUME IInv, NEW p \in Legs, said[p].line = "CHECKED"
               PROVE  /\ said[p].image = cid[p].image
                      /\ Project(cid[p].by) = Project(p)
                      /\ answered[p] = cid[p] \/ cid[p] \in restarted
    BY DEF CheckedIsWhatAnswered
  <2>1. pc[p] = "done" /\ mode[p] = "candidate" /\ said[p].image = cid[p].image
    BY LineFields DEF IInv, SaidOK
  <2>2. Answered(p) /\ cid[p] # None
    BY <2>1 DEF IInv, ChecksOK
  <2> QED
    BY <2>1, <2>2 DEF IInv, ContainersOK, Belongs, Answered
<1> QED
  BY <1>1, Invariance, PTL

\* A build is named as what is live only for an image that passed a health check of
\* that build (deploy_promote, running_identity).
THEOREM NamesAreChecked == Spec => []NamedMeansChecked
<1>1. IInv => NamedMeansChecked
  BY DEF IInv
<1> QED
  BY <1>1, Invariance, PTL

\* Live tag and live container differ only while a live leg is between the two, or
\* after one died there.
THEOREM LiveIsTagged == Spec => []LiveFollowsTag
<1>1. IInv => LiveFollowsTag
  BY DEF IInv
<1> QED
  BY <1>1, Invariance, PTL

\* "none" is said only while the live container has exited or is being replaced, or
\* before a live leg has come up (running_identity).
THEOREM NoneIsDown == Spec => NoneMeansDown
<1>1. IInv /\ [Next]_vars =>
        [\A p \in Legs : said[p] # said'[p] /\ said'[p].line = "NONE" =>
           IF live = None THEN NeverUp \/ Replacing ELSE LiveProject \in exited]_vars
  <2> SUFFICES ASSUME IInv, [Next]_vars, NEW p \in Legs,
                      said[p] # said'[p], said'[p].line = "NONE"
               PROVE  IF live = None THEN NeverUp \/ Replacing ELSE LiveProject \in exited
    OBVIOUS
  <2>1. CASE \E r \in Legs : Ask(r)
    <3>1. PICK r \in Legs : Ask(r)
      BY <2>1
    <3>2. ~LiveRuns
      BY <3>1 DEF Ask, Goto
    <3> QED
      BY <3>2 DEF IInv, StaysUp, LiveRuns
  <2>2. ASSUME NEW r \in Legs, NEW a, Say(r, a), a.line # "NONE" PROVE FALSE
    BY <2>2 DEF Say, IInv, TypeOK
  <2>3. CASE \E r \in Legs : PrintArtifact(r) \/ Report(r) \/ NameRunning(r)
    <3>1. PICK r \in Legs : PrintArtifact(r) \/ Report(r) \/ NameRunning(r)
      BY <2>3
    <3>2. CASE PrintArtifact(r)
      <4> DEFINE a == Line("CHECKED", build[r], cid[r].image)
      <4>1. Say(r, a) /\ a.line = "CHECKED"
        BY <3>2 DEF PrintArtifact, Line
      <4> QED
        BY <2>2, <4>1
    <3>3. CASE Report(r)
      <4> DEFINE l == IF live.image = artifact[r] THEN "DEPLOYED" ELSE "NOT_DEPLOYED"
                 a == Line(l, build[r], live.image)
      <4>1. Say(r, a) /\ a.line = l
        BY <3>3 DEF Report, Line
      <4>2. l # "NONE"
        OBVIOUS
      <4> QED
        BY <2>2, <4>1, <4>2
    <3>4. CASE NameRunning(r)
      <4>1. CASE Say(r, Line("UNIDENTIFIED", None, cid[r].image))
        BY <2>2, <4>1 DEF Line
      <4>2. ASSUME NEW b \in Builds, Say(r, Line("RUNNING", b, cid[r].image))
            PROVE  FALSE
        BY <2>2, <4>2 DEF Line
      <4> QED
        BY <3>4, <4>1, <4>2 DEF NameRunning
    <3> QED
      BY <3>1, <3>2, <3>3, <3>4
  <2>4. CASE said' = said
    BY <2>4
  <2>5. \/ said' = said
        \/ \E r \in Legs : Ask(r) \/ PrintArtifact(r) \/ Report(r) \/ NameRunning(r)
    BY DEF Next, Step, Finished, Start, Snapshot, BuildImage, Name, Retag, RemoveLive, UpLive,
           RemoveCandidate, UpCandidate, Exit,
           Health, Observe, Again, Pin, Find, TearDown, Die, vars
  <2> QED
    BY <2>1, <2>3, <2>4, <2>5
<1> QED
  BY <1>1, Invariance, PTL DEF Spec, NoneMeansDown

\* A candidate under check is replaced or removed only by a leg of its own build or
\* by the sweep, provided that no two builds are given one token (candidate_token).
THEOREM ChecksAreUndisturbed ==
  ASSUME \A b, c \in Builds : TokenOf[b] = TokenOf[c] => b = c
  PROVE  Spec => ChecksUndisturbed
<1>1. ASSUME IInv, NEW p \in Legs, NEW q \in Legs, Project(p) = Project(q)
      PROVE  build[p] = build[q]
  BY <1>1, DeployConstants DEF Project, IInv, TypeOK
<1>2. IInv /\ [Next]_vars =>
       [\A p \in Legs :
         /\ pc[p] \in {"observe", "health", "again"} /\ mode[p] = "candidate"
         /\ cand[Project(p)] # None /\ cand'[Project(p)] # cand[Project(p)]
         => \E q \in Legs : /\ pc[q] \in {"up", "remove"}
                             /\ (mode[q] = "sweep" \/ build[q] = build[p])]_vars
  <2> SUFFICES ASSUME IInv, [Next]_vars, NEW p \in Legs,
                      cand'[Project(p)] # cand[Project(p)]
               PROVE  \E q \in Legs : /\ pc[q] \in {"up", "remove"}
                                      /\ (mode[q] = "sweep" \/ build[q] = build[p])
    OBVIOUS
  <2>1. ASSUME NEW q \in Legs, UpCandidate(q)
        PROVE  pc[q] = "up" /\ build[q] = build[p]
    <3>1. Project(p) = Project(q)
      BY <2>1 DEF UpCandidate, IInv, TypeOK
    <3> QED
      BY <1>1, <2>1, <3>1 DEF UpCandidate
  <2>0. ASSUME NEW q \in Legs, RemoveCandidate(q)
        PROVE  pc[q] = "up" /\ build[q] = build[p]
    <3>1. Project(p) = Project(q)
      BY <2>0 DEF RemoveCandidate, IInv, TypeOK
    <3> QED
      BY <1>1, <2>0, <3>1 DEF RemoveCandidate
  <2>2. ASSUME NEW q \in Legs, TearDown(q)
        PROVE  pc[q] = "remove" /\ (mode[q] = "sweep" \/ build[q] = build[p])
    <3>1. pc[q] = "remove" /\ mode[q] \in {"down", "sweep"}
      BY <2>2 DEF TearDown, IInv, RoutesOK, Travellers
    <3>2. Project(p) \in todo[q]
      <4>1. PICK x \in todo[q] : cand' = [cand EXCEPT ![x] = None]
        BY <2>2 DEF TearDown
      <4>2. x \in Projects /\ cand \in [Projects -> Containers \cup {None}]
        BY <4>1 DEF IInv, TypeOK
      <4>3. x # Project(p) => cand'[Project(p)] = cand[Project(p)]
        BY <4>1, <4>2, ProjectIsProject DEF IInv, TypeOK
      <4> QED
        BY <4>1, <4>3
    <3>3. mode[q] = "down" => Project(p) = Project(q)
      BY <3>2 DEF IInv, TodoOK
    <3> QED
      BY <1>1, <3>1, <3>3
  <2>3. \/ cand' = cand
        \/ \E q \in Legs : UpCandidate(q) \/ RemoveCandidate(q) \/ TearDown(q)
    BY DEF Next, Step, Finished, Start, Snapshot, BuildImage, Name, Retag, RemoveLive, UpLive,
           Health, Observe, Again, Pin, PrintArtifact, Report, Ask, NameRunning, Find, Die, Exit,
           vars, containers
  <2> QED
    BY <2>0, <2>1, <2>2, <2>3
<1> QED
  BY <1>2, Invariance, PTL DEF Spec, ChecksUndisturbed
=============================================================================
