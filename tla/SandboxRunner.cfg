SPECIFICATION FairSpec
CONSTANTS
  Mounts = {m1, m2}
  Commits = {a, b}
  Absent = Absent
  Partial = Partial
  MaxMoves = 3
  Services = {sidecar, runner}
  Nobody = Nobody
  MaxEnds = 2
INVARIANTS TypeOK StagedWhole InstalledWhole
PROPERTIES ExitedIsRestarted StopEnds
