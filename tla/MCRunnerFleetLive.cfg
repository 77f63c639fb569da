\* Liveness: one fleet of two rows and one job at a time, stopped at its first failure;
\* two polls, one cut, and an orchestrator.
CONSTANTS
  f1 = f1
  Fleet = {f1}
  Worker = {w1, w2}
  Ordonnanceur = {o1}
  Appelant = {}
  workers <- UnSeul
  max_rows <- DeuxLignes
  max_consecutive_failures <- UnSeul
  MaxJobs = 3
  MaxEnfiles = 0
  MaxArmements = 1
  MaxChutes = 1
  NoFleet = NoFleet
  NoJob = NoJob
  NoOne = NoOne
SPECIFICATION FairSpec
CHECK_DEADLOCK FALSE
INVARIANTS BornesTenues
PROPERTIES ArretAboutit CampagneAvance
