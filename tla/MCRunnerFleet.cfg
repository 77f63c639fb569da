\* One fleet of four rows and one job at a time, stopped at its first failure and armed
\* twice; two polls, one cut, one request that enqueues, two orchestrators.
CONSTANTS
  f1 = f1
  Fleet = {f1}
  Worker = {w1, w2}
  Ordonnanceur = {o1, o2}
  Appelant = {a1}
  workers <- UnSeul
  max_rows <- QuatreLignes
  max_consecutive_failures <- UnSeul
  MaxJobs = 4
  MaxEnfiles = 1
  MaxArmements = 2
  MaxChutes = 1
  NoFleet = NoFleet
  NoJob = NoJob
  NoOne = NoOne
SPECIFICATION Spec
SYMMETRY Symetrie
CHECK_DEADLOCK FALSE
INVARIANTS PreneurDuPassage EchecsBornes
PROPERTIES ArretNeSAnnulePas CycleDeCampagne
