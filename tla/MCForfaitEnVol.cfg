SPECIFICATION Spec
CONSTANTS
  j1 = j1  j2 = j2  j3 = j3  s1 = s1  s2 = s2  o1 = o1  o2 = o2
  w1 = w1  w2 = w2  w3 = w3
  Job = {j1, j2, j3}
  Personne = {s1, s2}
  Org = {o1, o2}
  MaxAttempts <- MCPrises
  demandeur <- MCDemandeur
  orgDe <- MCOrgDe
  flottes = {j3}
  mode <- MCMode
  prets <- MCPrets
  ouverts <- MCOuverts
  replis = {}
  Worker = {w1, w2}
  Abonnes = {w1, w2}
  Sondeurs = {w2}
  ProlongeTardif = FALSE
  NoJob = NoJob  NoWorker = NoWorker  NoForfait = NoForfait
INVARIANT UnSeulParAbonnement
PROPERTY DeconnexionTenue
