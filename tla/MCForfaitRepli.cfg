SPECIFICATION FairSpec
CONSTANTS
  j1 = j1  j2 = j2  j3 = j3  s1 = s1  s2 = s2  o1 = o1  o2 = o2
  w1 = w1  w2 = w2  w3 = w3
  Job = {j1, j2}
  Personne = {s1}
  Org = {o1, o2}
  MaxAttempts <- MCUnePrise
  demandeur <- MCDemandeurUn
  orgDe <- MCOrgDe
  flottes = {}
  mode <- MCModePool
  prets <- MCPrets
  ouverts <- MCOuverts
  replis = {o1}
  Worker = {w1, w2, w3}
  Abonnes = {w1}
  Sondeurs = {w1}
  ProlongeTardif = FALSE
  NoJob = NoJob  NoWorker = NoWorker  NoForfait = NoForfait
 
PROPERTIES  PriseAboutit
