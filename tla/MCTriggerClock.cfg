\* Two scheduled agents, the cron of one broken, two clocks and two owners.
CONSTANTS
  t1 = t1
  t2 = t2
  Trigger = {t1, t2}
  Departs <- Programmes
  Horloge = {h1, h2}
  Livraison = {}
  Identifiant = {}
  Usager = {u1, u2}
  PERIODE = 1
  MaxT = 2
  MaxTravaux = 3
  MaxMain = 1
  MaxPrises = 2
  MaxCoupures = 1
  MaxGestes = 2
  Touches = {t1}
  limite = 2
  Casses = {t2}
  TickPonctuel = TRUE
  MaxRates = 1
  FENETRE = 2
  JOUR = 2
  fraicheur = 2
  NoTrigger = NoTrigger
  Personne = Personne
  NoId = NoId
SPECIFICATION FairSpec
CHECK_DEADLOCK FALSE
INVARIANTS UnGagnantParEcheance AttenteBornee RythmeRepris
PROPERTY EcheanceConsommee
