\* One webhook, three deliveries that may be retries of each other, two owners.
CONSTANTS
  t1 = t1
  t2 = t2
  Trigger = {t1}
  Departs <- Appeles
  Horloge = {}
  Livraison = {l1, l2, l3}
  Identifiant = {id1}
  Usager = {u1, u2}
  PERIODE = 1
  MaxT = 2
  MaxTravaux = 3
  MaxMain = 0
  MaxPrises = 1
  MaxCoupures = 1
  MaxGestes = 2
  Touches = {t1}
  limite = 2
  Casses = {}
  TickPonctuel = TRUE
  MaxRates = 1
  FENETRE = 2
  JOUR = 2
  fraicheur = 2
  NoTrigger = NoTrigger
  Personne = Personne
  NoId = NoId
SPECIFICATION Spec
SYMMETRY SymLivraison
CHECK_DEADLOCK FALSE
INVARIANTS  LissageTenu PlafondTenu RienDeRetenuEnMarche
 
