CONSTANTS
  t = t  s = s  u = u  p1 = p1  p2 = p2  k1 = k1  b1 = b1  v1 = v1  r1 = r1
  Payeur = {p1, p2}
  Appel = {t, s, u}
  asynchrones = {s}
  tours = {u}
  payeurDe <- MCPayeurDe
  reserve <- MCReserve
  reel <- MCReel
  Cle = {k1}
  montantDe <- MCMontantDe
  versA <- MCVersA
  Boucle = {b1}
  Releveur = {v1}
  Rapporteur = {r1}
  fusions <- MCFusions
  Enforce = TRUE
  SoumissionTardive = FALSE
  NoAppel = NoAppel
SPECIFICATION FairSpec
CHECK_DEADLOCK FALSE
INVARIANTS Coherence 
PROPERTIES ClotureJuste TientLeBudget ReservationSeFerme
