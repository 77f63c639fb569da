CONSTANTS
  t1 = t1  t2 = t2  x1 = x1  a1 = a1  p1 = p1  p2 = p2
  Tx = {t1, t2, x1}
  ailleurs = {x1}
  Appel = {a1}
  Payeur = {p1, p2}
  fusions <- MCFusions
  lecteurs = {Tous, p1}
  MARGE = 1
  limite = 1
  MaxT = 2
  Tous = Tous
  NoAppel = NoAppel
  NoOne = NoOne
SPECIFICATION FairSpec
CHECK_DEADLOCK FALSE
INVARIANTS RienDerriereLeCurseur PageTientParole
PROPERTY ToutEstServi
