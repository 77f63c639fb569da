\* One row, one session, and the formulas of the table computed again in the background.
CONSTANTS
  l1 = l1  l2 = l2  p1 = p1  p2 = p2  r1 = r1  r2 = r2  w1 = w1
  Lignes = {l1}
  Appelants = {p1}
  Draineurs = {p1}
  Runs = {r1, r2}
  Libelles = {w1}
  runDe <- MCRunDe
  libelleDe <- MCLibelleDe
  Etats = {"e1", "e2"}
  Suite <- MCSuite
  Filtre = {"e1"}
  EtatAbandon = Aucun
  PLAFOND = 2
  Assouplis = {1}
  MaxClaims = 3
  Coupables = {}
  MaxIntrus = 0
  JournalCoupe = FALSE
  Aucun = Aucun  Personne = Personne  Supprimee = Supprimee
SPECIFICATION Spec
CHECK_DEADLOCK FALSE
PROPERTIES AvanceDeSaPasse
