\* Two rows, two sessions that sign alike, one of them drains the queue, the other's calls
\* may be cut; two takes before a row leaves the queue.
CONSTANTS
  l1 = l1  l2 = l2  p1 = p1  p2 = p2  r1 = r1  r2 = r2  w1 = w1
  Lignes = {l1, l2}
  Appelants = {p1, p2}
  Draineurs = {p1}
  Runs = {r1, r2}
  Libelles = {w1}
  runDe <- MCRunDe
  libelleDe <- MCLibelleDe
  Etats = {"e1", "e2"}
  Suite <- MCSuite
  Filtre = {"e1"}
  EtatAbandon = Aucun
  PLAFOND = 2
  Assouplis = {1}
  MaxClaims = 3
  Coupables = {p2}
  MaxIntrus = 1
  JournalCoupe = FALSE
  Aucun = Aucun  Personne = Personne  Supprimee = Supprimee
SPECIFICATION FairSpec
CHECK_DEADLOCK FALSE
INVARIANTS BailRespecte  PasseNonRefaite
PROPERTIES AbandonJuste FileServie
