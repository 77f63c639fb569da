SPECIFICATION FairSpec
CONSTANTS
  j1 = j1  j2 = j2  p1 = p1  p2 = p2  p3 = p3  s1 = s1  s2 = s2  s3 = s3
  o1 = o1  o2 = o2  f1 = f1  t1 = t1
  Job = {j1, j2}
  Proc = {p1, p2, p3}
  Sub = {s1, s2, s3}
  Org = {o1, o2}
  Famille = {f1}
  Declencheur = {t1}
  MaxAttempts <- MCMaxAttempts
  subOf <- MCSubPropre
  Perimetre <- MCTout
  Vue <- MCTout
  Sert <- MCTout
  orgDe <- MCOrgDe
  familleDe <- MCFamilleDe
  declencheurDe <- MCDeclencheurDe
  perissable = {j1}
  NoJob = NoJob  NoProc = NoProc  NoSub = NoSub  NoDeclencheur = NoDeclencheur
INVARIANT LigneCoherente
PROPERTIES SeulLeClaimantConclut  CycleDeVie RepriseApresMort FileSEcoule
