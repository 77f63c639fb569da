------------------------- MODULE TriggerSystemProofs -------------------------
(***************************************************************************)
(* Proofs about TriggerSystem, for any agents, owners, clocks, deliveries  *)
(* and workers.                                                            *)
(***************************************************************************)
EXTENDS TriggerSystem, FiniteSetTheorems, WellFoundedInduction, TLAPS

-----------------------------------------------------------------------------
(* Dates and slots. *)

Avant == {ss \in Nat \X Nat : ss[1] < ss[2]}

LEMMA PasDeDescente == IsWellFoundedOn(Avant, Nat)
  BY NatLessThanWellFounded, Zenon DEF OpToRel, Avant

\* A finite family of integers has a greatest one.  Were one without, take one with as few
\* members as can be: without any of them it has a greatest one, and so it has too.
LEMMA PlusGrand ==
  ASSUME NEW D, IsFiniteSet(D), NEW f, \A d \in D : f[d] \in Int,
         NEW R, R \subseteq D, R # {}
  PROVE  \E m \in R : \A n \in R : f[n] <= f[m]
<1> DEFINE Sans == {X \in SUBSET D : X # {} /\ ~ \E m \in X : \A n \in X : f[n] <= f[m]}
           Tailles == {n \in Nat : \E X \in Sans : Cardinality(X) = n}
<1>1. SUFFICES ASSUME R \in Sans PROVE FALSE
  OBVIOUS
<1>2. \A X \in SUBSET D : IsFiniteSet(X) /\ Cardinality(X) \in Nat
  BY FS_Subset, FS_CardinalityType
<1>3. Tailles # {}
  BY <1>1, <1>2
<1>4. PICK n \in Tailles : \A k \in Tailles : ~ (k < n)
  <2>1. \E x \in Tailles : \A y \in Tailles : <<y, x>> \notin Avant
    <3>1. Tailles \subseteq Nat
      OBVIOUS
    <3> HIDE DEF Tailles
    <3> QED
      BY <3>1, <1>3, PasDeDescente, WFMin
  <2> QED
    BY <2>1 DEF Avant
<1>5. PICK X \in Sans : Cardinality(X) = n
  OBVIOUS
<1>6. PICK x \in X : TRUE
  OBVIOUS
<1>7. Cardinality(X \ {x}) = n - 1 /\ X \ {x} \in SUBSET D
  BY <1>2, <1>5, <1>6, FS_RemoveElement
<1>8. X \ {x} \notin Sans
  <2> SUFFICES ASSUME X \ {x} \in Sans PROVE FALSE
    OBVIOUS
  <2>1. n \in Nat /\ n - 1 \in Nat
    BY <1>2, <1>7
  <2>2. n - 1 \in Tailles
    BY <1>7, <2>1
  <2> QED
    BY <1>4, <2>1, <2>2
<1>9. CASE X \ {x} = {}
  <2>1. X = {x}
    BY <1>6, <1>9
  <2> QED
    BY <1>5, <1>6, <2>1
<1>10. CASE X \ {x} # {}
  <2>1. PICK m \in X \ {x} : \A k \in X \ {x} : f[k] <= f[m]
    BY <1>7, <1>8, <1>10
  <2>2. f[m] \in Int /\ f[x] \in Int /\ \A k \in X : f[k] \in Int
    BY <1>5, <1>6, <2>1
  <2>3. CASE f[x] <= f[m]
    <3>1. \A k \in X : f[k] <= f[m]
      BY <2>1, <2>3
    <3> QED
      BY <1>5, <2>1, <3>1
  <2>4. CASE ~ (f[x] <= f[m])
    <3>1. \A k \in X : f[k] <= f[x]
      BY <2>1, <2>2, <2>4
    <3> QED
      BY <1>5, <1>6, <3>1
  <2> QED
    BY <2>3, <2>4
<1> QED
  BY <1>9, <1>10

LEMMA PlusPetit ==
  ASSUME NEW D, IsFiniteSet(D), NEW f, \A d \in D : f[d] \in Int,
         NEW R, R \subseteq D, R # {}
  PROVE  \E m \in R : \A n \in R : f[m] <= f[n]
<1> DEFINE g == [d \in D |-> 0 - f[d]]
<1>1. \A d \in D : g[d] \in Int
  OBVIOUS
<1>2. PICK m \in R : \A n \in R : g[n] <= g[m]
  <2> HIDE DEF g
  <2> QED
    BY <1>1, PlusGrand
<1>3. \A n \in R : f[m] <= f[n]
  <2> TAKE n \in R
  <2>1. g[n] = 0 - f[n] /\ g[m] = 0 - f[m] /\ f[n] \in Int /\ f[m] \in Int
    BY <1>2
  <2>2. g[n] <= g[m]
    BY <1>2
  <2> HIDE DEF g
  <2> QED
    BY <2>1, <2>2
<1> QED
  BY <1>2, <1>3

\* The greatest of a set that has one.
LEMMA LePlusLoinEst ==
  ASSUME NEW S, NEW x \in S, \A y \in S : y <= x
  PROVE  LePlusLoin(S) \in S /\ \A y \in S : y <= LePlusLoin(S)
BY DEF LePlusLoin

\* A cron falls again, strictly later.
LEMMA ApresEstApres ==
  ASSUME NEW x \in Nat
  PROVE  Apres(x) \in Nat /\ Apres(x) > x
BY TriggersAssumption DEF Apres

\* No due date falls between an instant and the one that follows it.
LEMMA RienEntre ==
  ASSUME NEW x \in Nat, NEW y \in Nat, Apres(x) > y
  PROVE  Apres(y) <= Apres(x)
BY TriggersAssumption DEF Apres

-----------------------------------------------------------------------------
(* The types. *)

\* The delay of a delivery is a number: there is a last slot, and a `debit`-th one from it.
LEMMA RetardEstUnNombre ==
  ASSUME TypeOK, NEW t \in Trigger, NEW t0 \in Nat
  PROVE  retard_de_lissage(t, t0) \in Nat
<1> DEFINE R == Recents(t, t0)
           dues == [m \in Livraison |-> livraison[m].due]
           debit == agent[t].max_per_hour
           K == {d \in Creneaux(t, t0) : Cardinality({m \in R : livraison[m].due >= d}) >= debit}
<1>1. R \subseteq Livraison /\ IsFiniteSet(Livraison) /\ IsFiniteSet(R)
  BY HooksAssumption, FS_Subset DEF Recents, Acceptees
<1>2. \A m \in Livraison : dues[m] \in Int /\ dues[m] = livraison[m].due
  BY DEF TypeOK, TypeHooks, NULL
<1>3. debit \in Nat \ {0}
  BY DEF TypeOK, TypeTriggers
<1>4. CASE R = {}
  BY <1>4 DEF retard_de_lissage
<1>5. CASE R # {}
  <2>1. LePlusLoin(Creneaux(t, t0)) \in Int
    <3>1. PICK m \in R : \A n \in R : dues[n] <= dues[m]
      <4> HIDE DEF dues, R
      <4> QED
        BY <1>1, <1>2, <1>5, PlusGrand
    <3>2. livraison[m].due \in Creneaux(t, t0) /\ \A y \in Creneaux(t, t0) : y <= livraison[m].due
      BY <1>1, <1>2, <3>1 DEF Creneaux
    <3>3. LePlusLoin(Creneaux(t, t0)) \in Creneaux(t, t0)
      BY <3>2, LePlusLoinEst
    <3> QED
      BY <1>1, <1>2, <3>3 DEF Creneaux
  <2>2. ASSUME Cardinality(R) >= debit PROVE Kieme(t, t0, debit) \in Int
    <3> DEFINE Q == {m \in R : livraison[m].due \in K}
    <3>1. PICK p \in R : \A n \in R : dues[p] <= dues[n]
      <4> HIDE DEF dues, R
      <4> QED
        BY <1>1, <1>2, <1>5, PlusPetit
    <3>2. p \in Q
      <4>1. {m \in R : livraison[m].due >= livraison[p].due} = R
        BY <1>1, <1>2, <3>1
      <4> QED
        BY <2>2, <4>1 DEF Creneaux
    <3>3. PICK m \in Q : \A n \in Q : dues[n] <= dues[m]
      <4>1. Q \subseteq Livraison /\ Q # {}
        BY <1>1, <3>2
      <4> HIDE DEF dues, R, Q
      <4> QED
        BY <1>1, <1>2, <4>1, PlusGrand
    <3>4. livraison[m].due \in K /\ \A y \in K : y <= livraison[m].due
      BY <1>1, <1>2, <3>3 DEF Creneaux
    <3>5. LePlusLoin(K) \in K
      <4> HIDE DEF K
      <4> QED
        BY <3>4, LePlusLoinEst
    <3> QED
      BY <1>1, <1>2, <3>5 DEF Creneaux, Kieme
  <2>3. Espace(debit) \in Int
    BY <1>3, HooksAssumption DEF Espace
  <2>4. \A a, b \in Int : LePlusLoin({1, a, b}) \in Nat
    <3> TAKE a, b \in Int
    <3>1. PICK x \in {1, a, b} : \A y \in {1, a, b} : y <= x
      OBVIOUS
    <3> QED
      BY <3>1, LePlusLoinEst
  <2>5. Cardinality(R) \in Nat
    BY <1>1, FS_CardinalityType
  <2> DEFINE dernier == LePlusLoin(Creneaux(t, t0)) - t0
             plancher == IF Cardinality(R) >= debit THEN Kieme(t, t0, debit) + FENETRE - t0 ELSE 0
  <2>6. dernier \in Int /\ plancher \in Int
    BY <2>1, <2>2, HooksAssumption
  <2>7. retard_de_lissage(t, t0) =
          IF dernier <= 0 /\ plancher <= 0 THEN 0
          ELSE LePlusLoin({1, dernier + Espace(debit), plancher})
    BY <1>5 DEF retard_de_lissage
  <2> HIDE DEF dernier, plancher, debit
  <2> QED
    BY <2>3, <2>4, <2>6, <2>7
<1> QED
  BY <1>4, <1>5

UnTravail == [etat : {"absent", "pending", "held", "claimed", "fini"},
              trigger : Trigger \cup {NoTrigger},
              origine : {"aucune", "horloge", "hook", "main"},
              date : Nat, du : Nat, prises : Nat]

UnAgent == [kind : {"schedule", "webhook", "aucun"}, existe : BOOLEAN,
            enabled : BOOLEAN, echeance : Nat,
            max_per_day : Nat \ {0}, max_per_hour : Nat \ {0}]
UneRequete == [etape : {"repos", "eteint", "lu", "rallume", "supprime", "vide", "file_vue"},
               trigger : Trigger \cup {NoTrigger}, lu : Nat, reprise : Nat, seul : BOOLEAN]
Visee(r) == r \in UneRequete /\ (r.etape # "repos" => r.trigger \in Trigger)

LEMMA TypeNomme ==
  TypeTriggers <=> /\ now \in Nat /\ coupures \in Nat /\ gestes \in Nat
                   /\ agent \in [Trigger -> UnAgent]
                   /\ travail \in [Job -> UnTravail]
                   /\ requete \in [Usager -> UneRequete] /\ \A u \in Usager : Visee(requete[u])
                   /\ trouble \in [Trigger -> BOOLEAN] /\ manquees \in [Trigger -> SUBSET Nat]
BY DEF TypeTriggers, UnAgent, UneRequete, Visee, UnTravail

LEMMA RequeteEcrite ==
  ASSUME TypeTriggers, NEW u \in Usager, NEW r, Visee(r),
         requete' = [requete EXCEPT ![u] = r]
  PROVE  requete' \in [Usager -> UneRequete] /\ \A v \in Usager : Visee(requete'[v])
BY TypeNomme DEF Visee

LEMMA RequeteRendue == Visee(Repos)
BY DEF Visee, UneRequete, Repos

LEMMA RequeteBasculee ==
  ASSUME TypeTriggers, NEW u \in Usager, NEW t \in Trigger, NEW e \in {"eteint", "rallume"},
         Bascule(u, t, e)
  PROVE  /\ requete' \in [Usager -> UneRequete] /\ \A v \in Usager : Visee(requete'[v])
         /\ trouble' \in [Trigger -> BOOLEAN]
<1>1. requete \in [Usager -> UneRequete] /\ trouble \in [Trigger -> BOOLEAN]
      /\ \A v \in Usager : Visee(requete[v])
  BY TypeNomme
<1>2. \A v \in Usager : Visee(requete'[v])
  <2> TAKE v \in Usager
  <2>1. CASE v = u
    BY <1>1, <2>1 DEF Bascule, Repos, Visee, UneRequete
  <2>2. CASE v # u /\ v \in EnBascule(t)
    <3>1. requete'[v] = [requete[v] EXCEPT !.seul = FALSE]
      BY <2>2 DEF Bascule
    <3> QED
      BY <1>1, <3>1 DEF Visee, UneRequete
  <2>3. CASE v # u /\ v \notin EnBascule(t)
    BY <1>1, <2>3 DEF Bascule
  <2> QED
    BY <2>1, <2>2, <2>3
<1>3. trouble' \in [Trigger -> BOOLEAN]
  BY <1>1 DEF Bascule
<1>4. requete' = [v \in Usager |-> requete'[v]]
  BY DEF Bascule
<1> QED
  BY <1>2, <1>3, <1>4 DEF Visee

LEMMA BasculeFinie ==
  ASSUME TypeTriggers, NEW u \in Usager, FinBascule(u)
  PROVE  /\ requete' \in [Usager -> UneRequete] /\ \A v \in Usager : Visee(requete'[v])
         /\ trouble' \in [Trigger -> BOOLEAN]
<1>1. requete' = [requete EXCEPT ![u] = Repos]
  BY DEF FinBascule
<1>2. trouble' \in [Trigger -> BOOLEAN]
  BY TypeNomme DEF FinBascule, UneRequete
<1> QED
  BY <1>1, <1>2, RequeteEcrite, RequeteRendue

\* What is done to jobs leaves jobs.
LEMMA TravauxEnfiles ==
  ASSUME travail \in [Job -> UnTravail], NEW t \in Trigger,
         NEW o \in {"horloge", "hook", "main"}, NEW d \in Nat, NEW x \in Nat,
         enqueue_job(t, o, d, x)
  PROVE  travail' \in [Job -> UnTravail]
BY DEF enqueue_job, UnTravail

LEMMA TravauxPerimes ==
  ASSUME travail \in [Job -> UnTravail], NEW t
  PROVE  Perime(t) \in [Job -> UnTravail]
BY DEF Perime, Termine, UnTravail

\* The first slot of what is held is one of its slots.
LEMMA DepartEst ==
  ASSUME travail \in [Job -> UnTravail], NEW t, Retenus(t) # {}
  PROVE  Depart(t) \in Nat /\ \A j \in Retenus(t) : Depart(t) <= travail[j].du
<1> DEFINE dus == [j \in Job |-> travail[j].du]
           D == {travail[j].du : j \in Retenus(t)}
<1>1. Retenus(t) \subseteq Job /\ IsFiniteSet(Job)
  BY FS_Interval, TriggersAssumption DEF Retenus, Job
<1>2. \A j \in Job : dus[j] \in Int /\ dus[j] = travail[j].du /\ travail[j].du \in Nat
  BY DEF UnTravail
<1>3. PICK k \in Retenus(t) : \A j \in Retenus(t) : dus[k] <= dus[j]
  <2> HIDE DEF dus
  <2> QED
    BY <1>1, <1>2, PlusPetit
<1>4. travail[k].du \in D /\ \A j \in Retenus(t) : travail[k].du <= travail[j].du
  BY <1>1, <1>2, <1>3
<1>5. Depart(t) \in D /\ \A j \in Retenus(t) : Depart(t) <= travail[j].du
  BY <1>4 DEF Depart
<1> QED
  BY <1>1, <1>2, <1>5

LEMMA DecalageEst ==
  ASSUME travail \in [Job -> UnTravail], now \in Nat, NEW t, Retenus(t) # {}
  PROVE  Decalage(t) \in Nat
BY DepartEst DEF Decalage

LEMMA TravauxRendus ==
  ASSUME travail \in [Job -> UnTravail], now \in Nat, NEW t, Retenus(t) # {}
  PROVE  Rendus(t) \in [Job -> UnTravail]
<1>1. ASSUME NEW j \in Job PROVE Rendus(t)[j] \in UnTravail
  <2>1. travail[j] \in UnTravail /\ travail[j].du + Decalage(t) \in Nat
    BY DecalageEst DEF UnTravail
  <2>2. [travail[j] EXCEPT !.etat = "pending", !.du = @ + Decalage(t)] \in UnTravail
    BY <2>1 DEF UnTravail
  <2> QED
    BY <2>1, <2>2 DEF Rendus
<1> QED
  BY <1>1 DEF Rendus

LEMMA TypeRequetes ==
  ASSUME TypeOK, NEW u \in Usager, GesteDe(u)
  PROVE  TypeOK'
<1>0. TypeTriggers /\ TypeHooks /\ TypeClock /\ UNCHANGED <<tour, rates, livraison, derange>>
  BY DEF TypeOK, GesteDe
<1> DEFINE R == requete' \in [Usager -> UneRequete] /\ \A v \in Usager : Visee(requete'[v])
           A == /\ now' = now /\ manquees' = manquees /\ verrou' = verrou
                /\ coupures' \in Nat /\ gestes' \in Nat
           T == trouble' \in [Trigger -> BOOLEAN]
           F == travail' \in [Job -> UnTravail]
           G == agent' \in [Trigger -> UnAgent]
<1>1. /\ now \in Nat /\ coupures \in Nat /\ gestes \in Nat
      /\ agent \in [Trigger -> UnAgent] /\ travail \in [Job -> UnTravail]
      /\ requete \in [Usager -> UneRequete] /\ Visee(requete[u])
      /\ trouble \in [Trigger -> BOOLEAN] /\ manquees \in [Trigger -> SUBSET Nat]
  BY <1>0, TypeNomme
<1>2. ASSUME NEW t \in Trigger, NEW e \in {"lu", "supprime", "vide", "file_vue"}, NEW n \in Nat,
             NEW x \in Nat
      PROVE  Visee([Repos EXCEPT !.etape = e, !.trigger = t, !.lu = n, !.reprise = x])
             /\ Visee([Repos EXCEPT !.etape = e, !.trigger = t])
  BY DEF Visee, UneRequete, Repos
<1>3. ASSUME A, R, T, F, G PROVE TypeOK'
  <2>1. TypeTriggers'
    BY <1>1, <1>3 DEF TypeTriggers, UnAgent, UneRequete, Visee, UnTravail
  <2>2. TypeHooks' /\ TypeClock'
    BY <1>0, <1>3 DEF TypeHooks, TypeClock
  <2> QED
    BY <2>1, <2>2 DEF TypeOK
<1>4. ASSUME NEW t \in Touches, eteindre(u, t) PROVE A /\ R /\ T /\ F /\ G
  <2>1. t \in Trigger
    BY TriggersAssumption
  <2>2. R /\ T
    BY <1>0, <1>4, <2>1, RequeteBasculee DEF eteindre
  <2>3. G
    <3>1. [agent[t] EXCEPT !.enabled = FALSE] \in UnAgent
      BY <1>1, <2>1 DEF UnAgent
    <3>2. agent' = [agent EXCEPT ![t] = [agent[t] EXCEPT !.enabled = FALSE]]
      BY <1>1, <1>4, <2>1 DEF eteindre
    <3> QED
      BY <1>1, <3>1, <3>2
  <2> QED
    BY <1>1, <1>4, <2>2, <2>3 DEF eteindre, Commence
<1>5. ASSUME NEW t \in Touches, lire_agent(u, t) PROVE A /\ R /\ T /\ F /\ G
  <2>1. t \in Trigger /\ EcheanceReprise(t) \in Nat
    BY <1>1, TriggersAssumption, ApresEstApres DEF EcheanceReprise
  <2>2. R
    BY <1>0, <1>1, <1>2, <1>5, <2>1, RequeteEcrite DEF lire_agent
  <2> QED
    BY <1>1, <1>5, <2>2 DEF lire_agent, Commence
<1>6. ASSUME NEW t \in Touches, delete_trigger(u, t) PROVE A /\ R /\ T /\ F /\ G
  <2>1. t \in Trigger
    BY TriggersAssumption
  <2>2. R
    BY <1>0, <1>2, <1>6, <2>1, RequeteEcrite DEF delete_trigger
  <2>3. G
    <3>1. [agent[t] EXCEPT !.existe = FALSE, !.enabled = FALSE] \in UnAgent
      BY <1>1, <2>1 DEF UnAgent
    <3>2. agent' = [agent EXCEPT ![t] = [agent[t] EXCEPT !.existe = FALSE, !.enabled = FALSE]]
      BY <1>1, <1>6, <2>1 DEF delete_trigger, UnAgent
    <3> QED
      BY <1>1, <3>1, <3>2
  <2> QED
    BY <1>1, <1>6, <2>2, <2>3 DEF delete_trigger, Commence
<1>7. ASSUME NEW t \in Touches, clear_queue(u, t) PROVE A /\ R /\ T /\ F /\ G
  <2>1. F
    BY <1>1, <1>7, TravauxPerimes DEF clear_queue, perimer_travaux_du_declencheur
  <2>2. R
    BY <1>0, <1>2, <1>7, TriggersAssumption, RequeteEcrite DEF clear_queue
  <2> QED
    BY <1>1, <1>7, <2>1, <2>2 DEF clear_queue, Commence
<1>8. ASSUME NEW t \in Touches, file_du_declencheur(u, t) PROVE A /\ R /\ T /\ F /\ G
  <2>1. R
    BY <1>0, <1>2, <1>8, TriggersAssumption, RequeteEcrite DEF file_du_declencheur
  <2> QED
    BY <1>1, <1>8, <2>1 DEF file_du_declencheur, Commence
<1>9. ASSUME apres_eteindre(u) PROVE A /\ R /\ T /\ F /\ G
  <2>1. F
    <3>1. CASE travail' = Perime(requete[u].trigger)
      BY <1>1, <3>1, TravauxPerimes
    <3>2. CASE suspendre_la_file(requete[u].trigger)
      BY <1>1, <3>2 DEF suspendre_la_file, UnTravail
    <3> QED
      BY <1>9, <3>1, <3>2 DEF apres_eteindre, perimer_travaux_du_declencheur
  <2>2. R /\ T
    BY <1>0, <1>9, BasculeFinie DEF apres_eteindre
  <2> QED
    BY <1>1, <1>9, <2>1, <2>2 DEF apres_eteindre
<1>10. ASSUME rallumer(u) PROVE A /\ R /\ T /\ F /\ G
  <2>1. requete[u].trigger \in Trigger /\ requete[u].reprise \in Nat
    BY <1>1, <1>10 DEF rallumer, Visee, UneRequete
  <2>2. G
    <3> DEFINE t == requete[u].trigger
               e == IF requete[u].reprise = 0 THEN agent[t].echeance ELSE requete[u].reprise
    <3>1. [agent[t] EXCEPT !.enabled = TRUE, !.echeance = e] \in UnAgent
      <4>1. agent[t] \in UnAgent
        BY <1>1, <2>1
      <4>2. e \in Nat
        BY <2>1, <4>1 DEF UnAgent
      <4> HIDE DEF t, e
      <4> QED
        BY <4>1, <4>2 DEF UnAgent
    <3>2. \/ agent' = [agent EXCEPT ![t] = [agent[t] EXCEPT !.enabled = TRUE, !.echeance = e]]
          \/ agent' = agent
      BY <1>1, <1>10, <2>1 DEF rallumer, UnAgent
    <3> QED
      BY <1>1, <3>1, <3>2
  <2>3. R /\ T
    <3>1. CASE Bascule(u, requete[u].trigger, "rallume")
      BY <1>0, <2>1, <3>1, RequeteBasculee
    <3>2. CASE requete' = [requete EXCEPT ![u] = Repos] /\ UNCHANGED trouble
      BY <1>0, <1>1, <3>2, RequeteEcrite, RequeteRendue
    <3> QED
      BY <1>10, <3>1, <3>2 DEF rallumer
  <2> QED
    BY <1>1, <1>10, <2>2, <2>3 DEF rallumer
<1>11. ASSUME apres_supprimer(u) PROVE A /\ R /\ T /\ F /\ G
  <2>1. F
    BY <1>1, <1>11, TravauxPerimes DEF apres_supprimer, perimer_travaux_du_declencheur
  <2>2. R
    BY <1>0, <1>11, RequeteEcrite, RequeteRendue DEF apres_supprimer
  <2> QED
    BY <1>1, <1>11, <2>1, <2>2 DEF apres_supprimer
<1>12. ASSUME run_now(u) PROVE A /\ R /\ T /\ F /\ G
  <2>1. requete[u].trigger \in Trigger
    BY <1>1, <1>12 DEF run_now, Visee, UneRequete
  <2>2. F
    BY <1>1, <1>12, <2>1, TravauxEnfiles DEF run_now
  <2>3. R
    BY <1>0, <1>12, RequeteEcrite, RequeteRendue DEF run_now
  <2> QED
    BY <1>1, <1>12, <2>2, <2>3 DEF run_now
<1>13. ASSUME couper(u) PROVE A /\ R /\ T /\ F /\ G
  <2>1. R
    BY <1>0, <1>13, RequeteEcrite, RequeteRendue DEF couper
  <2>2. T
    BY <1>1, <1>13 DEF couper
  <2> QED
    BY <1>1, <1>13, <2>1, <2>2 DEF couper
<1> HIDE DEF A, R, T, F, G
<1> QED
  BY <1>3, <1>4, <1>5, <1>6, <1>7, <1>8, <1>9, <1>10, <1>11, <1>12, <1>13 DEF GesteDe, Requete

UneLivraison == [etape : {"absente", "lue", "jugee", "acceptee"},
                 trigger : Trigger \cup {NoTrigger}, externe : Identifiant \cup {NoId},
                 t0 : Nat, retard : Nat, due : Nat \cup {NULL}, recu : Nat]
Portee(r) == r \in UneLivraison /\ (r.etape # "absente" => r.trigger \in Trigger)

LEMMA CrochetsNommes ==
  TypeHooks <=> /\ verrou \in [Trigger -> Livraison \cup {Personne}]
                /\ derange \in [Trigger -> BOOLEAN]
                /\ livraison \in [Livraison -> UneLivraison]
                /\ \A l \in Livraison : Portee(livraison[l])
BY DEF TypeHooks, UneLivraison, Portee

LEMMA LivraisonEcrite ==
  ASSUME TypeHooks, NEW l \in Livraison, NEW r, Portee(r),
         livraison' = [livraison EXCEPT ![l] = r]
  PROVE  livraison' \in [Livraison -> UneLivraison] /\ \A m \in Livraison : Portee(livraison'[m])
BY CrochetsNommes DEF Portee

\* A step of the workers, or of a request that gives a file back, keeps the types.
LEMMA TypeFile ==
  ASSUME TypeOK, NEW u \in Usager, SurLaFile(u)
  PROVE  TypeOK'
<1>0. TypeTriggers /\ TypeHooks /\ TypeClock /\ UNCHANGED <<tour, rates>>
      /\ UNCHANGED <<now, agent, verrou, manquees, coupures, gestes>>
  BY DEF TypeOK, SurLaFile, File, reprendre_la_file, liberer_les_creneaux
<1>1. /\ now \in Nat /\ travail \in [Job -> UnTravail] /\ trouble \in [Trigger -> BOOLEAN]
      /\ requete \in [Usager -> UneRequete] /\ Visee(requete[u])
      /\ derange \in [Trigger -> BOOLEAN]
      /\ livraison \in [Livraison -> UneLivraison] /\ \A l \in Livraison : Portee(livraison[l])
  BY <1>0, TypeNomme, CrochetsNommes
<1> DEFINE R == requete' \in [Usager -> UneRequete] /\ \A v \in Usager : Visee(requete'[v])
           T == trouble' \in [Trigger -> BOOLEAN]
           F == travail' \in [Job -> UnTravail]
           D == derange' \in [Trigger -> BOOLEAN]
           L == /\ livraison' \in [Livraison -> UneLivraison]
                /\ \A m \in Livraison : Portee(livraison'[m])
<1>2. ASSUME R, T, F, D, L PROVE TypeOK'
  <2>1. TypeTriggers'
    BY <1>0, <1>2 DEF TypeTriggers, UnAgent, UneRequete, Visee, UnTravail
  <2>2. TypeHooks'
    BY <1>0, <1>2 DEF TypeHooks, UneLivraison, Portee
  <2>3. TypeClock'
    BY <1>0 DEF TypeClock
  <2> QED
    BY <2>1, <2>2, <2>3 DEF TypeOK
<1>3. ASSUME reprendre_la_file(u) PROVE R /\ T /\ F /\ D /\ L
  <2> DEFINE t == requete[u].trigger
  <2>1. R /\ T
    BY <1>0, <1>3, BasculeFinie DEF reprendre_la_file
  <2>2. D
    BY <1>1, <1>3 DEF reprendre_la_file
  <2>3. CASE Retenus(t) = {}
    <3>1. F /\ L
      BY <1>1, <1>3, <2>3 DEF reprendre_la_file
    <3> QED
      BY <2>1, <2>2, <3>1
  <2>4. CASE Retenus(t) # {}
    <3>1. F
      BY <1>1, <1>3, <2>4, TravauxRendus DEF reprendre_la_file
    <3>2. Decalage(t) \in Nat
      BY <1>1, <2>4, DecalageEst
    <3>3. ASSUME NEW l \in Livraison, livraison[l].due # NULL
          PROVE  Portee([livraison[l] EXCEPT !.due = @ + Decalage(t)])
      <4>1. livraison[l].due + Decalage(t) \in Nat
        BY <1>1, <3>2, <3>3 DEF UneLivraison
      <4> QED
        BY <1>1, <4>1 DEF Portee, UneLivraison
    <3>4. \A l \in Livraison : Portee(CreneauxDecales(t)[l])
      BY <1>1, <3>3 DEF CreneauxDecales
    <3>5. livraison' = CreneauxDecales(t)
      BY <1>3, <2>4 DEF reprendre_la_file
    <3>6. L
      BY <3>4, <3>5 DEF CreneauxDecales, Portee
    <3> QED
      BY <2>1, <2>2, <3>1, <3>6
  <2> QED
    BY <2>3, <2>4
<1>4. ASSUME liberer_les_creneaux(u) PROVE R /\ T /\ F /\ D /\ L
  <2>1. R
    BY <1>0, <1>4, RequeteEcrite, RequeteRendue DEF liberer_les_creneaux
  <2>2. \A l \in Livraison : Portee([livraison[l] EXCEPT !.due = NULL])
    BY <1>1 DEF Portee, UneLivraison
  <2>3. L
    <3>1. \A l \in Livraison : Portee(livraison'[l])
      BY <1>1, <1>4, <2>2 DEF liberer_les_creneaux
    <3> QED
      BY <1>4, <3>1 DEF liberer_les_creneaux, Portee
  <2>4. D
    BY <1>1, <1>4 DEF liberer_les_creneaux
  <2> QED
    BY <1>1, <1>4, <2>1, <2>3, <2>4 DEF liberer_les_creneaux
<1> HIDE DEF R, T, F, D, L
<1> QED
  BY <1>2, <1>3, <1>4 DEF SurLaFile, File

LEMMA TypeTravail ==
  ASSUME TypeOK, NEW j \in Job, TravailDe(j)
  PROVE  TypeOK'
<1>0. TypeTriggers /\ TypeHooks /\ TypeClock /\ UNCHANGED <<tour, rates, livraison, derange>>
      /\ UNCHANGED <<now, agent, verrou, requete, trouble, manquees, coupures, gestes>>
  BY DEF TypeOK, TravailDe, Travailleur, claim_next_job, complete_job, rendre_a_la_file
<1>1. travail \in [Job -> UnTravail]
  BY <1>0, TypeNomme
<1>2. travail' \in [Job -> UnTravail]
  <2>1. travail[j] \in UnTravail
    BY <1>1
  <2>2. [travail[j] EXCEPT !.etat = "claimed", !.prises = travail[j].prises + 1] \in UnTravail
    <3>1. travail[j].prises + 1 \in Nat
      BY <2>1 DEF UnTravail
    <3> QED
      BY <2>1, <3>1 DEF UnTravail
  <2>3. [travail[j] EXCEPT !.etat = "pending"] \in UnTravail
    BY <2>1 DEF UnTravail
  <2>4. Termine(j) \in UnTravail
    BY <2>1 DEF UnTravail, Termine
  <2>5. \E x \in UnTravail : travail' = [travail EXCEPT ![j] = x]
    <3>1. CASE claim_next_job(j)
      <4>1. travail' = [travail EXCEPT ![j] = [travail[j] EXCEPT !.etat = "claimed",
                                              !.prises = travail[j].prises + 1]]
        BY <1>1, <3>1 DEF claim_next_job, UnTravail
      <4> QED
        BY <2>2, <4>1
    <3>2. CASE complete_job(j)
      BY <2>4, <3>2 DEF complete_job
    <3>3. CASE rendre_a_la_file(j)
      <4>1. travail' = [travail EXCEPT ![j] = [travail[j] EXCEPT !.etat = "pending"]]
        BY <1>1, <3>3 DEF rendre_a_la_file, UnTravail
      <4> QED
        BY <2>3, <4>1
    <3> QED
      BY <3>1, <3>2, <3>3 DEF TravailDe, Travailleur
  <2> QED
    BY <1>1, <2>5
<1>3. TypeTriggers'
  BY <1>0, <1>2 DEF TypeTriggers, UnTravail
<1>4. TypeHooks' /\ TypeClock'
  BY <1>0 DEF TypeHooks, TypeClock
<1> QED
  BY <1>3, <1>4 DEF TypeOK

UneLigne == [trigger : Trigger \cup {NoTrigger}, echeance : Nat]
UnTour == [etape : {"repos", "boucle", "consommee", "perimee"}, ligne : UneLigne,
           reste : SUBSET [trigger : Trigger, echeance : Nat], lu : Nat]
Menee(r) == r \in UnTour /\ (r.etape \in {"consommee", "perimee"} => r.ligne.trigger \in Trigger)

LEMMA HorlogesNommees ==
  TypeClock <=> /\ tour \in [Horloge -> UnTour] /\ rates \in [Trigger -> Nat]
                /\ \A h \in Horloge : Menee(tour[h])
BY DEF TypeClock, UneLigne, UnTour, Menee

LEMMA TourEcrit ==
  ASSUME TypeClock, NEW h \in Horloge, NEW r, Menee(r), tour' = [tour EXCEPT ![h] = r]
  PROVE  tour' \in [Horloge -> UnTour] /\ \A g \in Horloge : Menee(tour'[g])
BY HorlogesNommees DEF Menee

\* What is left of a turn is a turn.
LEMMA SuiteEcrite ==
  ASSUME TypeClock, NEW h \in Horloge, NEW r, r \subseteq tour[h].reste, Suite(h, r)
  PROVE  tour' \in [Horloge -> UnTour] /\ \A g \in Horloge : Menee(tour'[g])
<1>1. tour[h] \in UnTour
  BY HorlogesNommees
<1>2. Menee(Attente)
  BY DEF Menee, UnTour, UneLigne, Attente, NoLigne
<1>3. Menee([etape |-> "boucle", ligne |-> NoLigne, reste |-> r, lu |-> tour[h].lu])
  BY <1>1 DEF Menee, UnTour, UneLigne, NoLigne
<1> QED
  BY <1>2, <1>3, TourEcrit DEF Suite

LEMMA TypeTours ==
  ASSUME TypeOK, NEW h \in Horloge, TourDe(h) \/ AccidentDe(h)
  PROVE  TypeOK'
<1>0. TypeTriggers /\ TypeHooks /\ TypeClock
      /\ UNCHANGED <<now, verrou, requete, trouble, manquees, gestes, livraison, derange>>
  BY DEF TypeOK, TourDe, AccidentDe, _tick, due_triggers, Boucle, cron_inevaluable, consume_due,
         _occurrence_sautee, Perimer, Enfiler, tomber, base
<1>1. /\ now \in Nat /\ coupures \in Nat /\ agent \in [Trigger -> UnAgent]
      /\ travail \in [Job -> UnTravail]
      /\ tour \in [Horloge -> UnTour] /\ Menee(tour[h]) /\ rates \in [Trigger -> Nat]
  BY <1>0, TypeNomme, HorlogesNommees
<1> DEFINE C == tour' \in [Horloge -> UnTour] /\ \A g \in Horloge : Menee(tour'[g])
           R == rates' \in [Trigger -> Nat] /\ coupures' \in Nat
           F == travail' \in [Job -> UnTravail]
           G == agent' \in [Trigger -> UnAgent]
<1>2. ASSUME C, R, F, G PROVE TypeOK'
  <2>1. TypeTriggers'
    BY <1>0, <1>2 DEF TypeTriggers, UnAgent, UnTravail
  <2>2. TypeHooks'
    BY <1>0 DEF TypeHooks
  <2>3. TypeClock'
    BY <1>2 DEF TypeClock, UnTour, UneLigne, Menee
  <2> QED
    BY <2>1, <2>2, <2>3 DEF TypeOK
<1>3. ASSUME due_triggers(h) PROVE C /\ R /\ F /\ G
  <2>1. PICK S \in SUBSET Trigger :
          tour' = [tour EXCEPT ![h] = [Attente EXCEPT !.etape = "boucle", !.lu = now,
            !.reste = {[trigger |-> s, echeance |-> agent[s].echeance] : s \in S}]]
    BY <1>3 DEF due_triggers
  <2>2. {[trigger |-> s, echeance |-> agent[s].echeance] : s \in S}
          \subseteq [trigger : Trigger, echeance : Nat]
    BY <1>1 DEF UnAgent
  <2>3. Menee([Attente EXCEPT !.etape = "boucle", !.lu = now,
            !.reste = {[trigger |-> s, echeance |-> agent[s].echeance] : s \in S}])
    BY <1>1, <2>2 DEF Menee, UnTour, UneLigne, Attente, NoLigne
  <2>4. C
    BY <1>0, <2>1, <2>3, TourEcrit
  <2> QED
    BY <1>1, <1>3, <2>4 DEF due_triggers, base
<1>4. ASSUME NEW x \in tour[h].reste, consume_due(h, x) PROVE C /\ R /\ F /\ G
  <2>1. x \in [trigger : Trigger, echeance : Nat]
    BY <1>1 DEF UnTour
  <2>2. CASE Gagne(x.trigger)
    <3>1. tour' = [tour EXCEPT ![h] = [tour[h] EXCEPT !.etape = "consommee", !.ligne = x,
                                                      !.reste = tour[h].reste \ {x}]]
      BY <1>1, <1>4, <2>2 DEF consume_due, UnTour
    <3>2. Menee([tour[h] EXCEPT !.etape = "consommee", !.ligne = x,
                                !.reste = tour[h].reste \ {x}])
      BY <1>1, <2>1 DEF Menee, UnTour, UneLigne
    <3>3. C
      BY <1>0, <3>1, <3>2, TourEcrit
    <3>4. G
      BY <1>1, <1>4, <2>1, <2>2, ApresEstApres DEF consume_due, UnAgent
    <3> QED
      BY <1>1, <1>4, <3>3, <3>4 DEF consume_due
  <2>3. CASE ~Gagne(x.trigger)
    <3>1. C
      BY <1>0, <1>4, <2>3, SuiteEcrite DEF consume_due
    <3> QED
      BY <1>1, <1>4, <2>3, <3>1 DEF consume_due
  <2> QED
    BY <2>2, <2>3
<1>5. ASSUME NEW x \in tour[h].reste, cron_inevaluable(h, x) PROVE C /\ R /\ F /\ G
  <2>1. C
    BY <1>0, <1>5, SuiteEcrite DEF cron_inevaluable
  <2> QED
    BY <1>1, <1>5, <2>1 DEF cron_inevaluable, base
<1>6. ASSUME _occurrence_sautee(h) PROVE C /\ R /\ F /\ G
  <2>1. C
    BY <1>0, <1>6, SuiteEcrite DEF _occurrence_sautee
  <2> QED
    BY <1>1, <1>6, <2>1 DEF _occurrence_sautee, base
<1>7. ASSUME Perimer(h) PROVE C /\ R /\ F /\ G
  <2>1. tour' = [tour EXCEPT ![h] = [tour[h] EXCEPT !.etape = "perimee"]]
    BY <1>1, <1>7 DEF Perimer, UnTour
  <2>2. Menee([tour[h] EXCEPT !.etape = "perimee"]) /\ tour[h].ligne.trigger \in Trigger
    BY <1>1, <1>7 DEF Perimer, Menee, UnTour
  <2>3. C
    BY <1>0, <2>1, <2>2, TourEcrit
  <2>4. F
    BY <1>1, <1>7, TravauxPerimes DEF Perimer, perimer_travaux_du_declencheur
  <2>5. rates' \in [Trigger -> Nat]
    BY <1>1, <1>7, <2>2 DEF Perimer
  <2> QED
    BY <1>1, <1>7, <2>3, <2>4, <2>5 DEF Perimer
<1>8. ASSUME Enfiler(h) PROVE C /\ R /\ F /\ G
  <2>1. tour[h].ligne.trigger \in Trigger /\ tour[h].ligne.echeance \in Nat
    BY <1>1, <1>8 DEF Enfiler, Menee, UnTour, UneLigne
  <2>2. F
    BY <1>1, <1>8, <2>1, TravauxEnfiles DEF Enfiler
  <2>3. C
    BY <1>0, <1>8, SuiteEcrite DEF Enfiler
  <2> QED
    BY <1>1, <1>8, <2>2, <2>3 DEF Enfiler
<1>9. ASSUME tomber(h) PROVE C /\ R /\ F /\ G
  <2>1. Menee(Attente)
    BY DEF Menee, UnTour, UneLigne, Attente, NoLigne
  <2>2. C
    BY <1>0, <1>9, <2>1, TourEcrit DEF tomber
  <2> QED
    BY <1>1, <1>9, <2>2 DEF tomber
<1> HIDE DEF C, R, F, G
<1> QED
  BY <1>2, <1>3, <1>4, <1>5, <1>6, <1>7, <1>8, <1>9 DEF TourDe, AccidentDe, _tick, Boucle

LEMMA TypeLivraisons ==
  ASSUME TypeOK, NEW l \in Livraison, Appel(l) \/ Rejet(l)
  PROVE  TypeOK'
<1>0. TypeTriggers /\ TypeHooks /\ TypeClock
      /\ UNCHANGED <<now, agent, requete, trouble, manquees, coupures, gestes, derange>>
      /\ UNCHANGED <<tour, rates>>
  BY DEF TypeOK, Appel, Rejet, Recue, recevoir, Juger, Enregistrer, Perdre, base
<1>1. /\ now \in Nat /\ agent \in [Trigger -> UnAgent] /\ travail \in [Job -> UnTravail]
      /\ verrou \in [Trigger -> Livraison \cup {Personne}]
      /\ livraison[l] \in UneLivraison /\ Portee(livraison[l])
  BY <1>0, TypeNomme, CrochetsNommes
<1> DEFINE L == /\ livraison' \in [Livraison -> UneLivraison]
                /\ \A m \in Livraison : Portee(livraison'[m])
           V == verrou' \in [Trigger -> Livraison \cup {Personne}]
           F == travail' \in [Job -> UnTravail]
<1>2. ASSUME L, V, F PROVE TypeOK'
  <2>1. TypeTriggers'
    BY <1>0, <1>2 DEF TypeTriggers, UnTravail
  <2>2. TypeHooks'
    BY <1>0, <1>2 DEF TypeHooks, UneLivraison, Portee
  <2>3. TypeClock'
    BY <1>0 DEF TypeClock
  <2> QED
    BY <2>1, <2>2, <2>3 DEF TypeOK
<1>3. Portee(Nouvelle)
  BY DEF Portee, UneLivraison, Nouvelle
<1>4. ASSUME NEW t \in Trigger, NEW id \in Identifiant \cup {NoId}, recevoir(l, t, id)
      PROVE  L /\ V /\ F
  <2>1. Portee([Nouvelle EXCEPT !.etape = "lue", !.trigger = t, !.externe = id, !.t0 = now])
    BY <1>1 DEF Portee, UneLivraison, Nouvelle
  <2>2. L
    BY <1>0, <1>4, <2>1, LivraisonEcrite DEF recevoir
  <2> QED
    BY <1>1, <1>4, <2>2 DEF recevoir, base
<1>5. ASSUME NEW t0 \in livraison[l].t0 .. now, Juger(l, t0) PROVE L /\ V /\ F
  <2> DEFINE t == livraison[l].trigger
             r == retard_de_lissage(t, t0)
  <2>1. t0 \in Nat /\ t \in Trigger
    BY <1>1, <1>5 DEF Juger, Portee, UneLivraison
  <2>2. r \in Nat
    BY <2>1, RetardEstUnNombre
  <2>3. Portee([livraison[l] EXCEPT !.etape = "jugee", !.t0 = t0, !.retard = r])
    BY <1>1, <2>1, <2>2 DEF Portee, UneLivraison
  <2>4. \/ Refusee(l) /\ UNCHANGED verrou
        \/ /\ livraison' = [livraison EXCEPT ![l] =
                 [livraison[l] EXCEPT !.etape = "jugee", !.t0 = t0, !.retard = r]]
           /\ verrouiller_le_declencheur(l)
    <3>1. livraison \in [Livraison -> UneLivraison]
      BY <1>0, CrochetsNommes
    <3> QED
      BY <1>5, <3>1 DEF Juger, UneLivraison
  <2>5. L
    BY <1>0, <1>3, <2>3, <2>4, LivraisonEcrite DEF Refusee
  <2>6. V
    BY <1>1, <2>4 DEF verrouiller_le_declencheur
  <2> QED
    BY <1>1, <1>5, <2>5, <2>6 DEF Juger
<1>6. ASSUME Enregistrer(l) PROVE L /\ V /\ F
  <2> DEFINE due == livraison[l].t0 + livraison[l].retard
  <2>1. livraison[l].trigger \in Trigger /\ due \in Nat
    BY <1>1, <1>6 DEF Enregistrer, Portee, UneLivraison
  <2>2. F
    BY <1>1, <1>6, <2>1, TravauxEnfiles DEF Enregistrer
  <2>3. Portee([Nouvelle EXCEPT !.etape = "acceptee", !.trigger = livraison[l].trigger,
                 !.externe = livraison[l].externe, !.due = due, !.recu = livraison[l].t0])
    BY <1>1, <2>1 DEF Portee, UneLivraison, Nouvelle
  <2>4. L
    BY <1>0, <1>6, <2>3, LivraisonEcrite DEF Enregistrer
  <2>5. V
    BY <1>1, <1>6 DEF Enregistrer, Rendu
  <2> QED
    BY <2>2, <2>4, <2>5
<1>7. ASSUME Perdre(l) PROVE L /\ V /\ F
  <2>1. L
    BY <1>0, <1>3, <1>7, LivraisonEcrite DEF Perdre, Refusee
  <2> QED
    BY <1>1, <1>7, <2>1 DEF Perdre, Rendu
<1> HIDE DEF L, V, F
<1> QED
  BY <1>2, <1>4, <1>5, <1>6, <1>7 DEF Appel, Rejet, Recue

LEMMA TypeTemps ==
  ASSUME TypeOK, Temps
  PROVE  TypeOK'
<1>1. /\ now' \in Nat
      /\ manquees' \in [Trigger -> SUBSET Nat]
  BY DEF TypeOK, TypeTriggers, Temps, Tic
<1> QED
  BY <1>1 DEF TypeOK, TypeTriggers, TypeClock, TypeHooks, Temps, Tic

LEMMA PasTypes ==
  ASSUME TypeOK, [Next]_vars
  PROVE  TypeOK'
<1>1. CASE UNCHANGED vars
  BY <1>1 DEF vars, base, TypeOK, TypeTriggers, TypeClock, TypeHooks
<1> QED
  BY <1>1, TypeRequetes, TypeFile, TypeTravail, TypeTours, TypeLivraisons, TypeTemps DEF Next

\* Every row, job, request, turn and delivery keeps its type: whatever is interleaved, a
\* request, a turn or a delivery in progress is about an agent, and a delay is a number.
THEOREM TypeCorrect == Spec => []TypeOK
<1>1. Init => TypeOK
  <2> SUFFICES ASSUME Init PROVE TypeOK
    OBVIOUS
  <2>1. agent \in [Trigger -> UnAgent]
    <3>1. PICK k \in Departs :
            agent = [t \in Trigger |->
                  [kind |-> k[t].kind, max_per_day |-> k[t].max_per_day,
                   max_per_hour |-> k[t].max_per_hour,
                   existe |-> k[t].kind # "aucun", enabled |-> k[t].kind # "aucun",
                   echeance |-> IF k[t].kind = "schedule" THEN Apres(0) ELSE 0]]
      BY DEF Init, InitTriggers
    <3>2. Apres(0) \in Nat
      BY ApresEstApres
    <3> QED
      BY <3>1, <3>2, TriggersAssumption DEF UnAgent
  <2>2. TypeTriggers
    <3>1. Vierge \in UnTravail
      BY DEF Vierge, UnTravail
    <3> QED
      BY <2>1, <3>1, TypeNomme, RequeteRendue DEF Init, InitTriggers, Visee
  <2>3. TypeClock
    BY HorlogesNommees DEF Init, InitClock, Attente, NoLigne, Menee, UnTour, UneLigne
  <2>4. TypeHooks
    BY DEF Init, InitHooks, InitTriggers, Nouvelle, TypeHooks
  <2> QED
    BY <2>2, <2>3, <2>4 DEF TypeOK
<1>2. TypeOK /\ [Next]_vars => TypeOK'
  BY PasTypes
<1> QED
  BY <1>1, <1>2, PTL DEF Spec

-----------------------------------------------------------------------------
(* What a step does to jobs, deliveries and agents. *)

\* A job that is already there changes its state, not what it is; only the file of a webhook
\* is frozen, and only a take counts as one.
Suivi(j) ==
  /\ travail'[j].trigger = travail[j].trigger /\ travail'[j].origine = travail[j].origine
  /\ travail'[j].date = travail[j].date
  /\ travail'[j].etat = "held" =>
       \/ travail[j].etat = "held"
       \/ travail[j].trigger \in Trigger /\ agent[travail[j].trigger].kind = "webhook"
  /\ travail'[j].etat = "pending" =>
       travail[j].etat \in {"pending", "held", "claimed"} /\ travail'[j].prises = travail[j].prises
  /\ travail'[j].etat = "claimed" =>
       \/ travail'[j].prises > 0
       \/ travail[j].etat = "claimed" /\ travail'[j].prises = travail[j].prises
  /\ travail'[j].etat = "absent" <=> travail[j].etat = "absent"

Enfile(j, t, o, d) ==
  /\ j = Prochain /\ travail'[j].trigger = t /\ travail'[j].origine = o /\ travail'[j].date = d
  /\ travail'[j].etat = "pending"

LEMMA EnfilerEst ==
  ASSUME travail \in [Job -> UnTravail], NEW t, NEW o, NEW d, NEW x, enqueue_job(t, o, d, x),
         NEW j \in Job
  PROVE  travail'[j] = travail[j] \/ Enfile(j, t, o, d)
BY DEF enqueue_job, Enfile

LEMMA PerimerEst ==
  ASSUME travail \in [Job -> UnTravail], NEW t, travail' = Perime(t), NEW j \in Job
  PROVE  Suivi(j)
BY DEF Perime, Termine, Suivi, UnTravail

LEMMA PasDesTravaux ==
  ASSUME TypeOK, [Next]_vars, NEW j \in Job
  PROVE  \/ Suivi(j)
         \/ \E u \in Usager : run_now(u) /\ Enfile(j, requete[u].trigger, "main", 0)
         \/ \E h \in Horloge :
              Enfiler(h) /\ Enfile(j, tour[h].ligne.trigger, "horloge", tour[h].ligne.echeance)
         \/ \E l \in Livraison : Enregistrer(l) /\ Enfile(j, livraison[l].trigger, "hook", 0)
<1>1. travail \in [Job -> UnTravail]
  BY TypeNomme DEF TypeOK
<1>2. ASSUME travail' = travail PROVE Suivi(j)
  BY <1>2 DEF Suivi
<1>3. ASSUME NEW t, travail' = Perime(t) PROVE Suivi(j)
  BY <1>1, <1>3, PerimerEst
<1>4. CASE UNCHANGED vars
  BY <1>2, <1>4 DEF vars, base
<1>5. ASSUME NEW u \in Usager, GesteDe(u), ~ run_now(u) PROVE Suivi(j)
  <2>1. CASE apres_eteindre(u)
    <3>1. CASE suspendre_la_file(requete[u].trigger) /\ agent[requete[u].trigger].kind = "webhook"
      <4>1. requete[u].trigger \in Trigger
        BY <2>1 DEF apres_eteindre, TypeOK, TypeTriggers
      <4> QED
        BY <1>1, <3>1, <4>1 DEF suspendre_la_file, Suivi, UnTravail
    <3> QED
      BY <1>3, <2>1, <3>1 DEF apres_eteindre, perimer_travaux_du_declencheur
  <2> QED
    BY <1>2, <1>3, <1>5, <2>1
    DEF GesteDe, Requete, eteindre, lire_agent, delete_trigger, clear_queue, file_du_declencheur,
        rallumer, apres_supprimer, couper, perimer_travaux_du_declencheur
<1>6. ASSUME NEW u \in Usager, SurLaFile(u) PROVE Suivi(j)
  <2>1. CASE travail' = Rendus(requete[u].trigger)
    <3> DEFINE s == requete[u].trigger
    <3>1. travail[j] \in UnTravail
      BY <1>1
    <3>2. CASE j \in Retenus(s)
      <4>1. travail'[j] = [travail[j] EXCEPT !.etat = "pending",
                                             !.du = travail[j].du + Decalage(s)]
        BY <2>1, <3>2 DEF Rendus
      <4> QED
        BY <3>1, <3>2, <4>1 DEF Suivi, Retenus, UnTravail
    <3>3. CASE j \notin Retenus(s)
      <4>1. travail'[j] = travail[j]
        BY <2>1, <3>3 DEF Rendus
      <4> QED
        BY <4>1 DEF Suivi
    <3> QED
      BY <3>2, <3>3
  <2> QED
    BY <1>2, <1>6, <2>1 DEF SurLaFile, File, reprendre_la_file, liberer_les_creneaux
<1>7. ASSUME NEW k \in Job, TravailDe(k) PROVE Suivi(j)
  <2>1. travail[j] \in UnTravail /\ travail[k] \in UnTravail
    BY <1>1
  <2>2. CASE claim_next_job(k)
    <3>1. travail' = [travail EXCEPT ![k] = [travail[k] EXCEPT !.etat = "claimed",
                                             !.prises = travail[k].prises + 1]]
      BY <1>1, <2>2 DEF claim_next_job, UnTravail
    <3>2. CASE j = k
      <4>1. /\ travail'[j].trigger = travail[j].trigger /\ travail'[j].origine = travail[j].origine
            /\ travail'[j].date = travail[j].date /\ travail'[j].etat = "claimed"
            /\ travail'[j].prises = travail[j].prises + 1
        BY <1>1, <2>1, <3>1, <3>2 DEF UnTravail
      <4>2. travail'[j].prises > 0
        BY <2>1, <4>1 DEF UnTravail
      <4>3. travail[j].etat = "pending"
        BY <2>2, <3>2 DEF claim_next_job
      <4> QED
        BY <4>1, <4>2, <4>3 DEF Suivi
    <3>3. CASE j # k
      BY <1>1, <3>1, <3>3 DEF Suivi
    <3> QED
      BY <3>2, <3>3
  <2>3. CASE complete_job(k)
    BY <1>1, <2>1, <2>3 DEF complete_job, Termine, Suivi, UnTravail
  <2>4. CASE rendre_a_la_file(k)
    BY <1>1, <2>1, <2>4 DEF rendre_a_la_file, Suivi, UnTravail
  <2> QED
    BY <1>7, <2>2, <2>3, <2>4 DEF TravailDe, Travailleur
<1>8. ASSUME NEW h \in Horloge, TourDe(h) \/ AccidentDe(h), ~ Enfiler(h) PROVE Suivi(j)
  <2>1. CASE Perimer(h)
    BY <1>2, <1>3, <2>1 DEF Perimer, perimer_travaux_du_declencheur
  <2>2. CASE Boucle(h)
    BY <1>2, <2>2 DEF Boucle, cron_inevaluable, consume_due, base
  <2>3. CASE due_triggers(h) \/ _occurrence_sautee(h) \/ tomber(h)
    BY <1>2, <2>3 DEF due_triggers, _occurrence_sautee, tomber, base
  <2> QED
    BY <1>8, <2>1, <2>2, <2>3 DEF TourDe, AccidentDe, _tick
<1>9. ASSUME NEW l \in Livraison, Appel(l) \/ Rejet(l), ~ Enregistrer(l) PROVE Suivi(j)
  BY <1>2, <1>9 DEF Appel, Rejet, Recue, recevoir, Juger, Perdre, base
<1>10. CASE Temps
  BY <1>2, <1>10 DEF Temps, Tic
<1>11. ASSUME NEW u \in Usager, run_now(u)
       PROVE  Suivi(j) \/ Enfile(j, requete[u].trigger, "main", 0)
  BY <1>1, <1>11, EnfilerEst DEF run_now, Suivi
<1>12. ASSUME NEW h \in Horloge, Enfiler(h)
       PROVE  \/ Suivi(j)
              \/ Enfile(j, tour[h].ligne.trigger, "horloge", tour[h].ligne.echeance)
  BY <1>1, <1>12, EnfilerEst DEF Enfiler, Suivi
<1>13. ASSUME NEW l \in Livraison, Enregistrer(l)
       PROVE  Suivi(j) \/ Enfile(j, livraison[l].trigger, "hook", 0)
  BY <1>1, <1>13, EnfilerEst DEF Enregistrer, Suivi
<1> QED
  BY <1>4, <1>5, <1>6, <1>7, <1>8, <1>9, <1>10, <1>11, <1>12, <1>13 DEF Next

\* An agent stays what it is, and one that was deleted stays so.
Reste(t) ==
  /\ agent'[t].kind = agent[t].kind /\ agent'[t].max_per_day = agent[t].max_per_day
  /\ agent'[t].max_per_hour = agent[t].max_per_hour
  /\ agent'[t].existe => agent[t].existe

LEMMA PasDesAgents ==
  ASSUME TypeOK, [Next]_vars, NEW t \in Trigger
  PROVE  Reste(t)
<1>1. agent \in [Trigger -> UnAgent]
  BY TypeNomme DEF TypeOK
<1>2. CASE agent' = agent
  BY <1>2 DEF Reste
<1>3. ASSUME NEW u \in Usager, GesteDe(u), agent' # agent
      PROVE  Reste(t)
  <2>1. ASSUME NEW s \in Touches, eteindre(u, s) \/ delete_trigger(u, s)
        PROVE  Reste(t)
    BY <1>1, <2>1 DEF eteindre, delete_trigger, UnAgent, Reste
  <2>2. CASE rallumer(u)
    BY <1>1, <1>3, <2>2 DEF rallumer, UnAgent, Reste
  <2> QED
    BY <1>3, <2>1, <2>2 DEF GesteDe, Requete, lire_agent, clear_queue, file_du_declencheur,
       apres_eteindre, apres_supprimer, run_now, couper
<1>4. ASSUME NEW h \in Horloge, TourDe(h) \/ AccidentDe(h), agent' # agent
      PROVE  Reste(t)
  <2>1. ASSUME NEW x \in tour[h].reste, consume_due(h, x)
        PROVE  Reste(t)
    BY <1>1, <1>4, <2>1 DEF consume_due, UnAgent, Reste
  <2>2. CASE Boucle(h)
    BY <1>4, <2>1, <2>2 DEF Boucle, cron_inevaluable, base
  <2>3. CASE due_triggers(h) \/ _occurrence_sautee(h) \/ Perimer(h) \/ Enfiler(h) \/ tomber(h)
    BY <1>4, <2>3 DEF due_triggers, _occurrence_sautee, Perimer, Enfiler, tomber, base
  <2> QED
    BY <1>4, <2>2, <2>3 DEF TourDe, AccidentDe, _tick
<1>5. CASE UNCHANGED vars
  BY <1>2, <1>5 DEF vars, base
<1>6. ASSUME \/ \E u \in Usager : SurLaFile(u)
             \/ \E j \in Job : TravailDe(j)
             \/ \E l \in Livraison : Appel(l) \/ Rejet(l)
             \/ Temps
      PROVE  agent' = agent
  BY <1>6 DEF SurLaFile, File, reprendre_la_file, liberer_les_creneaux, TravailDe, Travailleur,
     claim_next_job, complete_job, rendre_a_la_file, Appel, Rejet, Recue, recevoir, Juger,
     Enregistrer, Perdre, Temps, Tic, base
<1> QED
  BY <1>2, <1>3, <1>4, <1>5, <1>6 DEF Next

\* A delivery that is there keeps its agent and its identifier; it arrives on a webhook, and it
\* is accepted once.
Portage(l) ==
  \/ livraison'[l].etape = "absente"
  \/ /\ livraison[l].etape # "absente"
     /\ livraison'[l].trigger = livraison[l].trigger /\ livraison'[l].externe = livraison[l].externe
     /\ livraison'[l].etape = "acceptee" =>
          \/ livraison[l].etape = "acceptee" /\ livraison'[l].recu = livraison[l].recu
          \/ Enregistrer(l) /\ livraison'[l].recu = livraison[l].t0
     /\ livraison'[l].etape = "jugee" =>
          \/ /\ livraison[l].etape = "jugee" /\ livraison'[l].t0 = livraison[l].t0
             /\ livraison'[l].retard = livraison[l].retard
          \/ /\ livraison[l].etape = "lue" /\ Juger(l, livraison'[l].t0)
             /\ livraison'[l].retard =
                  retard_de_lissage(livraison[l].trigger, livraison'[l].t0)
  \/ /\ livraison'[l].etape = "lue"
     /\ livraison'[l].trigger \in Trigger /\ agent[livraison'[l].trigger].kind = "webhook"

LEMMA PasDesLivraisons ==
  ASSUME TypeOK, [Next]_vars, NEW l \in Livraison
  PROVE  Portage(l)
<1>1. livraison \in [Livraison -> UneLivraison]
  BY CrochetsNommes DEF TypeOK
<1>2. ASSUME livraison' = livraison PROVE Portage(l)
  BY <1>2 DEF Portage
<1>3. ASSUME NEW m \in Livraison, Appel(m) \/ Rejet(m) PROVE Portage(l)
  <2>1. CASE Refusee(m)
    BY <1>1, <1>2, <2>1 DEF Refusee, Portage, Nouvelle
  <2>2. ASSUME NEW t \in Trigger, NEW id \in Identifiant \cup {NoId}, recevoir(m, t, id)
        PROVE  Portage(l)
    BY <1>1, <2>2 DEF recevoir, Portage, Nouvelle
  <2>3. ASSUME NEW t0 \in livraison[m].t0 .. now, Juger(m, t0), ~ Refusee(m) PROVE Portage(l)
    <3>1. livraison' = [livraison EXCEPT ![m] =
            [livraison[m] EXCEPT !.etape = "jugee", !.t0 = t0,
                                 !.retard = retard_de_lissage(livraison[m].trigger, t0)]]
          /\ livraison[m].etape = "lue"
      BY <1>1, <2>3 DEF Juger, UneLivraison
    <3>2. CASE l # m
      BY <1>1, <3>1, <3>2 DEF Portage
    <3>3. CASE l = m
      <4>1. /\ livraison'[l].etape = "jugee" /\ livraison'[l].t0 = t0
            /\ livraison'[l].trigger = livraison[l].trigger
            /\ livraison'[l].externe = livraison[l].externe
            /\ livraison'[l].retard = retard_de_lissage(livraison[l].trigger, t0)
        BY <1>1, <3>1, <3>3 DEF UneLivraison
      <4> QED
        BY <2>3, <3>1, <3>3, <4>1 DEF Portage
    <3> QED
      BY <3>2, <3>3
  <2>4. CASE Enregistrer(m)
    BY <1>1, <2>4 DEF Enregistrer, Portage, Nouvelle
  <2> QED
    BY <1>3, <2>1, <2>2, <2>3, <2>4 DEF Appel, Rejet, Recue, Perdre
<1>4. ASSUME NEW u \in Usager, SurLaFile(u) PROVE Portage(l)
  <2>1. CASE livraison' = CreneauxDecales(requete[u].trigger)
    BY <1>1, <2>1 DEF CreneauxDecales, Portage, UneLivraison
  <2>2. CASE liberer_les_creneaux(u)
    BY <1>1, <2>2 DEF liberer_les_creneaux, Portage, UneLivraison
  <2> QED
    BY <1>2, <1>4, <2>1, <2>2 DEF SurLaFile, File, reprendre_la_file
<1> QED
  BY <1>2, <1>3, <1>4 DEF Next, vars, GesteDe, TravailDe, TourDe, AccidentDe, Temps

\* What becomes of the turn of a clock.
Menage(h) ==
  \/ tour'[h] = tour[h]
  \/ tour'[h] = Attente
  \/ /\ due_triggers(h) /\ tour'[h].etape = "boucle" /\ tour'[h].lu = now
     /\ \A x \in tour'[h].reste : Due(x.trigger) /\ x.echeance = agent[x.trigger].echeance
  \/ /\ tour[h].etape # "repos" /\ tour'[h].etape = "boucle"
     /\ tour'[h].reste \subseteq tour[h].reste /\ tour'[h].lu = tour[h].lu
  \/ /\ tour'[h].etape = "consommee"
     /\ tour[h].etape = "boucle" /\ tour'[h].ligne \in tour[h].reste
     /\ consume_due(h, tour'[h].ligne) /\ Gagne(tour'[h].ligne.trigger)
     /\ tour'[h].reste \subseteq tour[h].reste /\ tour'[h].lu = tour[h].lu
  \/ /\ Perimer(h) /\ tour[h].etape = "consommee" /\ tour'[h].etape = "perimee"
     /\ tour'[h].ligne = tour[h].ligne /\ tour'[h].reste = tour[h].reste
     /\ tour'[h].lu = tour[h].lu

LEMMA SuiteEst ==
  ASSUME TypeOK, NEW h \in Horloge, NEW r, r \subseteq tour[h].reste, Suite(h, r),
         tour[h].etape # "repos", NEW g \in Horloge
  PROVE  Menage(g)
BY HorlogesNommees DEF TypeOK, Suite, Menage

LEMMA PasDesTours ==
  ASSUME TypeOK, [Next]_vars, NEW h \in Horloge
  PROVE  Menage(h)
<1>1. tour \in [Horloge -> UnTour]
  BY HorlogesNommees DEF TypeOK
<1>2. ASSUME tour' = tour PROVE Menage(h)
  BY <1>2 DEF Menage
<1>3. ASSUME NEW g \in Horloge, TourDe(g) \/ AccidentDe(g) PROVE Menage(h)
  <2>1. CASE due_triggers(g)
    <3>1. PICK S \in SUBSET {t \in Trigger : Due(t)} :
            tour' = [tour EXCEPT ![g] = [Attente EXCEPT !.etape = "boucle", !.lu = now,
              !.reste = {[trigger |-> s, echeance |-> agent[s].echeance] : s \in S}]]
      BY <2>1 DEF due_triggers
    <3>2. CASE h = g
      <4>1. tour'[h] = [Attente EXCEPT !.etape = "boucle", !.lu = now,
              !.reste = {[trigger |-> s, echeance |-> agent[s].echeance] : s \in S}]
        BY <1>1, <3>1, <3>2
      <4>2. \A x \in tour'[h].reste : Due(x.trigger) /\ x.echeance = agent[x.trigger].echeance
        BY <4>1 DEF Attente
      <4> QED
        BY <2>1, <3>2, <4>1, <4>2 DEF Menage, Attente
    <3> QED
      BY <1>1, <3>1, <3>2 DEF Menage
  <2>2. ASSUME NEW x \in tour[g].reste, tour[g].etape = "boucle", consume_due(g, x)
        PROVE  Menage(h)
    <3>1. CASE Gagne(x.trigger)
      <4>1. tour' = [tour EXCEPT ![g] = [tour[g] EXCEPT !.etape = "consommee", !.ligne = x,
                                                        !.reste = tour[g].reste \ {x}]]
        BY <1>1, <2>2, <3>1 DEF consume_due, UnTour
      <4> QED
        BY <1>1, <2>2, <3>1, <4>1 DEF Menage, UnTour
    <3>2. CASE ~ Gagne(x.trigger)
      <4>1. Suite(g, tour[g].reste \ {x})
        BY <2>2, <3>2 DEF consume_due
      <4> QED
        BY <2>2, <4>1, SuiteEst
    <3> QED
      BY <3>1, <3>2
  <2>3. ASSUME NEW x \in tour[g].reste, tour[g].etape = "boucle", cron_inevaluable(g, x)
        PROVE  Menage(h)
    BY <2>3, SuiteEst DEF cron_inevaluable
  <2>4. CASE _occurrence_sautee(g)
    BY <2>4, SuiteEst DEF _occurrence_sautee
  <2>5. CASE Enfiler(g)
    BY <2>5, SuiteEst DEF Enfiler
  <2>6. CASE Perimer(g)
    BY <1>1, <2>6 DEF Perimer, Menage, UnTour
  <2>7. CASE tomber(g)
    BY <1>1, <2>7 DEF tomber, Menage
  <2> QED
    BY <1>3, <2>1, <2>2, <2>3, <2>4, <2>5, <2>6, <2>7 DEF TourDe, AccidentDe, _tick, Boucle
<1>4. ASSUME NEW l \in Livraison, Appel(l) \/ Rejet(l) PROVE tour' = tour
  BY <1>4 DEF Appel, Rejet
<1> QED
  BY <1>2, <1>3, <1>4 DEF Next, vars, GesteDe, SurLaFile, TravailDe, Temps, Tic

-----------------------------------------------------------------------------
(* Clocks have scheduled agents, deliveries and frozen files have webhooks. *)

EnVol(h) == tour[h].etape \in {"consommee", "perimee"}

Sortes ==
  /\ \A l \in Livraison :
       livraison[l].etape # "absente" => agent[livraison[l].trigger].kind = "webhook"
  /\ \A j \in Job : travail[j].origine = "hook" \/ travail[j].etat = "held" =>
       travail[j].trigger \in Trigger /\ agent[travail[j].trigger].kind = "webhook"
  /\ \A j \in Job : travail[j].origine = "horloge" =>
       travail[j].trigger \in Trigger /\ agent[travail[j].trigger].kind = "schedule"
  /\ \A j \in Job : travail[j].etat = "claimed" => travail[j].prises > 0
  /\ \A h \in Horloge :
       /\ \A x \in tour[h].reste : agent[x.trigger].kind = "schedule"
       /\ EnVol(h) => agent[tour[h].ligne.trigger].kind = "schedule"

LEMMA SortesTenues ==
  ASSUME TypeOK, Sortes, [Next]_vars
  PROVE  Sortes'
<1>1. TypeOK' /\ \A t \in Trigger : agent'[t].kind = agent[t].kind
  BY PasTypes, PasDesAgents DEF Reste
<1>2. ASSUME NEW l \in Livraison, livraison'[l].etape # "absente"
      PROVE  agent'[livraison'[l].trigger].kind = "webhook"
  <2>1. livraison'[l].trigger \in Trigger /\ Portage(l)
    BY <1>1, <1>2, PasDesLivraisons DEF TypeOK, TypeHooks
  <2> QED
    BY <1>1, <1>2, <2>1 DEF Portage, Sortes
<1>3. ASSUME NEW j \in Job, travail'[j].origine = "hook" \/ travail'[j].etat = "held"
      PROVE  travail'[j].trigger \in Trigger /\ agent'[travail'[j].trigger].kind = "webhook"
  <2>1. CASE Suivi(j)
    BY <1>1, <1>3, <2>1 DEF Suivi, Sortes
  <2>2. ASSUME NEW l \in Livraison, Enregistrer(l), Enfile(j, livraison[l].trigger, "hook", 0)
        PROVE  travail'[j].trigger \in Trigger /\ agent'[travail'[j].trigger].kind = "webhook"
    <3>1. livraison[l].etape # "absente" /\ livraison[l].trigger \in Trigger
      BY <2>2 DEF Enregistrer, TypeOK, TypeHooks
    <3> QED
      BY <1>1, <2>2, <3>1 DEF Enfile, Sortes
  <2> QED
    BY <1>3, <2>1, <2>2, PasDesTravaux DEF Enfile
<1>4. ASSUME NEW j \in Job, travail'[j].origine = "horloge"
      PROVE  travail'[j].trigger \in Trigger /\ agent'[travail'[j].trigger].kind = "schedule"
  <2>1. CASE Suivi(j)
    BY <1>1, <1>4, <2>1 DEF Suivi, Sortes
  <2>2. ASSUME NEW h \in Horloge, Enfiler(h),
               Enfile(j, tour[h].ligne.trigger, "horloge", tour[h].ligne.echeance)
        PROVE  travail'[j].trigger \in Trigger /\ agent'[travail'[j].trigger].kind = "schedule"
    <3>1. EnVol(h) /\ tour[h].ligne.trigger \in Trigger
      BY <2>2 DEF Enfiler, EnVol, TypeOK, TypeClock
    <3> QED
      BY <1>1, <2>2, <3>1 DEF Enfile, Sortes
  <2> QED
    BY <1>4, <2>1, <2>2, PasDesTravaux DEF Enfile
<1>5. ASSUME NEW j \in Job, travail'[j].etat = "claimed" PROVE travail'[j].prises > 0
  <2>1. Suivi(j)
    BY <1>5, PasDesTravaux DEF Enfile
  <2> QED
    BY <1>5, <2>1 DEF Suivi, Sortes
<1>6. ASSUME NEW h \in Horloge
      PROVE  /\ \A x \in tour'[h].reste : agent'[x.trigger].kind = "schedule"
             /\ tour'[h].etape \in {"consommee", "perimee"} =>
                  agent'[tour'[h].ligne.trigger].kind = "schedule"
  <2>1. Menage(h)
    BY PasDesTours
  <2>2. /\ \A x \in tour'[h].reste : x.trigger \in Trigger
        /\ tour'[h].etape \in {"consommee", "perimee"} => tour'[h].ligne.trigger \in Trigger
    BY <1>1 DEF TypeOK, TypeClock
  <2>3. \A x \in tour'[h].reste : agent[x.trigger].kind = "schedule"
    BY <2>1 DEF Menage, Sortes, Due, Attente
  <2>4. tour'[h].etape \in {"consommee", "perimee"} =>
          agent[tour'[h].ligne.trigger].kind = "schedule"
    BY <2>1 DEF Menage, Sortes, EnVol, Attente
  <2> QED
    BY <1>1, <2>2, <2>3, <2>4
<1> QED
  BY <1>2, <1>3, <1>4, <1>5, <1>6 DEF Sortes, EnVol

LEMMA SortesAuDepart ==
  ASSUME Init
  PROVE  Sortes
BY DEF Init, InitTriggers, InitClock, InitHooks, Sortes, EnVol, Vierge, Nouvelle, Attente, Job

-----------------------------------------------------------------------------
(* Deliveries. *)

\* A delivery sent again is not run again, however many arrive at once and whatever the
\* requests do to the file.
THEOREM OneRunPerIdentifier == Spec => []UnDerouleParIdentifiant
<1>1. Init => UnDerouleParIdentifiant
  BY DEF Init, InitHooks, UnDerouleParIdentifiant, Acceptees, Nouvelle
<1>2. TypeOK /\ UnDerouleParIdentifiant /\ [Next]_vars => UnDerouleParIdentifiant'
  <2> SUFFICES ASSUME TypeOK, UnDerouleParIdentifiant, [Next]_vars, NEW t \in Trigger,
                      NEW l \in Acceptees(t)', NEW m \in Acceptees(t)',
                      livraison'[l].externe = livraison'[m].externe,
                      livraison'[l].externe # NoId
               PROVE  l = m
    BY DEF UnDerouleParIdentifiant
  <2>1. l \in Livraison /\ m \in Livraison /\ Portage(l) /\ Portage(m)
    BY PasDesLivraisons DEF Acceptees
  <2>2. \A k \in {l, m} : /\ livraison[k].trigger = t
                          /\ livraison[k].externe = livraison'[k].externe
                          /\ livraison[k].etape = "acceptee" \/ Enregistrer(k)
    BY <2>1 DEF Acceptees, Portage
  <2>3. CASE livraison[l].etape = "acceptee" /\ livraison[m].etape = "acceptee"
    BY <2>1, <2>2, <2>3 DEF UnDerouleParIdentifiant, Acceptees
  <2>4. CASE livraison[l].etape # "acceptee" /\ livraison[m].etape # "acceptee"
    <3>1. Enregistrer(l) /\ Enregistrer(m)
      BY <2>2, <2>4
    <3>2. livraison[l].etape = "jugee" /\ livraison'[m] # livraison[m]
      BY <2>1, <3>1 DEF Enregistrer, Acceptees
    <3> QED
      BY <2>1, <3>1, <3>2, CrochetsNommes DEF Enregistrer, TypeOK
  <2>5. ASSUME NEW a \in {l, m}, NEW b \in {l, m},
               livraison[a].etape # "acceptee", livraison[b].etape = "acceptee"
        PROVE  FALSE
    <3>1. Enregistrer(a)
      BY <2>2, <2>5
    <3>2. b \in Acceptees(t) /\ livraison[b].externe = livraison[a].externe
          /\ livraison[a].externe # NoId
      BY <2>1, <2>2, <2>5 DEF Acceptees
    <3> QED
      BY <2>2, <2>5, <3>1, <3>2 DEF Enregistrer, livraison_acceptee
  <2> QED
    BY <2>3, <2>4, <2>5
<1> QED
  BY <1>1, <1>2, TypeCorrect, PTL DEF Spec

LEMMA SortesToujours == Spec => [](TypeOK /\ Sortes)
<1>1. TypeOK /\ Sortes /\ [Next]_vars => Sortes'
  BY SortesTenues
<1> QED
  BY <1>1, SortesAuDepart, TypeCorrect, PTL DEF Spec

\* An agent whose deletion is under way is deleted.
SupprimeSansRetour ==
  \A u \in Usager : requete[u].etape = "supprime" => ~agent[requete[u].trigger].existe

LEMMA SupprimeTenu ==
  ASSUME TypeOK, SupprimeSansRetour, [Next]_vars
  PROVE  SupprimeSansRetour'
<1>1. requete \in [Usager -> UneRequete] /\ \A u \in Usager : Visee(requete[u])
  BY TypeNomme DEF TypeOK
<1>2. \A t \in Trigger : agent'[t].existe => agent[t].existe
  BY PasDesAgents DEF Reste
<1>3. SUFFICES ASSUME NEW u \in Usager, requete'[u].etape = "supprime"
               PROVE  ~agent'[requete'[u].trigger].existe
  BY DEF SupprimeSansRetour
<1>4. CASE requete'[u] = requete[u]
  BY <1>1, <1>2, <1>3, <1>4 DEF SupprimeSansRetour, Visee
<1>5. CASE requete'[u] # requete[u]
  <2>1. ASSUME NEW v \in Usager, NEW t \in Touches, delete_trigger(v, t)
        PROVE  ~agent'[requete'[u].trigger].existe
    <3>1. requete' = [requete EXCEPT ![v] = [Repos EXCEPT !.etape = "supprime", !.trigger = t]]
          /\ ~agent'[t].existe
      BY <2>1, TypeNomme, TriggersAssumption DEF delete_trigger, TypeOK, UnAgent
    <3>2. u = v
      BY <1>1, <1>5, <3>1
    <3> QED
      BY <1>1, <3>1, <3>2 DEF Repos
  <2>2. ASSUME NEW v \in Usager, NEW t \in Trigger, NEW e \in {"eteint", "rallume"},
               Bascule(v, t, e)
        PROVE  FALSE
    BY <1>1, <1>3, <1>5, <2>2 DEF Bascule, EnBascule, Repos, UneRequete
  <2>3. ASSUME NEW v \in Usager, NEW r, r.etape # "supprime", requete' = [requete EXCEPT ![v] = r]
        PROVE  FALSE
    BY <1>1, <1>3, <1>5, <2>3
  <2>4. ASSUME NEW v \in Usager, GesteDe(v), \A t \in Touches : ~ delete_trigger(v, t) PROVE FALSE
    <3>1. Repos.etape # "supprime"
          /\ \A e \in {"lu", "vide", "file_vue"} : \A t, x, n :
               [Repos EXCEPT !.etape = e, !.trigger = t].etape # "supprime"
               /\ [Repos EXCEPT !.etape = e, !.trigger = t, !.lu = n, !.reprise = x].etape
                    # "supprime"
      BY DEF Repos
    <3>2. CASE \E t \in Touches : eteindre(v, t)
      BY <2>2, <3>2, TriggersAssumption DEF eteindre
    <3>3. CASE rallumer(v)
      <4>1. requete[v].trigger \in Trigger
        BY <1>1, <3>3 DEF rallumer, Visee
      <4> QED
        BY <2>2, <2>3, <3>1, <3>3, <4>1 DEF rallumer
    <3>4. CASE \E t \in Touches : \/ lire_agent(v, t) \/ clear_queue(v, t)
                                  \/ file_du_declencheur(v, t)
      BY <2>3, <3>1, <3>4 DEF lire_agent, clear_queue, file_du_declencheur
    <3>5. CASE apres_eteindre(v) \/ apres_supprimer(v) \/ run_now(v) \/ couper(v)
      BY <2>3, <3>1, <3>5 DEF apres_eteindre, FinBascule, apres_supprimer, run_now, couper
    <3> QED
      BY <2>4, <3>2, <3>3, <3>4, <3>5 DEF GesteDe, Requete
  <2>5. ASSUME NEW v \in Usager, SurLaFile(v) PROVE FALSE
    <3>1. requete' = [requete EXCEPT ![v] = Repos] /\ Repos.etape # "supprime"
      BY <2>5 DEF SurLaFile, File, reprendre_la_file, liberer_les_creneaux, FinBascule, Repos
    <3> QED
      BY <2>3, <3>1
  <2>6. ASSUME \/ UNCHANGED vars
               \/ \E j \in Job : TravailDe(j)
               \/ \E h \in Horloge : TourDe(h) \/ AccidentDe(h)
               \/ \E l \in Livraison : Appel(l) \/ Rejet(l)
               \/ Temps
        PROVE  FALSE
    <3>1. requete' = requete
      BY <2>6 DEF vars, base, TravailDe, Travailleur, claim_next_job, complete_job,
         rendre_a_la_file, TourDe, AccidentDe, _tick, due_triggers, Boucle, cron_inevaluable,
         consume_due, _occurrence_sautee, Perimer, Enfiler, tomber, Appel, Rejet, Recue, recevoir,
         Juger, Enregistrer, Perdre, Temps, Tic
    <3> QED
      BY <1>5, <3>1
  <2> QED
    BY <2>1, <2>4, <2>5, <2>6 DEF GesteDe, Requete, Next
<1> QED
  BY <1>4, <1>5

\* Switching an agent off loses no delivery: the jobs that a pause, a resumption, a clock or a
\* worker ends are not waiting jobs of a delivery.
THEOREM PauseLosesNothing == Spec => PauseNePerdRien
<1> DEFINE Perte(j) ==
      travail[j].origine = "hook" /\ travail[j].etat \in {"pending", "held"}
        /\ travail'[j].etat = "fini"
        => \/ ~agent[travail[j].trigger].existe
           \/ \E u \in Usager : requete'[u].etape = "vide"
                                /\ requete'[u].trigger = travail[j].trigger
<1>1. ASSUME TypeOK, Sortes, SupprimeSansRetour, [Next]_vars, NEW j \in Job PROVE Perte(j)
  <2> SUFFICES ASSUME travail[j].origine = "hook", travail[j].etat \in {"pending", "held"},
                      travail'[j].etat = "fini"
               PROVE  \/ ~agent[travail[j].trigger].existe
                      \/ \E u \in Usager : requete'[u].etape = "vide"
                                           /\ requete'[u].trigger = travail[j].trigger
    OBVIOUS
  <2>1. /\ travail \in [Job -> UnTravail] /\ requete \in [Usager -> UneRequete]
        /\ travail[j].trigger \in Trigger /\ agent[travail[j].trigger].kind = "webhook"
    BY <1>1, TypeNomme DEF TypeOK, Sortes
  <2>2. travail' # travail
    BY <2>1
  <2>3. ASSUME NEW t, travail' = Perime(t) PROVE travail[j].trigger = t
    BY <2>1, <2>3 DEF Perime
  <2>4. ASSUME NEW t, NEW o, NEW d, NEW x, enqueue_job(t, o, d, x) PROVE FALSE
    BY <2>1, <2>4, EnfilerEst DEF Enfile
  <2>5. CASE \E u \in Usager : GesteDe(u)
    <3>1. PICK u \in Usager : GesteDe(u)
      BY <2>5
    <3>2. ASSUME NEW t \in Touches, clear_queue(u, t)
          PROVE  requete'[u].etape = "vide" /\ requete'[u].trigger = travail[j].trigger
      <4>1. travail[j].trigger = t
        BY <2>3, <3>2 DEF clear_queue, perimer_travaux_du_declencheur
      <4> QED
        BY <2>1, <3>2, <4>1 DEF clear_queue, Repos
    <3>3. CASE apres_eteindre(u)
      <4>1. CASE suspendre_la_file(requete[u].trigger)
        BY <2>1, <4>1 DEF suspendre_la_file, UnTravail
      <4>2. CASE travail' = Perime(requete[u].trigger)
                 /\ agent[requete[u].trigger].kind = "schedule"
        BY <2>1, <2>3, <4>2
      <4> QED
        BY <3>3, <4>1, <4>2 DEF apres_eteindre, perimer_travaux_du_declencheur
    <3>4. CASE apres_supprimer(u)
      <4>1. travail[j].trigger = requete[u].trigger
        BY <2>3, <3>4 DEF apres_supprimer, perimer_travaux_du_declencheur
      <4> QED
        BY <1>1, <3>4, <4>1 DEF apres_supprimer, SupprimeSansRetour
    <3>5. CASE run_now(u)
      BY <2>4, <3>5 DEF run_now
    <3> QED
      BY <2>2, <3>1, <3>2, <3>3, <3>4, <3>5 DEF GesteDe, Requete, eteindre, lire_agent,
         delete_trigger, file_du_declencheur, rallumer, couper
  <2>6. CASE \E u \in Usager : SurLaFile(u)
    <3>1. PICK u \in Usager : travail' = Rendus(requete[u].trigger)
      BY <2>2, <2>6 DEF SurLaFile, File, reprendre_la_file, liberer_les_creneaux
    <3> QED
      BY <2>1, <3>1 DEF Rendus, UnTravail
  <2>7. CASE \E k \in Job : TravailDe(k)
    <3>1. PICK k \in Job : TravailDe(k)
      BY <2>7
    <3>2. CASE k = j
      BY <2>1, <3>1, <3>2 DEF TravailDe, Travailleur, claim_next_job, complete_job,
         rendre_a_la_file, UnTravail
    <3>3. CASE k # j
      BY <2>1, <3>1, <3>3 DEF TravailDe, Travailleur, claim_next_job, complete_job,
         rendre_a_la_file, UnTravail
    <3> QED
      BY <3>2, <3>3
  <2>8. CASE \E h \in Horloge : TourDe(h) \/ AccidentDe(h)
    <3>1. PICK h \in Horloge : TourDe(h) \/ AccidentDe(h)
      BY <2>8
    <3>2. CASE Perimer(h)
      <4>1. travail[j].trigger = tour[h].ligne.trigger /\ EnVol(h)
        BY <2>2, <2>3, <3>2 DEF Perimer, perimer_travaux_du_declencheur, EnVol
      <4> QED
        BY <1>1, <2>1, <4>1 DEF Sortes
    <3>3. CASE Enfiler(h)
      BY <2>4, <3>3 DEF Enfiler
    <3>4. CASE Boucle(h)
      BY <2>2, <3>4 DEF Boucle, cron_inevaluable, consume_due, base
    <3> QED
      BY <2>2, <3>1, <3>2, <3>3, <3>4 DEF TourDe, AccidentDe, _tick, due_triggers,
         _occurrence_sautee, tomber, base
  <2>9. CASE \E l \in Livraison : Appel(l) \/ Rejet(l)
    BY <2>2, <2>4, <2>9 DEF Appel, Rejet, Recue, recevoir, Juger, Enregistrer, Perdre, base
  <2>10. CASE UNCHANGED vars \/ Temps
    BY <2>2, <2>10 DEF vars, base, Temps, Tic
  <2> QED
    BY <1>1, <2>5, <2>6, <2>7, <2>8, <2>9, <2>10 DEF Next
<1> HIDE DEF Perte
<1>2. Init => SupprimeSansRetour
  BY DEF Init, InitTriggers, SupprimeSansRetour, Repos
<1>3. TypeOK /\ SupprimeSansRetour /\ [Next]_vars => SupprimeSansRetour'
  BY SupprimeTenu
<1>4. TypeOK /\ Sortes /\ SupprimeSansRetour /\ [Next]_vars => [\A j \in Job : Perte(j)]_vars
  BY <1>1
<1>5. Spec => [][\A j \in Job : Perte(j)]_vars
  BY <1>2, <1>3, <1>4, SortesToujours, PTL DEF Spec
<1> QED
  BY <1>5 DEF PauseNePerdRien, Perte

-----------------------------------------------------------------------------
(* What is frozen is given back. *)

\* Of the toggles of an agent in progress, one that is alone is the only one, and has just
\* switched the webhook off or on; unless the agent is in trouble, all are alone.
BasculeDe(t) ==
  /\ \A u \in EnBascule(t) : ~trouble[t] => requete[u].seul
  /\ \A u \in EnBascule(t) : requete[u].seul =>
       /\ EnBascule(t) = {u}
       /\ requete[u].etape = "eteint" /\ agent[t].kind = "webhook" => ~agent[t].enabled
  /\ agent[t].existe /\ agent[t].enabled /\ ~trouble[t] /\ EnBascule(t) = {} => Retenus(t) = {}

\* Nothing that happens to an agent's toggles, nor to its file.
ImmobileDe(t) ==
  /\ EnBascule(t)' = EnBascule(t) /\ \A u \in EnBascule(t) : requete'[u] = requete[u]
  /\ trouble'[t] = trouble[t] /\ agent'[t].kind = agent[t].kind
  /\ (agent'[t].enabled => agent[t].enabled) /\ (agent'[t].existe => agent[t].existe)
  /\ Retenus(t)' \subseteq Retenus(t)

LEMMA ImmobileTenu ==
  ASSUME NEW t, BasculeDe(t), ImmobileDe(t)
  PROVE  BasculeDe(t)'
BY DEF BasculeDe, ImmobileDe

\* A request that is written off the toggles leaves them where they are.
LEMMA HorsBascule ==
  ASSUME TypeOK, NEW t, NEW u \in Usager, NEW r, requete' = [requete EXCEPT ![u] = r],
         r.etape \notin {"eteint", "rallume"} \/ r.trigger # t, u \notin EnBascule(t)
  PROVE  EnBascule(t)' = EnBascule(t) /\ \A v \in EnBascule(t) : requete'[v] = requete[v]
<1>1. requete \in [Usager -> UneRequete]
  BY TypeNomme DEF TypeOK
<1> QED
  BY <1>1 DEF EnBascule

\* Only a pause freezes.
LEMMA RetenuAvant ==
  ASSUME TypeOK, [Next]_vars, NEW t \in Trigger
  PROVE  \/ Retenus(t)' \subseteq Retenus(t)
         \/ \E u \in Usager : apres_eteindre(u) /\ requete[u].trigger = t /\ suspendre_la_file(t)
                              /\ agent[t].kind = "webhook"
<1> SUFFICES ASSUME NEW j \in Retenus(t)', j \notin Retenus(t)
             PROVE  \E u \in Usager : apres_eteindre(u) /\ requete[u].trigger = t
                                      /\ suspendre_la_file(t) /\ agent[t].kind = "webhook"
  OBVIOUS
<1>1. j \in Job /\ travail'[j].trigger = t /\ travail'[j].etat = "held"
  BY DEF Retenus
<1>2. Suivi(j)
  BY <1>1, PasDesTravaux DEF Enfile
<1>3. travail \in [Job -> UnTravail] /\ travail[j].trigger = t /\ travail[j].etat # "held"
  BY <1>1, <1>2, TypeNomme DEF Suivi, Retenus, TypeOK
<1>4. travail' # travail
  BY <1>1, <1>3
<1>5. ASSUME NEW s, travail' = Perime(s) PROVE FALSE
  BY <1>1, <1>3, <1>5 DEF Perime, Termine, UnTravail
<1>6. ASSUME NEW s, NEW o, NEW d, NEW x, enqueue_job(s, o, d, x) PROVE FALSE
  BY <1>1, <1>3, <1>6, EnfilerEst DEF Enfile
<1>7. ASSUME NEW s, travail' = Rendus(s) PROVE FALSE
  BY <1>1, <1>3, <1>7 DEF Rendus, UnTravail
<1>8. ASSUME NEW k \in Job, TravailDe(k) PROVE FALSE
  <2>1. CASE k = j
    <3>1. CASE claim_next_job(k)
      <4>1. travail' = [travail EXCEPT ![k] = [travail[k] EXCEPT !.etat = "claimed",
                                               !.prises = travail[k].prises + 1]]
        BY <1>3, <3>1 DEF claim_next_job, UnTravail
      <4> QED
        BY <1>1, <1>3, <2>1, <4>1 DEF UnTravail
    <3>2. CASE complete_job(k)
      BY <1>1, <1>3, <2>1, <3>2 DEF complete_job, Termine, UnTravail
    <3>3. CASE rendre_a_la_file(k)
      BY <1>1, <1>3, <2>1, <3>3 DEF rendre_a_la_file, UnTravail
    <3> QED
      BY <1>8, <3>1, <3>2, <3>3 DEF TravailDe, Travailleur
  <2>2. CASE k # j
    BY <1>1, <1>3, <1>8, <2>2 DEF TravailDe, Travailleur, claim_next_job, complete_job,
       rendre_a_la_file, UnTravail
  <2> QED
    BY <2>1, <2>2
<1>9. ASSUME NEW u \in Usager, GesteDe(u), ~ apres_eteindre(u) PROVE FALSE
  BY <1>4, <1>5, <1>6, <1>9 DEF GesteDe, Requete, eteindre, lire_agent, delete_trigger,
     clear_queue, file_du_declencheur, rallumer, apres_supprimer, run_now, couper,
     perimer_travaux_du_declencheur
<1>10. ASSUME NEW u \in Usager, SurLaFile(u) PROVE FALSE
  BY <1>4, <1>7, <1>10 DEF SurLaFile, File, reprendre_la_file, liberer_les_creneaux
<1>11. ASSUME NEW h \in Horloge, TourDe(h) \/ AccidentDe(h) PROVE FALSE
  <2>1. CASE Perimer(h)
    BY <1>4, <1>5, <2>1 DEF Perimer, perimer_travaux_du_declencheur
  <2>2. CASE Boucle(h)
    BY <1>4, <2>2 DEF Boucle, cron_inevaluable, consume_due, base
  <2>3. CASE Enfiler(h)
    BY <1>6, <2>3 DEF Enfiler
  <2> QED
    BY <1>4, <1>11, <2>1, <2>2, <2>3 DEF TourDe, AccidentDe, _tick, due_triggers,
       _occurrence_sautee, tomber, base
<1>12. ASSUME NEW l \in Livraison, Appel(l) \/ Rejet(l) PROVE FALSE
  BY <1>4, <1>6, <1>12 DEF Appel, Rejet, Recue, recevoir, Juger, Enregistrer, Perdre, base
<1>13. ~ (UNCHANGED vars) /\ ~ Temps
  BY <1>4 DEF vars, base, Temps, Tic
<1>14. PICK u \in Usager : GesteDe(u) /\ apres_eteindre(u)
  BY <1>8, <1>9, <1>10, <1>11, <1>12, <1>13 DEF Next
<1>15. suspendre_la_file(requete[u].trigger) /\ agent[requete[u].trigger].kind = "webhook"
  BY <1>5, <1>14 DEF apres_eteindre, perimer_travaux_du_declencheur
<1>16. requete[u].trigger = t
  BY <1>1, <1>3, <1>15 DEF suspendre_la_file
<1> QED
  BY <1>14, <1>15, <1>16

\* An agent that no toggle touches does not come on.
LEMMA RienNAllume ==
  ASSUME TypeOK, [Next]_vars, NEW t \in Trigger, agent'[t].enabled
  PROVE  agent[t].enabled \/ \E u \in Usager : rallumer(u) /\ requete[u].trigger = t
<1>1. agent \in [Trigger -> UnAgent]
  BY TypeNomme DEF TypeOK
<1>2. CASE agent' = agent
  BY <1>2
<1>3. ASSUME NEW u \in Usager, GesteDe(u), agent' # agent
      PROVE  agent[t].enabled \/ (rallumer(u) /\ requete[u].trigger = t)
  <2>1. ASSUME NEW s \in Touches, eteindre(u, s) \/ delete_trigger(u, s) PROVE agent[t].enabled
    BY <1>1, <2>1 DEF eteindre, delete_trigger, UnAgent
  <2>2. CASE rallumer(u) /\ requete[u].trigger # t
    BY <1>1, <1>3, <2>2 DEF rallumer, UnAgent
  <2> QED
    BY <1>3, <2>1, <2>2 DEF GesteDe, Requete, lire_agent, clear_queue, file_du_declencheur,
       apres_eteindre, apres_supprimer, run_now, couper
<1>4. ASSUME NEW h \in Horloge, TourDe(h) \/ AccidentDe(h), agent' # agent PROVE agent[t].enabled
  <2>1. ASSUME NEW x \in tour[h].reste, consume_due(h, x) PROVE agent[t].enabled
    BY <1>1, <1>4, <2>1 DEF consume_due, UnAgent
  <2>2. CASE Boucle(h)
    BY <1>4, <2>1, <2>2 DEF Boucle, cron_inevaluable, base
  <2>3. CASE due_triggers(h) \/ _occurrence_sautee(h) \/ Perimer(h) \/ Enfiler(h) \/ tomber(h)
    BY <1>4, <2>3 DEF due_triggers, _occurrence_sautee, Perimer, Enfiler, tomber, base
  <2> QED
    BY <1>4, <2>2, <2>3 DEF TourDe, AccidentDe, _tick
<1>5. CASE UNCHANGED vars
  BY <1>2, <1>5 DEF vars, base
<1>6. ASSUME \/ \E u \in Usager : SurLaFile(u)
             \/ \E j \in Job : TravailDe(j)
             \/ \E l \in Livraison : Appel(l) \/ Rejet(l)
             \/ Temps
      PROVE  agent' = agent
  BY <1>6 DEF SurLaFile, File, reprendre_la_file, liberer_les_creneaux, TravailDe, Travailleur,
     claim_next_job, complete_job, rendre_a_la_file, Appel, Rejet, Recue, recevoir, Juger,
     Enregistrer, Perdre, Temps, Tic, base
<1> QED
  BY <1>2, <1>3, <1>4, <1>5, <1>6 DEF Next

\* A toggle that is written.
LEMMA BasculeEst ==
  ASSUME TypeOK, NEW u \in Usager, NEW s, NEW e \in {"eteint", "rallume"}, Bascule(u, s, e),
         u \notin EnBascule(s), NEW t \in Trigger
  PROVE  IF t = s
         THEN /\ EnBascule(t)' = EnBascule(t) \cup {u}
              /\ requete'[u].etape = e /\ requete'[u].seul = (EnBascule(t) = {})
              /\ \A v \in EnBascule(t) : ~ requete'[v].seul
              /\ trouble'[t] = (trouble[t] \/ EnBascule(t) # {})
         ELSE /\ trouble'[t] = trouble[t]
              /\ \A v \in Usager \ {u} : requete'[v].trigger = requete[v].trigger
                                         /\ requete'[v].etape = requete[v].etape
                                         /\ (v \in EnBascule(t) => requete'[v] = requete[v])
              /\ requete'[u].trigger = s
<1>1. requete \in [Usager -> UneRequete] /\ trouble \in [Trigger -> BOOLEAN]
  BY TypeNomme DEF TypeOK
<1>2. requete'[u] = [Repos EXCEPT !.etape = e, !.trigger = s, !.seul = EnBascule(s) = {}]
  BY DEF Bascule
<1>3. \A v \in Usager \ {u} :
        requete'[v] = IF v \in EnBascule(s) THEN [requete[v] EXCEPT !.seul = FALSE]
                      ELSE requete[v]
  BY DEF Bascule
<1>4. \A v \in Usager \ {u} : requete'[v].trigger = requete[v].trigger
                              /\ requete'[v].etape = requete[v].etape
  BY <1>1, <1>3 DEF UneRequete
<1>5. CASE t = s
  <2>1. EnBascule(t)' = EnBascule(t) \cup {u}
    <3>1. \A v \in Usager : v \in EnBascule(t)' <=> v \in EnBascule(t) \cup {u}
      BY <1>2, <1>4, <1>5 DEF EnBascule, Repos
    <3> QED
      BY <3>1 DEF EnBascule
  <2>2. requete'[u].etape = e /\ requete'[u].seul = (EnBascule(t) = {})
    BY <1>2, <1>5 DEF Repos
  <2>3. \A v \in EnBascule(t) : ~ requete'[v].seul
    <3> TAKE v \in EnBascule(t)
    <3>1. v \in Usager \ {u}
      BY <1>5 DEF EnBascule
    <3> QED
      BY <1>1, <1>3, <1>5, <3>1 DEF UneRequete
  <2>4. trouble'[t] = (trouble[t] \/ EnBascule(t) # {})
    BY <1>1, <1>5 DEF Bascule
  <2> QED
    BY <1>5, <2>1, <2>2, <2>3, <2>4
<1>6. CASE t # s
  <2>1. trouble'[t] = trouble[t]
    BY <1>1, <1>6 DEF Bascule
  <2>2. requete'[u].trigger = s
    BY <1>2 DEF Repos
  <2>3. \A v \in Usager \ {u} : v \in EnBascule(t) => requete'[v] = requete[v]
    BY <1>3, <1>6 DEF EnBascule
  <2> QED
    BY <1>4, <1>6, <2>1, <2>2, <2>3
<1> QED
  BY <1>5, <1>6

LEMMA BasculesTenues ==
  ASSUME TypeOK, Sortes, [Next]_vars, NEW t \in Trigger, BasculeDe(t)
  PROVE  BasculeDe(t)'
<1>1. requete \in [Usager -> UneRequete] /\ trouble \in [Trigger -> BOOLEAN]
      /\ agent \in [Trigger -> UnAgent] /\ \A u \in Usager : Visee(requete[u])
  BY TypeNomme DEF TypeOK
<1>2. /\ agent'[t].kind = agent[t].kind /\ (agent'[t].existe => agent[t].existe)
      /\ Sortes'
  BY PasDesAgents, SortesTenues DEF Reste
<1>3. agent[t].kind # "webhook" => Retenus(t)' = {}
  <2> SUFFICES ASSUME NEW j \in Retenus(t)' PROVE agent'[t].kind = "webhook"
    BY <1>2
  <2> QED
    BY <1>2 DEF Retenus, Sortes
<1>4. ASSUME EnBascule(t)' = EnBascule(t), \A u \in EnBascule(t) : requete'[u] = requete[u],
             trouble'[t] = trouble[t], agent'[t].enabled => agent[t].enabled,
             Retenus(t)' \subseteq Retenus(t)
      PROVE  BasculeDe(t)'
  BY <1>2, <1>4, ImmobileTenu DEF ImmobileDe
\* A toggle begins.
<1>5. ASSUME NEW u \in Usager, NEW s \in Trigger, NEW e \in {"eteint", "rallume"},
             Bascule(u, s, e), u \notin EnBascule(s), requete[u].etape \notin {"eteint", "rallume"},
             (e = "eteint" => agent'[s].enabled = FALSE),
             t # s => agent'[t] = agent[t], travail' = travail
      PROVE  BasculeDe(t)'
  <2>1. CASE t = s
    <3>1. /\ EnBascule(t)' = EnBascule(t) \cup {u}
          /\ requete'[u].etape = e /\ requete'[u].seul = (EnBascule(t) = {})
          /\ \A v \in EnBascule(t) : ~ requete'[v].seul
          /\ trouble'[t] = (trouble[t] \/ EnBascule(t) # {})
      BY <1>5, <2>1, BasculeEst
    <3>2. ASSUME NEW v \in EnBascule(t)', ~trouble'[t] PROVE requete'[v].seul
      BY <3>1, <3>2
    <3>3. ASSUME NEW v \in EnBascule(t)', requete'[v].seul
          PROVE  /\ EnBascule(t)' = {v}
                 /\ requete'[v].etape = "eteint" => ~agent'[t].enabled
      BY <1>5, <2>1, <3>1, <3>3
    <3>4. EnBascule(t)' # {}
      BY <3>1
    <3> QED
      BY <3>2, <3>3, <3>4 DEF BasculeDe
  <2>2. CASE t # s
    <3>1. /\ trouble'[t] = trouble[t]
          /\ \A v \in Usager \ {u} : requete'[v].trigger = requete[v].trigger
                                     /\ requete'[v].etape = requete[v].etape
                                     /\ (v \in EnBascule(t) => requete'[v] = requete[v])
          /\ requete'[u].trigger = s
      BY <1>5, <2>2, BasculeEst
    <3>2. u \notin EnBascule(t)
      BY <1>5 DEF EnBascule
    <3>3. EnBascule(t)' = EnBascule(t)
      BY <2>2, <3>1, <3>2 DEF EnBascule
    <3>4. \A v \in EnBascule(t) : requete'[v] = requete[v]
      BY <3>1, <3>2 DEF EnBascule
    <3> QED
      BY <1>4, <1>5, <2>2, <3>1, <3>3, <3>4 DEF Retenus
  <2> QED
    BY <2>1, <2>2
\* A toggle ends, alone or not.
<1>6. ASSUME NEW u \in Usager, FinBascule(u), requete[u].etape \in {"eteint", "rallume"},
             agent' = agent,
             requete[u].trigger = t /\ requete[u].etape = "rallume" => Retenus(t)' = {},
             requete[u].trigger # t => Retenus(t)' \subseteq Retenus(t)
      PROVE  BasculeDe(t)'
  <2> DEFINE s == requete[u].trigger
  <2>1. requete' = [requete EXCEPT ![u] = Repos]
        /\ trouble' = [trouble EXCEPT ![s] = trouble[s] /\ ~requete[u].seul]
    BY <1>6 DEF FinBascule
  <2>2. CASE t = s
    <3>1. u \in EnBascule(t)
      BY <1>6, <2>2 DEF EnBascule
    <3>2. EnBascule(t)' = EnBascule(t) \ {u}
          /\ \A v \in EnBascule(t) \ {u} : requete'[v] = requete[v]
      BY <1>1, <2>1, <2>2 DEF EnBascule, Repos
    <3>3. trouble'[t] = (trouble[t] /\ ~requete[u].seul)
      BY <1>1, <2>1, <2>2
    <3>4. ASSUME NEW v \in EnBascule(t)' PROVE trouble'[t] /\ ~ requete'[v].seul
      BY <3>1, <3>2, <3>3, <3>4 DEF BasculeDe
    <3>5. ASSUME agent'[t].enabled, ~trouble'[t], EnBascule(t)' = {} PROVE Retenus(t)' = {}
      <4>1. requete[u].seul
        BY <3>1, <3>3, <3>5 DEF BasculeDe
      <4>2. requete[u].etape = "eteint" => agent[t].kind # "webhook"
        BY <1>6, <3>1, <3>5, <4>1 DEF BasculeDe
      <4> QED
        BY <1>3, <1>6, <2>2, <4>2
    <3> QED
      BY <3>4, <3>5 DEF BasculeDe
  <2>3. CASE t # s
    <3>1. u \notin EnBascule(t) /\ trouble'[t] = trouble[t]
      BY <1>1, <2>1, <2>3 DEF EnBascule
    <3>2. EnBascule(t)' = EnBascule(t) /\ \A v \in EnBascule(t) : requete'[v] = requete[v]
      <4>1. Repos.etape = "repos"
        BY DEF Repos
      <4> QED
        BY <2>1, <3>1, <4>1, HorsBascule
    <3> QED
      BY <1>4, <1>6, <2>3, <3>1, <3>2
  <2> QED
    BY <2>2, <2>3
\* Nothing happens to the toggles.
<1>7. ASSUME requete' = requete, trouble' = trouble PROVE BasculeDe(t)'
  <2>1. \A u \in Usager : ~ rallumer(u) /\ ~ apres_eteindre(u)
    <3> TAKE u \in Usager
    <3>1. ASSUME requete' = [requete EXCEPT ![u] = Repos], requete[u].etape # "repos" PROVE FALSE
      <4>1. requete'[u].etape = "repos"
        BY <1>1, <3>1 DEF Repos
      <4> QED
        BY <1>7, <3>1, <4>1
    <3>2. ASSUME Bascule(u, requete[u].trigger, "rallume"), requete[u].etape = "lu" PROVE FALSE
      <4>1. requete'[u] = [Repos EXCEPT !.etape = "rallume", !.trigger = requete[u].trigger,
                                        !.seul = EnBascule(requete[u].trigger) = {}]
        BY <3>2 DEF Bascule
      <4>2. requete'[u].etape = "rallume"
        BY <4>1 DEF Repos
      <4> QED
        BY <1>7, <3>2, <4>2
    <3> QED
      BY <3>1, <3>2 DEF rallumer, apres_eteindre, FinBascule
  <2> QED
    BY <1>4, <1>7, <2>1, RienNAllume, RetenuAvant DEF EnBascule
<1>8. ASSUME NEW u \in Usager, NEW r, requete' = [requete EXCEPT ![u] = r], trouble' = trouble,
             r.etape \notin {"eteint", "rallume"}, requete[u].etape \notin {"eteint", "rallume"},
             agent'[t].enabled => agent[t].enabled, Retenus(t)' \subseteq Retenus(t)
      PROVE  BasculeDe(t)'
  <2>1. u \notin EnBascule(t)
    BY <1>8 DEF EnBascule
  <2> QED
    BY <1>4, <1>8, <2>1, HorsBascule
<1>9. /\ \A s : travail' = Perime(s) => Retenus(t)' \subseteq Retenus(t)
      /\ travail' = travail => Retenus(t)' \subseteq Retenus(t)
      /\ \A s, o, d, x : enqueue_job(s, o, d, x) => Retenus(t)' \subseteq Retenus(t)
  <2>1. travail \in [Job -> UnTravail]
    BY TypeNomme DEF TypeOK
  <2>2. ASSUME NEW s, travail' = Perime(s) PROVE Retenus(t)' \subseteq Retenus(t)
    BY <2>1, <2>2 DEF Perime, Termine, Retenus, UnTravail
  <2>3. ASSUME NEW s, NEW o, NEW d, NEW x, enqueue_job(s, o, d, x)
        PROVE  Retenus(t)' \subseteq Retenus(t)
    BY <2>1, <2>3, EnfilerEst DEF Enfile, Retenus
  <2> QED
    BY <2>2, <2>3 DEF Retenus
<1>10. ASSUME NEW u \in Usager, GesteDe(u) PROVE BasculeDe(t)'
  <2>1. ASSUME NEW s \in Touches, eteindre(u, s) PROVE BasculeDe(t)'
    <3>1. s \in Trigger /\ requete[u].etape = "repos" /\ u \notin EnBascule(s)
      BY <2>1, TriggersAssumption DEF eteindre, Commence, EnBascule
    <3>2. Bascule(u, s, "eteint") /\ agent' = [agent EXCEPT ![s].enabled = FALSE]
          /\ travail' = travail
      BY <2>1 DEF eteindre
    <3>3. agent'[s].enabled = FALSE /\ (t # s => agent'[t] = agent[t])
      BY <1>1, <3>1, <3>2 DEF UnAgent
    <3> QED
      BY <1>5, <3>1, <3>2, <3>3
  <2>2. CASE rallumer(u)
    <3> DEFINE s == requete[u].trigger
    <3>1. s \in Trigger /\ requete[u].etape = "lu" /\ travail' = travail
      BY <1>1, <2>2 DEF rallumer, Visee
    <3>2. CASE Bascule(u, s, "rallume")
      <4>1. (t # s => agent'[t] = agent[t]) /\ u \notin EnBascule(s)
        BY <1>1, <2>2, <3>1 DEF rallumer, EnBascule
      <4> QED
        BY <1>5, <3>1, <3>2, <4>1
    <3>3. CASE requete' = [requete EXCEPT ![u] = Repos] /\ trouble' = trouble
               /\ (agent' = agent \/ agent[s].kind = "schedule")
      <4>1. EnBascule(t)' = EnBascule(t) /\ \A v \in EnBascule(t) : requete'[v] = requete[v]
        <5>1. Repos.etape = "repos" /\ u \notin EnBascule(t)
          BY <3>1 DEF Repos, EnBascule
        <5> QED
          BY <3>3, <5>1, HorsBascule
      <4>2. Retenus(t)' \subseteq Retenus(t)
        BY <1>9, <3>1
      <4>3. CASE agent'[t].enabled => agent[t].enabled
        BY <1>4, <3>3, <4>1, <4>2, <4>3
      <4>4. CASE ~ (agent'[t].enabled => agent[t].enabled)
        <5>1. t = s /\ agent[t].kind = "schedule"
          BY <1>1, <2>2, <3>3, <4>4 DEF rallumer, UnAgent
        <5> QED
          BY <1>2, <1>3, <3>3, <4>1, <5>1 DEF BasculeDe
      <4> QED
        BY <4>3, <4>4
    <3> QED
      BY <2>2, <3>2, <3>3 DEF rallumer
  <2>3. CASE apres_eteindre(u)
    <3>1. /\ FinBascule(u) /\ requete[u].etape = "eteint" /\ agent' = agent
          /\ \/ suspendre_la_file(requete[u].trigger)
             \/ travail' = Perime(requete[u].trigger)
      BY <2>3 DEF apres_eteindre, perimer_travaux_du_declencheur
    <3>2. ASSUME requete[u].trigger # t, suspendre_la_file(requete[u].trigger)
          PROVE  Retenus(t)' \subseteq Retenus(t)
      <4>1. travail \in [Job -> UnTravail]
        BY TypeNomme DEF TypeOK
      <4> QED
        BY <3>2, <4>1 DEF suspendre_la_file, Retenus, UnTravail
    <3> QED
      BY <1>6, <1>9, <3>1, <3>2
  <2>4. CASE couper(u)
    <3> DEFINE s == requete[u].trigger
    <3>1. /\ requete' = [requete EXCEPT ![u] = Repos] /\ agent' = agent /\ travail' = travail
          /\ trouble' = [trouble EXCEPT ![s] =
                          trouble[s] \/ requete[u].etape \in {"eteint", "rallume"}]
          /\ Repos.etape = "repos"
      BY <2>4 DEF couper, Repos
    <3>2. CASE u \in EnBascule(t)
      <4>1. trouble'[t]
        BY <1>1, <3>1, <3>2 DEF EnBascule
      <4>2. EnBascule(t)' = EnBascule(t) \ {u} /\ \A v \in EnBascule(t)' : requete'[v] = requete[v]
        BY <1>1, <3>1, <3>2 DEF EnBascule
      <4>3. \A v \in EnBascule(t)' : ~ requete'[v].seul
        BY <3>2, <4>2 DEF BasculeDe
      <4> QED
        BY <4>1, <4>3 DEF BasculeDe
    <3>3. CASE u \notin EnBascule(t)
      <4>1. trouble'[t] = trouble[t]
        BY <1>1, <3>1, <3>3 DEF EnBascule
      <4>2. EnBascule(t)' = EnBascule(t) /\ \A v \in EnBascule(t) : requete'[v] = requete[v]
        BY <3>1, <3>3, HorsBascule
      <4> QED
        BY <1>4, <1>9, <3>1, <4>1, <4>2
    <3> QED
      BY <3>2, <3>3
  <2>5. ASSUME NEW s \in Touches, delete_trigger(u, s) PROVE BasculeDe(t)'
    <3>1. agent'[t].enabled => agent[t].enabled
      BY <1>1, <2>5 DEF delete_trigger, UnAgent
    <3>2. Retenus(t)' \subseteq Retenus(t)
      BY <1>9, <2>5 DEF delete_trigger
    <3> QED
      BY <1>8, <2>5, <3>1, <3>2 DEF delete_trigger, Commence, Repos
  <2>6. ASSUME NEW s \in Touches, lire_agent(u, s) \/ clear_queue(u, s) \/ file_du_declencheur(u, s)
        PROVE  BasculeDe(t)'
    <3>1. Retenus(t)' \subseteq Retenus(t) /\ agent' = agent
      BY <1>9, <2>6 DEF lire_agent, clear_queue, file_du_declencheur,
         perimer_travaux_du_declencheur
    <3> QED
      BY <1>8, <2>6, <3>1 DEF lire_agent, clear_queue, file_du_declencheur, Commence, Repos
  <2>7. CASE apres_supprimer(u) \/ run_now(u)
    <3>1. Retenus(t)' \subseteq Retenus(t) /\ agent' = agent
      BY <1>9, <2>7 DEF apres_supprimer, run_now, perimer_travaux_du_declencheur
    <3> QED
      BY <1>8, <2>7, <3>1 DEF apres_supprimer, run_now, Repos
  <2> QED
    BY <1>10, <2>1, <2>2, <2>3, <2>4, <2>5, <2>6, <2>7 DEF GesteDe, Requete
<1>11. ASSUME NEW u \in Usager, SurLaFile(u) PROVE BasculeDe(t)'
  <2>1. CASE reprendre_la_file(u)
    <3>1. FinBascule(u) /\ requete[u].etape = "rallume" /\ agent' = agent
      BY <2>1 DEF reprendre_la_file
    <3>2. CASE travail' = Rendus(requete[u].trigger)
      <4>1. travail \in [Job -> UnTravail]
        BY TypeNomme DEF TypeOK
      <4>2. Retenus(t)' \subseteq Retenus(t) /\ (requete[u].trigger = t => Retenus(t)' = {})
        BY <3>2, <4>1 DEF Rendus, Retenus, UnTravail
      <4> QED
        BY <1>6, <3>1, <4>2
    <3>3. CASE Retenus(requete[u].trigger) = {} /\ travail' = travail
      <4>1. Retenus(t)' = Retenus(t)
        BY <3>3 DEF Retenus
      <4> QED
        BY <1>6, <3>1, <3>3, <4>1
    <3> QED
      BY <2>1, <3>2, <3>3 DEF reprendre_la_file
  <2>2. CASE liberer_les_creneaux(u)
    <3>1. Retenus(t)' \subseteq Retenus(t) /\ agent' = agent
      BY <1>9, <2>2 DEF liberer_les_creneaux
    <3> QED
      BY <1>8, <2>2, <3>1 DEF liberer_les_creneaux, Repos
  <2> QED
    BY <1>11, <2>1, <2>2 DEF SurLaFile, File
<1>12. ASSUME \/ UNCHANGED vars
              \/ \E j \in Job : TravailDe(j)
              \/ \E l \in Livraison : Appel(l) \/ Rejet(l)
              \/ Temps
       PROVE  BasculeDe(t)'
  BY <1>7, <1>12 DEF vars, base, TravailDe, Travailleur, claim_next_job, complete_job,
     rendre_a_la_file, Appel, Rejet, Recue, recevoir, Juger, Enregistrer, Perdre, Temps, Tic
<1>13. ASSUME NEW h \in Horloge, TourDe(h) \/ AccidentDe(h) PROVE BasculeDe(t)'
  BY <1>7, <1>13 DEF base, TourDe, AccidentDe, _tick, due_triggers, Boucle, cron_inevaluable,
     consume_due, _occurrence_sautee, Perimer, Enfiler, tomber
<1> QED
  BY <1>10, <1>11, <1>12, <1>13 DEF Next

\* An agent that is on and whose last toggle ran alone to its end holds nothing, however the
\* requests before it overlapped or were cut.
THEOREM NothingHeldWhileOn == Spec => []RienDeRetenuEnMarche
<1> DEFINE BInv == \A t \in Trigger : BasculeDe(t)
<1>1. Init => BInv
  BY DEF Init, InitTriggers, BasculeDe, EnBascule, Retenus, Repos, Vierge, Job
<1>2. TypeOK /\ Sortes /\ BInv /\ [Next]_vars => BInv'
  BY BasculesTenues
<1>3. BInv => RienDeRetenuEnMarche
  BY DEF RienDeRetenuEnMarche, BasculeDe
<1> HIDE DEF BInv
<1> QED
  BY <1>1, <1>2, <1>3, SortesToujours, PTL DEF Spec

-----------------------------------------------------------------------------
(* Due dates. *)

\* A due date that comes after an instant comes at its next due date at the earliest.
LEMMA MultipleApres ==
  ASSUME NEW x \in Nat, NEW d \in Nat, d > x, d % PERIODE = 0
  PROVE  Apres(x) <= d
<1> DEFINE q == x \div PERIODE
           e == d \div PERIODE
<1>1. PERIODE \in Nat \ {0} /\ q \in Nat /\ e \in Nat
  BY TriggersAssumption
<1>2. d = e * PERIODE /\ q * PERIODE <= x
  BY <1>1
<1>3. e >= q + 1
  <2>1. ASSUME e <= q PROVE e * PERIODE <= q * PERIODE
    BY <1>1, <2>1
  <2>2. q * PERIODE \in Nat
    BY <1>1
  <2> HIDE DEF q, e
  <2> QED
    BY <1>1, <1>2, <2>1, <2>2
<1>4. (q + 1) * PERIODE <= e * PERIODE
  <2> HIDE DEF q, e
  <2> QED
    BY <1>1, <1>3
<1> QED
  BY <1>2, <1>4 DEF Apres

LEMMA ApresCroit ==
  ASSUME NEW x \in Nat, NEW y \in Nat, x <= y
  PROVE  Apres(x) <= Apres(y)
BY TriggersAssumption DEF Apres

\* Time stands still, or nothing else happens.
LEMMA PasDuTemps ==
  ASSUME [Next]_vars
  PROVE  \/ now' = now /\ manquees' = manquees
         \/ Temps
<1>1. ASSUME NEW u \in Usager, GesteDe(u) PROVE now' = now /\ manquees' = manquees
  BY <1>1 DEF GesteDe, Requete, eteindre, lire_agent, delete_trigger, clear_queue,
     file_du_declencheur, apres_eteindre, rallumer, apres_supprimer, run_now, couper
<1>2. ASSUME NEW u \in Usager, SurLaFile(u) PROVE now' = now /\ manquees' = manquees
  BY <1>2 DEF SurLaFile, File, reprendre_la_file, liberer_les_creneaux
<1>3. ASSUME NEW j \in Job, TravailDe(j) PROVE now' = now /\ manquees' = manquees
  BY <1>3 DEF TravailDe, Travailleur, claim_next_job, complete_job, rendre_a_la_file
<1>4. ASSUME NEW h \in Horloge, TourDe(h) \/ AccidentDe(h)
      PROVE  now' = now /\ manquees' = manquees
  BY <1>4 DEF TourDe, AccidentDe, _tick, due_triggers, Boucle, cron_inevaluable, consume_due,
     _occurrence_sautee, Perimer, Enfiler, tomber, base
<1>5. ASSUME NEW l \in Livraison, Appel(l) \/ Rejet(l) PROVE now' = now /\ manquees' = manquees
  BY <1>5 DEF Appel, Rejet, Recue, recevoir, Juger, Enregistrer, Perdre, base
<1> QED
  BY <1>1, <1>2, <1>3, <1>4, <1>5 DEF Next, vars, base

\* A due date moves when a clock wins it or when the agent comes back on.
Echeance(t) ==
  \/ agent'[t].echeance = agent[t].echeance
  \/ agent'[t].echeance = Apres(now)
  \/ \E u \in Usager : /\ requete[u].etape = "lu" /\ requete[u].trigger = t
                       /\ requete[u].reprise # 0 /\ agent'[t].echeance = requete[u].reprise

LEMMA PasDesEcheances ==
  ASSUME TypeOK, [Next]_vars, NEW t \in Trigger
  PROVE  /\ Echeance(t)
         /\ agent'[t].enabled => \/ agent[t].enabled /\ agent'[t].echeance = agent[t].echeance
                                 \/ agent'[t].echeance = Apres(now)
                                 \/ \E u \in Usager :
                                      /\ requete[u].etape = "lu" /\ requete[u].trigger = t
                                      /\ agent'[t].echeance = IF requete[u].reprise = 0
                                                              THEN agent[t].echeance
                                                              ELSE requete[u].reprise
<1> DEFINE Allumage ==
      agent'[t].enabled => \/ agent[t].enabled /\ agent'[t].echeance = agent[t].echeance
                           \/ agent'[t].echeance = Apres(now)
                           \/ \E u \in Usager :
                                /\ requete[u].etape = "lu" /\ requete[u].trigger = t
                                /\ agent'[t].echeance = IF requete[u].reprise = 0
                                                        THEN agent[t].echeance
                                                        ELSE requete[u].reprise
<1>1. agent \in [Trigger -> UnAgent]
  BY TypeNomme DEF TypeOK
<1>2. CASE agent' = agent
  BY <1>2 DEF Echeance
<1>3. ASSUME NEW u \in Usager, GesteDe(u), agent' # agent PROVE Echeance(t) /\ Allumage
  <2>1. ASSUME NEW s \in Touches, eteindre(u, s) \/ delete_trigger(u, s)
        PROVE  agent'[t].echeance = agent[t].echeance /\ (agent'[t].enabled => agent[t].enabled)
    BY <1>1, <2>1 DEF eteindre, delete_trigger, UnAgent
  <2>2. CASE rallumer(u) /\ requete[u].trigger = t
    <3>1. /\ requete[u].etape = "lu"
          /\ agent'[t].echeance = IF requete[u].reprise = 0 THEN agent[t].echeance
                                  ELSE requete[u].reprise
      BY <1>1, <1>3, <2>2 DEF rallumer, UnAgent
    <3> QED
      BY <2>2, <3>1 DEF Echeance
  <2>3. CASE rallumer(u) /\ requete[u].trigger # t
    <3>1. agent'[t] = agent[t]
      BY <1>1, <1>3, <2>3 DEF rallumer
    <3> QED
      BY <3>1 DEF Echeance
  <2> QED
    BY <1>3, <2>1, <2>2, <2>3 DEF Echeance, GesteDe, Requete, lire_agent, clear_queue,
       file_du_declencheur, apres_eteindre, apres_supprimer, run_now, couper
<1>4. ASSUME NEW h \in Horloge, TourDe(h) \/ AccidentDe(h), agent' # agent
      PROVE  Echeance(t) /\ Allumage
  <2>1. ASSUME NEW x \in tour[h].reste, consume_due(h, x)
        PROVE  \/ agent'[t] = agent[t]
               \/ agent'[t].echeance = Apres(now)
    BY <1>1, <1>4, <2>1 DEF consume_due, UnAgent
  <2>2. CASE Boucle(h)
    BY <1>4, <2>1, <2>2 DEF Boucle, cron_inevaluable, base, Echeance
  <2>3. CASE due_triggers(h) \/ _occurrence_sautee(h) \/ Perimer(h) \/ Enfiler(h) \/ tomber(h)
    BY <1>4, <2>3 DEF due_triggers, _occurrence_sautee, Perimer, Enfiler, tomber, base
  <2> QED
    BY <1>4, <2>2, <2>3 DEF TourDe, AccidentDe, _tick
<1>5. CASE UNCHANGED vars
  BY <1>2, <1>5 DEF vars, base
<1>6. ASSUME \/ \E u \in Usager : SurLaFile(u)
             \/ \E j \in Job : TravailDe(j)
             \/ \E l \in Livraison : Appel(l) \/ Rejet(l)
             \/ Temps
      PROVE  agent' = agent
  BY <1>6 DEF SurLaFile, File, reprendre_la_file, liberer_les_creneaux, TravailDe, Travailleur,
     claim_next_job, complete_job, rendre_a_la_file, Appel, Rejet, Recue, recevoir, Juger,
     Enregistrer, Perdre, Temps, Tic, base
<1> QED
  BY <1>2, <1>3, <1>4, <1>5, <1>6 DEF Next

\* A request that has read an agent is the one that was, or has just read it.
LEMMA PasDesLectures ==
  ASSUME TypeOK, [Next]_vars, NEW u \in Usager, requete'[u].etape = "lu"
  PROVE  \/ requete'[u] = requete[u]
         \/ \E t \in Touches :
              /\ now' = now /\ agent' = agent /\ requete'[u].trigger = t /\ requete'[u].lu = now
              /\ requete'[u].reprise = EcheanceReprise(t)
<1>1. requete \in [Usager -> UneRequete]
  BY TypeNomme DEF TypeOK
<1>2. CASE requete' = requete
  BY <1>2
<1>3. ASSUME NEW v \in Usager, NEW r, r.etape # "lu", requete' = [requete EXCEPT ![v] = r]
      PROVE  requete'[u] = requete[u]
  BY <1>1, <1>3
<1>4. ASSUME NEW v \in Usager, NEW t, NEW e \in {"eteint", "rallume"}, Bascule(v, t, e)
      PROVE  requete'[u] = requete[u]
  BY <1>1, <1>4 DEF Bascule, Repos, EnBascule, UneRequete
<1>5. Repos.etape # "lu"
      /\ \A e \in {"supprime", "vide", "file_vue"} : \A t :
           [Repos EXCEPT !.etape = e, !.trigger = t].etape # "lu"
  BY DEF Repos
<1>6. ASSUME NEW v \in Usager, GesteDe(v)
      PROVE  \/ requete'[u] = requete[u]
             \/ \E t \in Touches :
                  /\ now' = now /\ agent' = agent /\ requete'[u].trigger = t
                  /\ requete'[u].lu = now /\ requete'[u].reprise = EcheanceReprise(t)
  <2>1. ASSUME NEW t \in Touches, lire_agent(v, t)
        PROVE  \/ requete'[u] = requete[u]
               \/ /\ now' = now /\ agent' = agent /\ requete'[u].trigger = t
                  /\ requete'[u].lu = now /\ requete'[u].reprise = EcheanceReprise(t)
    BY <1>1, <2>1 DEF lire_agent, Repos
  <2>2. ASSUME NEW t \in Touches, eteindre(v, t) PROVE requete'[u] = requete[u]
    BY <1>4, <2>2 DEF eteindre
  <2>3. CASE rallumer(v)
    BY <1>3, <1>4, <1>5, <2>3 DEF rallumer
  <2>4. ASSUME NEW t \in Touches,
               delete_trigger(v, t) \/ clear_queue(v, t) \/ file_du_declencheur(v, t)
        PROVE  requete'[u] = requete[u]
    BY <1>3, <1>5, <2>4 DEF delete_trigger, clear_queue, file_du_declencheur
  <2>5. CASE apres_eteindre(v) \/ apres_supprimer(v) \/ run_now(v) \/ couper(v)
    BY <1>3, <1>5, <2>5 DEF apres_eteindre, FinBascule, apres_supprimer, run_now, couper
  <2> QED
    BY <1>6, <2>1, <2>2, <2>3, <2>4, <2>5 DEF GesteDe, Requete
<1>7. ASSUME NEW v \in Usager, SurLaFile(v) PROVE requete'[u] = requete[u]
  BY <1>3, <1>5, <1>7 DEF SurLaFile, File, reprendre_la_file, liberer_les_creneaux, FinBascule
<1>8. ASSUME \/ UNCHANGED vars
             \/ \E j \in Job : TravailDe(j)
             \/ \E l \in Livraison : Appel(l) \/ Rejet(l)
             \/ Temps
      PROVE  requete' = requete
  BY <1>8 DEF vars, base, TravailDe, Travailleur, claim_next_job, complete_job,
     rendre_a_la_file, Appel, Rejet, Recue, recevoir, Juger, Enregistrer, Perdre, Temps, Tic
<1>9. ASSUME NEW h \in Horloge, TourDe(h) \/ AccidentDe(h) PROVE requete' = requete
  BY <1>9 DEF base, TourDe, AccidentDe, _tick, due_triggers, Boucle, cron_inevaluable,
     consume_due, _occurrence_sautee, Perimer, Enfiler, tomber
<1> QED
  BY <1>2, <1>6, <1>7, <1>8, <1>9 DEF Next

\* What a turn or a request knows is of the current period.  An agent that a turn has yet to
\* take is as it was read, or already won for this period; one that a turn won is, and by it
\* alone.
Instants ==
  /\ \A t \in Trigger : agent[t].echeance <= Apres(now)
  /\ \A h \in Horloge :
       tour[h].etape # "repos" => tour[h].lu <= now /\ Apres(tour[h].lu) = Apres(now)
  /\ \A u \in Usager : requete[u].etape = "lu" =>
       /\ requete[u].lu <= now /\ Apres(requete[u].lu) = Apres(now)
       /\ requete[u].reprise \in {0, Apres(now)}
  /\ \A h \in Horloge : \A x \in tour[h].reste :
       /\ tour[h].etape # "repos"
       /\ \/ x.echeance = agent[x.trigger].echeance
          \/ agent[x.trigger].echeance = Apres(now)
  /\ \A h \in Horloge : EnVol(h) =>
       /\ tour[h].ligne.echeance <= now
       /\ agent[tour[h].ligne.trigger].echeance = Apres(now)
  /\ \A g, h \in Horloge :
       EnVol(g) /\ EnVol(h) /\ tour[g].ligne.trigger = tour[h].ligne.trigger => g = h

LEMMA Periode ==
  ASSUME TickPonctuel, TypeOK, Instants, Temps
  PROVE  /\ now' \in Nat /\ now' = now + 1 /\ Apres(now) <= Apres(now')
         /\ \A h \in Horloge : tour[h].etape # "repos" => Apres(now') = Apres(now)
         /\ \A u \in Usager : requete[u].etape = "lu" =>
              Apres(now') = Apres(now) /\ Apres(requete[u].lu) > now'
<1>1. now \in Nat /\ now' = now + 1 /\ now' \in Nat /\ ~EnRetard(now')
  BY DEF TypeOK, TypeTriggers, Temps, Tic
<1>2. Apres(now) \in Nat /\ Apres(now') \in Nat /\ Apres(now) <= Apres(now')
  BY <1>1, ApresEstApres, ApresCroit
<1>3. ASSUME NEW x \in Nat, Apres(x) = Apres(now), ~ (Apres(x) <= now')
      PROVE  Apres(now') = Apres(now) /\ Apres(x) > now'
  <2>1. Apres(now) > now'
    BY <1>1, <1>2, <1>3
  <2>2. Apres(now') <= Apres(now)
    BY <1>1, <2>1, RienEntre
  <2> QED
    BY <1>2, <1>3, <2>1, <2>2
<1>4. ASSUME NEW h \in Horloge, tour[h].etape # "repos" PROVE Apres(now') = Apres(now)
  <2>1. tour[h].lu \in Nat
    BY DEF TypeOK, TypeClock
  <2> QED
    BY <1>1, <1>3, <1>4, <2>1 DEF EnRetard, Instants
<1>5. ASSUME NEW u \in Usager, requete[u].etape = "lu"
      PROVE  Apres(now') = Apres(now) /\ Apres(requete[u].lu) > now'
  <2>1. requete[u].lu \in Nat
    BY DEF TypeOK, TypeTriggers
  <2> QED
    BY <1>1, <1>3, <1>5, <2>1 DEF EnRetard, Instants
<1> QED
  BY <1>1, <1>2, <1>4, <1>5

LEMMA InstantsTenus ==
  ASSUME TickPonctuel, TypeOK, Instants, [Next]_vars
  PROVE  Instants'
<1>1. /\ now \in Nat /\ agent \in [Trigger -> UnAgent] /\ tour \in [Horloge -> UnTour]
      /\ \A h \in Horloge : Menee(tour[h])
      /\ \A u \in Usager : Visee(requete[u])
  BY TypeNomme, HorlogesNommees DEF TypeOK
<1>2. Apres(now) \in Nat /\ Apres(now) > now
  BY <1>1, ApresEstApres
<1>3. CASE Temps
  <2>1. UNCHANGED <<agent, tour, requete>>
    BY <1>3 DEF Temps, Tic
  <2>2. /\ now' \in Nat /\ now' = now + 1 /\ Apres(now) <= Apres(now')
        /\ \A h \in Horloge : tour[h].etape # "repos" => Apres(now') = Apres(now)
        /\ \A u \in Usager : requete[u].etape = "lu" => Apres(now') = Apres(now)
    BY <1>3, Periode
  <2>3. \A t \in Trigger : agent[t].echeance \in Nat
    BY <1>1 DEF UnAgent
  <2>4. Apres(now') \in Nat /\ Apres(now)' = Apres(now')
    BY <2>2, ApresEstApres DEF Apres
  <2>5. \A h \in Horloge : /\ tour[h].lu \in Nat /\ tour[h].ligne.echeance \in Nat
                           /\ (EnVol(h) => tour[h].etape # "repos") /\ EnVol(h)' = EnVol(h)
    BY <1>1, <2>1 DEF EnVol, UnTour, UneLigne
  <2>6. \A u \in Usager : requete[u].lu \in Nat
    BY <1>1 DEF Visee, UneRequete
  <2>7. /\ \A h \in Horloge : Apres(tour[h].lu)' = Apres(tour[h].lu)
        /\ \A u \in Usager : Apres(requete[u].lu)' = Apres(requete[u].lu)
    BY <2>1 DEF Apres
  <2>8. \A t \in Trigger : agent'[t].echeance <= Apres(now')
    BY <1>2, <2>1, <2>2, <2>3, <2>4 DEF Instants
  <2>9. \A h \in Horloge : tour'[h].etape # "repos" =>
          tour'[h].lu <= now' /\ Apres(tour'[h].lu) = Apres(now')
    BY <1>1, <2>1, <2>2, <2>5 DEF Instants
  <2>10. \A u \in Usager : requete'[u].etape = "lu" =>
           /\ requete'[u].lu <= now' /\ Apres(requete'[u].lu) = Apres(now')
           /\ requete'[u].reprise \in {0, Apres(now')}
    BY <1>1, <2>1, <2>2, <2>6 DEF Instants
  <2>11. \A h \in Horloge : \A x \in tour'[h].reste :
           /\ tour'[h].etape # "repos"
           /\ \/ x.echeance = agent'[x.trigger].echeance
              \/ agent'[x.trigger].echeance = Apres(now')
    BY <2>1, <2>2 DEF Instants
  <2>12. \A h \in Horloge : EnVol(h)' =>
           /\ tour'[h].ligne.echeance <= now'
           /\ agent'[tour'[h].ligne.trigger].echeance = Apres(now')
    BY <1>1, <2>1, <2>2, <2>5 DEF Instants
  <2>13. \A g, h \in Horloge :
           EnVol(g)' /\ EnVol(h)' /\ tour'[g].ligne.trigger = tour'[h].ligne.trigger => g = h
    BY <2>1, <2>5 DEF Instants
  <2> QED
    BY <2>4, <2>7, <2>8, <2>9, <2>10, <2>11, <2>12, <2>13, Zenon DEF Instants, Apres
<1>4. CASE now' = now
  <2>1. \A t \in Trigger : agent'[t].echeance = agent[t].echeance
                           \/ agent'[t].echeance = Apres(now)
    BY <1>2, PasDesEcheances DEF Echeance, Instants
  <2>2. \A t \in Trigger : agent'[t].echeance <= Apres(now)
    BY <1>2, <2>1 DEF Instants
  <2>3. ASSUME NEW h \in Horloge, tour'[h].etape # "repos"
        PROVE  tour'[h].lu <= now /\ Apres(tour'[h].lu) = Apres(now)
    BY <1>1, <2>3, PasDesTours DEF Menage, Instants, Attente
  <2>4. ASSUME NEW u \in Usager, requete'[u].etape = "lu"
        PROVE  /\ requete'[u].lu <= now /\ Apres(requete'[u].lu) = Apres(now)
               /\ requete'[u].reprise \in {0, Apres(now)}
    BY <1>1, <2>4, PasDesLectures DEF Instants, EcheanceReprise
  <2>5. ASSUME NEW h \in Horloge, NEW x \in tour'[h].reste
        PROVE  /\ tour'[h].etape # "repos"
               /\ \/ x.echeance = agent'[x.trigger].echeance
                  \/ agent'[x.trigger].echeance = Apres(now)
    <3>1. Menage(h) /\ tour'[h] \in UnTour
      BY PasDesTours, PasTypes, HorlogesNommees DEF TypeOK, UnTour, UneLigne, TypeClock
    <3>2. x.trigger \in Trigger
      BY <3>1 DEF UnTour
    <3>3. /\ tour'[h].etape # "repos"
          /\ \/ x.echeance = agent[x.trigger].echeance
             \/ agent[x.trigger].echeance = Apres(now)
      BY <1>1, <2>5, <3>1 DEF Menage, Instants, Attente
    <3> QED
      BY <2>1, <3>2, <3>3
  <2>6. ASSUME NEW h \in Horloge, EnVol(h)'
        PROVE  /\ tour'[h].ligne.trigger \in Trigger
               /\ tour'[h].ligne.echeance <= now
               /\ agent'[tour'[h].ligne.trigger].echeance = Apres(now)
               /\ \/ EnVol(h) /\ tour'[h].ligne = tour[h].ligne
                  \/ /\ Gagne(tour'[h].ligne.trigger)
                     /\ \A g \in Horloge \ {h} : tour'[g] = tour[g]
    <3>1. Menage(h) /\ tour'[h].etape \in {"consommee", "perimee"}
      BY <2>6, PasDesTours DEF EnVol
    <3>2. tour'[h].ligne.trigger \in Trigger
      BY <3>1, PasTypes DEF TypeOK, TypeClock
    <3>3. CASE \/ tour'[h] = tour[h]
               \/ tour[h].etape = "consommee" /\ tour'[h].ligne = tour[h].ligne
      BY <2>1, <3>1, <3>2, <3>3 DEF EnVol, Instants
    <3>4. CASE /\ tour[h].etape = "boucle" /\ tour'[h].ligne \in tour[h].reste
               /\ consume_due(h, tour'[h].ligne) /\ Gagne(tour'[h].ligne.trigger)
      <4> DEFINE x == tour'[h].ligne
      <4>1. agent[x.trigger].echeance <= now /\ agent[x.trigger].echeance # Apres(now)
        BY <1>1, <1>2, <3>2, <3>4 DEF Gagne, UnAgent
      <4>2. x.echeance <= now
        BY <3>4, <4>1 DEF Instants
      <4>3. agent'[x.trigger].echeance = Apres(now)
        BY <1>1, <3>2, <3>4 DEF consume_due, UnAgent
      <4>4. \A g \in Horloge \ {h} : tour'[g] = tour[g]
        BY <1>1, <3>4 DEF consume_due
      <4> QED
        BY <3>2, <3>4, <4>2, <4>3, <4>4
    <3> QED
      BY <3>1, <3>3, <3>4 DEF Menage, Attente
  <2>7. ASSUME NEW g \in Horloge, NEW h \in Horloge, EnVol(g)', EnVol(h)',
               tour'[g].ligne.trigger = tour'[h].ligne.trigger, g # h
        PROVE  FALSE
    <3>1. ASSUME NEW a \in Horloge, NEW b \in Horloge, a # b, EnVol(a)', EnVol(b)',
                 tour'[a].ligne.trigger = tour'[b].ligne.trigger,
                 Gagne(tour'[a].ligne.trigger), \A c \in Horloge \ {a} : tour'[c] = tour[c]
          PROVE  FALSE
      <4>1. EnVol(b) /\ tour[b].ligne.trigger = tour'[a].ligne.trigger
        BY <3>1 DEF EnVol
      <4>2. agent[tour[b].ligne.trigger].echeance = Apres(now)
        BY <4>1 DEF Instants
      <4> QED
        BY <1>1, <1>2, <3>1, <4>1, <4>2 DEF Gagne
    <3> QED
      BY <2>6, <2>7, <3>1 DEF Instants
  <2>8. Apres(now)' = Apres(now)
    BY <1>4 DEF Apres
  <2>9. /\ \A h \in Horloge : Apres(tour[h].lu)' = Apres(tour'[h].lu)
        /\ \A u \in Usager : Apres(requete[u].lu)' = Apres(requete'[u].lu)
    BY DEF Apres
  <2> QED
    BY <1>4, <2>2, <2>3, <2>4, <2>5, <2>6, <2>7, <2>8, <2>9 DEF Instants
<1> QED
  BY <1>3, <1>4, PasDuTemps

LEMMA InstantsAuDepart ==
  ASSUME Init
  PROVE  Instants
<1>1. Apres(0) \in Nat /\ now = 0 /\ Apres(now) = Apres(0)
  BY ApresEstApres DEF Init, InitTriggers, Apres
<1>2. \A t \in Trigger : agent[t].echeance <= Apres(now)
  BY <1>1 DEF Init, InitTriggers
<1> QED
  BY <1>2 DEF Instants, EnVol, Init, InitTriggers, InitClock, Attente, Repos

\* A turn that has won a due date had it, or wins it now.
LEMMA EnVolAvant ==
  ASSUME TypeOK, [Next]_vars, NEW h \in Horloge, EnVol(h)'
  PROVE  \/ EnVol(h) /\ tour'[h].ligne = tour[h].ligne
         \/ /\ tour'[h].ligne \in tour[h].reste /\ consume_due(h, tour'[h].ligne)
            /\ Gagne(tour'[h].ligne.trigger)
<1>1. Menage(h) /\ tour'[h].etape \in {"consommee", "perimee"}
  BY PasDesTours DEF EnVol
<1> QED
  BY <1>1 DEF Menage, EnVol, Attente

\* The due date a turn wins is the one it read.
LEMMA GagneeEst ==
  ASSUME TypeOK, Instants, NEW h \in Horloge, NEW x \in tour[h].reste, Gagne(x.trigger)
  PROVE  x.trigger \in Trigger /\ x.echeance = agent[x.trigger].echeance
<1>1. x.trigger \in Trigger
  BY HorlogesNommees DEF TypeOK, UnTour
<1>2. now \in Nat /\ agent[x.trigger].echeance \in Nat
  BY <1>1 DEF TypeOK, TypeTriggers
<1>3. Apres(now) \in Nat /\ Apres(now) > now
  BY <1>2, ApresEstApres
<1> QED
  BY <1>1, <1>2, <1>3 DEF Instants, Gagne

\* A turn that enqueues has done with its due date.
LEMMA EnfilerFinit ==
  ASSUME TypeOK, NEW h \in Horloge, Enfiler(h)
  PROVE  EnVol(h) /\ ~ EnVol(h)'
BY HorlogesNommees DEF TypeOK, Enfiler, EnVol, Suite, Attente

\* What was enqueued, and what a turn has won, is older than the due date to come.
Dates ==
  /\ \A t \in Trigger : \A j \in DeLHorloge(t) :
       travail[j].date < agent[t].echeance /\ travail[j].date <= now
  /\ \A h \in Horloge : EnVol(h) =>
       \A j \in DeLHorloge(tour[h].ligne.trigger) : travail[j].date # tour[h].ligne.echeance
  /\ UnGagnantParEcheance

LEMMA DatesTenues ==
  ASSUME TickPonctuel, TypeOK, Instants, Dates, [Next]_vars
  PROVE  Dates'
<1>1. TypeOK' /\ Instants'
  BY PasTypes, InstantsTenus
<1>2. /\ now \in Nat /\ now' \in Nat /\ now <= now' /\ Apres(now) \in Nat /\ Apres(now) > now
  <2>1. now \in Nat
    BY DEF TypeOK, TypeTriggers
  <2>2. now' = now \/ now' = now + 1
    BY PasDuTemps DEF Temps, Tic
  <2> QED
    BY <2>1, <2>2, ApresEstApres
<1>3. \A t \in Trigger : /\ agent[t].echeance \in Nat /\ agent'[t].echeance \in Nat
                         /\ agent[t].echeance <= agent'[t].echeance
  <2> TAKE t \in Trigger
  <2>1. agent[t].echeance \in Nat /\ agent'[t].echeance \in Nat
    BY <1>1 DEF TypeOK, TypeTriggers
  <2>2. agent'[t].echeance = agent[t].echeance \/ agent'[t].echeance = Apres(now)
    BY PasDesEcheances DEF Echeance, Instants
  <2> QED
    BY <1>2, <2>1, <2>2 DEF Instants
<1>4. \A j \in Job : travail[j].date \in Nat
  BY DEF TypeOK, TypeTriggers
\* A job of a clock was there, or is what a turn has just enqueued.
<1>5. ASSUME NEW t \in Trigger, NEW j \in DeLHorloge(t)'
      PROVE  \/ j \in DeLHorloge(t) /\ travail'[j].date = travail[j].date
             \/ \E h \in Horloge : /\ Enfiler(h) /\ j = Prochain /\ t = tour[h].ligne.trigger
                                   /\ travail'[j].date = tour[h].ligne.echeance
  BY <1>5, PasDesTravaux DEF DeLHorloge, Suivi, Enfile
<1>6. ASSUME NEW t \in Trigger, NEW j \in DeLHorloge(t)'
      PROVE  travail'[j].date < agent'[t].echeance /\ travail'[j].date <= now'
  <2>1. CASE j \in DeLHorloge(t) /\ travail'[j].date = travail[j].date
    BY <1>2, <1>3, <1>4, <2>1 DEF Dates, DeLHorloge
  <2>2. ASSUME NEW h \in Horloge, Enfiler(h), t = tour[h].ligne.trigger,
               travail'[j].date = tour[h].ligne.echeance
        PROVE  travail'[j].date < agent'[t].echeance /\ travail'[j].date <= now'
    <3>1. tour[h].ligne.echeance <= now /\ agent[t].echeance = Apres(now)
      BY <2>2, EnfilerFinit DEF Instants
    <3>2. tour[h].ligne.echeance \in Nat
      BY DEF TypeOK, TypeClock
    <3> QED
      BY <1>2, <1>3, <2>2, <3>1, <3>2
  <2> QED
    BY <1>5, <2>1, <2>2
<1>7. ASSUME NEW h \in Horloge, EnVol(h)', NEW j \in DeLHorloge(tour[h].ligne.trigger)'
      PROVE  travail'[j].date # tour'[h].ligne.echeance
  <2>1. tour'[h].ligne.trigger \in Trigger
    BY <1>1, <1>7 DEF TypeOK, TypeClock, EnVol
  <2> DEFINE t == tour'[h].ligne.trigger
  <2>2. /\ travail'[j].trigger = t /\ travail'[j].origine = "horloge"
        /\ \/ j \in DeLHorloge(t) /\ travail'[j].date = travail[j].date
           \/ \E g \in Horloge : /\ Enfiler(g) /\ j = Prochain /\ t = tour[g].ligne.trigger
                                 /\ travail'[j].date = tour[g].ligne.echeance
    <3>1. j \in Job /\ travail'[j].trigger = t /\ travail'[j].origine = "horloge"
      BY <1>7 DEF DeLHorloge
    <3> QED
      BY <3>1, PasDesTravaux DEF DeLHorloge, Suivi, Enfile
  <2>3. CASE EnVol(h) /\ tour'[h].ligne = tour[h].ligne
    <3>1. ASSUME NEW g \in Horloge, Enfiler(g), tour'[h].ligne.trigger = tour[g].ligne.trigger
          PROVE  FALSE
      <4>1. EnVol(g) /\ ~ EnVol(g)'
        BY <3>1, EnfilerFinit
      <4> QED
        BY <1>7, <2>3, <3>1, <4>1 DEF Instants
    <3> QED
      BY <2>2, <2>3, <3>1 DEF Dates
  <2>4. CASE /\ tour'[h].ligne \in tour[h].reste /\ consume_due(h, tour'[h].ligne)
             /\ Gagne(tour'[h].ligne.trigger)
    <3>1. tour'[h].ligne.echeance = agent[tour'[h].ligne.trigger].echeance
      BY <2>4, GagneeEst
    <3>2. travail' = travail
      BY <2>4 DEF consume_due
    <3>3. j \in DeLHorloge(tour'[h].ligne.trigger) /\ travail'[j].date = travail[j].date
      BY <1>7, <2>2, <3>2 DEF DeLHorloge
    <3>4. travail[j].date < agent[tour'[h].ligne.trigger].echeance
      BY <2>1, <3>3 DEF Dates
    <3>5. travail[j].date \in Nat
      BY <1>4, <3>3 DEF DeLHorloge
    <3> QED
      BY <1>3, <2>1, <3>1, <3>3, <3>4, <3>5
  <2> QED
    BY <1>7, <2>3, <2>4, EnVolAvant
<1>8. ASSUME NEW t \in Trigger, NEW j \in DeLHorloge(t)', NEW k \in DeLHorloge(t)',
             travail'[j].date = travail'[k].date
      PROVE  j = k
  <2>1. CASE /\ j \in DeLHorloge(t) /\ travail'[j].date = travail[j].date
             /\ k \in DeLHorloge(t) /\ travail'[k].date = travail[k].date
    BY <1>8, <2>1 DEF Dates, UnGagnantParEcheance
  <2>2. ASSUME NEW a \in DeLHorloge(t), NEW b, NEW h \in Horloge, Enfiler(h),
               travail'[a].date = travail[a].date, t = tour[h].ligne.trigger,
               travail'[b].date = tour[h].ligne.echeance
        PROVE  travail'[a].date # travail'[b].date
    BY <2>2, EnfilerFinit DEF Dates
  <2> QED
    BY <1>5, <1>8, <2>1, <2>2
<1> QED
  BY <1>6, <1>7, <1>8 DEF Dates, UnGagnantParEcheance

\* Whatever clocks share the database, and whatever toggles and jobs are lost or retried, a due
\* date is enqueued once -- provided a turn and a request end before the next due date.
THEOREM OneWinnerPerDueDate == TickPonctuel => (Spec => []UnGagnantParEcheance)
<1> SUFFICES ASSUME TickPonctuel PROVE Spec => []UnGagnantParEcheance
  OBVIOUS
<1>1. Init => Instants /\ Dates
  <2>1. Init => Dates
    BY DEF Init, InitTriggers, InitClock, Dates, DeLHorloge, UnGagnantParEcheance, Vierge, EnVol,
       Attente
  <2> QED
    BY <2>1, InstantsAuDepart
<1>2. TypeOK /\ Instants /\ Dates /\ [Next]_vars => Instants' /\ Dates'
  BY InstantsTenus, DatesTenues
<1>3. Dates => UnGagnantParEcheance
  BY DEF Dates
<1> QED
  BY <1>1, <1>2, <1>3, TypeCorrect, PTL DEF Spec

\* An agent that is on, a request that found it on and a turn that won it are not at a due date
\* that fell while it was off.
Manques ==
  /\ \A t \in Trigger : \A m \in manquees[t] : m <= now /\ agent[t].kind = "schedule"
  /\ \A t \in Trigger : agent[t].enabled => agent[t].echeance \notin manquees[t]
  /\ \A u \in Usager : requete[u].etape = "lu" /\ requete[u].reprise = 0 =>
       agent[requete[u].trigger].echeance \notin manquees[requete[u].trigger]
  /\ \A h \in Horloge : EnVol(h) =>
       tour[h].ligne.echeance \notin manquees[tour[h].ligne.trigger]
  /\ RythmeRepris

LEMMA ManquesTenus ==
  ASSUME TickPonctuel, TypeOK, Instants, Dates, Manques, [Next]_vars
  PROVE  Manques'
<1>1. TypeOK' /\ Instants' /\ \A t \in Trigger : agent'[t].kind = agent[t].kind
  BY PasTypes, InstantsTenus, PasDesAgents DEF Reste
<1>2. now \in Nat /\ Apres(now) \in Nat /\ Apres(now) > now
      /\ \A t \in Trigger : agent[t].echeance \in Nat
  BY ApresEstApres DEF TypeOK, TypeTriggers
<1>3. CASE Temps
  <2>1. UNCHANGED <<agent, tour, requete, travail>>
    BY <1>3 DEF Temps, Tic
  <2>2. now' = now + 1 /\ now' \in Nat
        /\ \A u \in Usager : requete[u].etape = "lu" => Apres(requete[u].lu) > now'
    BY <1>3, Periode
  <2>3. \A t \in Trigger :
          \/ manquees'[t] = manquees[t]
          \/ /\ agent[t].kind = "schedule" /\ ~agent[t].enabled /\ now' % PERIODE = 0
             /\ manquees'[t] = manquees[t] \cup {now'}
    BY <1>3 DEF Temps, Tic
  <2>4. \A t \in Trigger : manquees[t] \subseteq Nat
    BY DEF TypeOK, TypeTriggers
  <2>5. ASSUME NEW t \in Trigger, NEW m \in manquees'[t]
        PROVE  m <= now' /\ agent'[t].kind = "schedule"
    BY <1>2, <2>1, <2>2, <2>3, <2>4, <2>5 DEF Manques
  <2>6. ASSUME NEW t \in Trigger, agent'[t].enabled PROVE agent'[t].echeance \notin manquees'[t]
    BY <2>1, <2>3, <2>6 DEF Manques
  <2>7. ASSUME NEW u \in Usager, requete'[u].etape = "lu", requete'[u].reprise = 0
        PROVE  agent'[requete'[u].trigger].echeance \notin manquees'[requete'[u].trigger]
    <3>1. requete[u].trigger \in Trigger /\ requete[u].lu \in Nat /\ requete[u].lu <= now
          /\ Apres(requete[u].lu) > now' /\ Apres(requete[u].lu) \in Nat
      BY <2>1, <2>2, <2>7, ApresEstApres DEF TypeOK, TypeTriggers, Instants
    <3>2. now' % PERIODE # 0
      <4> SUFFICES ASSUME now' % PERIODE = 0 PROVE FALSE
        OBVIOUS
      <4>1. Apres(requete[u].lu) <= now'
        BY <1>2, <2>2, <3>1, MultipleApres
      <4> QED
        BY <2>2, <3>1, <4>1
    <3> QED
      BY <2>1, <2>3, <2>7, <3>1, <3>2 DEF Manques
  <2>8. ASSUME NEW h \in Horloge, EnVol(h)'
        PROVE  tour'[h].ligne.echeance \notin manquees'[tour'[h].ligne.trigger]
    <3>1. EnVol(h) /\ tour[h].ligne.trigger \in Trigger /\ tour[h].ligne.echeance \in Nat
      BY <2>1, <2>8 DEF TypeOK, TypeClock, EnVol
    <3>2. tour[h].ligne.echeance <= now
      BY <3>1 DEF Instants
    <3> QED
      BY <1>2, <2>1, <2>2, <2>3, <3>1, <3>2 DEF Manques
  <2>9. ASSUME NEW t \in Trigger, NEW j \in DeLHorloge(t)'
        PROVE  travail'[j].date \notin manquees'[t]
    <3>1. j \in DeLHorloge(t) /\ travail[j].date \in Nat /\ travail[j].date <= now
      BY <2>1, <2>9 DEF DeLHorloge, TypeOK, TypeTriggers, Dates
    <3> QED
      BY <1>2, <2>1, <2>2, <2>3, <3>1 DEF Manques, RythmeRepris
  <2> QED
    BY <2>5, <2>6, <2>7, <2>8, <2>9 DEF Manques, RythmeRepris
<1>4. CASE now' = now /\ manquees' = manquees
  <2>1. \A t \in Trigger : Apres(now) \notin manquees[t]
    BY <1>2 DEF Manques
  <2>2. \A u \in Usager : requete[u].etape = "lu" /\ requete[u].reprise # 0 =>
          requete[u].reprise = Apres(now)
    BY DEF Instants
  <2>3. ASSUME NEW t \in Trigger, NEW m \in manquees'[t]
        PROVE  m <= now' /\ agent'[t].kind = "schedule"
    BY <1>1, <1>4, <2>3 DEF Manques
  <2>4. ASSUME NEW t \in Trigger, agent'[t].enabled PROVE agent'[t].echeance \notin manquees'[t]
    BY <1>4, <2>1, <2>2, <2>4, PasDesEcheances DEF Manques
  <2>5. ASSUME NEW u \in Usager, requete'[u].etape = "lu", requete'[u].reprise = 0
        PROVE  agent'[requete'[u].trigger].echeance \notin manquees'[requete'[u].trigger]
    <3>1. CASE requete'[u] = requete[u]
      <4>1. requete[u].trigger \in Trigger
        BY <2>5, <3>1 DEF TypeOK, TypeTriggers
      <4>2. agent'[requete[u].trigger].echeance = agent[requete[u].trigger].echeance
            \/ agent'[requete[u].trigger].echeance = Apres(now)
        BY <2>2, <4>1, PasDesEcheances DEF Echeance
      <4> QED
        BY <1>4, <2>1, <2>5, <3>1, <4>1, <4>2 DEF Manques
    <3>2. ASSUME NEW t \in Touches, agent' = agent, requete'[u].trigger = t,
                 requete'[u].reprise = EcheanceReprise(t)
          PROVE  agent'[requete'[u].trigger].echeance \notin manquees'[requete'[u].trigger]
      <4>1. t \in Trigger /\ ~ (agent[t].kind = "schedule" /\ ~agent[t].enabled)
        BY <1>2, <2>5, <3>2, TriggersAssumption DEF EcheanceReprise
      <4> QED
        BY <1>4, <3>2, <4>1 DEF Manques
    <3> QED
      BY <2>5, <3>1, <3>2, PasDesLectures
  <2>6. ASSUME NEW h \in Horloge, EnVol(h)'
        PROVE  tour'[h].ligne.echeance \notin manquees'[tour'[h].ligne.trigger]
    <3>1. CASE EnVol(h) /\ tour'[h].ligne = tour[h].ligne
      BY <1>4, <3>1 DEF Manques
    <3>2. CASE tour'[h].ligne \in tour[h].reste /\ Gagne(tour'[h].ligne.trigger)
      <4>1. tour'[h].ligne.trigger \in Trigger
            /\ tour'[h].ligne.echeance = agent[tour'[h].ligne.trigger].echeance
        BY <3>2, GagneeEst
      <4> QED
        BY <1>4, <3>2, <4>1 DEF Manques, Gagne
    <3> QED
      BY <2>6, <3>1, <3>2, EnVolAvant
  <2>7. ASSUME NEW t \in Trigger, NEW j \in DeLHorloge(t)'
        PROVE  travail'[j].date \notin manquees'[t]
    <3>1. \/ j \in DeLHorloge(t) /\ travail'[j].date = travail[j].date
          \/ \E h \in Horloge : /\ Enfiler(h) /\ t = tour[h].ligne.trigger
                                /\ travail'[j].date = tour[h].ligne.echeance
      BY <2>7, PasDesTravaux DEF DeLHorloge, Suivi, Enfile
    <3> QED
      BY <1>4, <3>1, EnfilerFinit DEF Manques, RythmeRepris
  <2> QED
    BY <2>3, <2>4, <2>5, <2>6, <2>7 DEF Manques, RythmeRepris
<1> QED
  BY <1>3, <1>4, PasDuTemps

\* What fell due while an agent was off never starts, however it was switched off and on, and
\* whatever turn was in progress -- under the same condition.
THEOREM RhythmTakenUp == TickPonctuel => (Spec => []RythmeRepris)
<1> SUFFICES ASSUME TickPonctuel PROVE Spec => []RythmeRepris
  OBVIOUS
<1>1. Init => Instants /\ Dates /\ Manques
  <2>1. Init => Dates /\ Manques
    BY DEF Init, InitTriggers, InitClock, Dates, DeLHorloge, UnGagnantParEcheance, Vierge, EnVol,
       Attente, Manques, RythmeRepris, Repos
  <2> QED
    BY <2>1, InstantsAuDepart
<1>2. TypeOK /\ Instants /\ Dates /\ Manques /\ [Next]_vars => Instants' /\ Dates' /\ Manques'
  BY InstantsTenus, DatesTenues, ManquesTenus
<1>3. Manques => RythmeRepris
  BY DEF Manques
<1> QED
  BY <1>1, <1>2, <1>3, TypeCorrect, PTL DEF Spec

\* The occurrences that wait and that nobody ever took, and the room that a turn which has
\* expired them has made.
Attend(t) == {j \in DeLHorloge(t) : travail[j].etat = "pending" /\ travail[j].prises = 0}

Places ==
  /\ \A t \in Trigger : Cardinality(Attend(t)) <= 1 + rates[t]
  /\ \A h \in Horloge : tour[h].etape = "perimee" =>
       Cardinality(Attend(tour[h].ligne.trigger)) <= rates[tour[h].ligne.trigger]

LEMMA AttendEst ==
  ASSUME TypeOK, Sortes, [Next]_vars, NEW t \in Trigger
  PROVE  /\ IsFiniteSet(Attend(t)) /\ IsFiniteSet(Attend(t)')
         /\ Cardinality(Attend(t)) \in Nat /\ Cardinality(Attend(t)') \in Nat
         /\ \/ Attend(t)' \subseteq Attend(t)
            \/ /\ \E h \in Horloge : Enfiler(h) /\ t = tour[h].ligne.trigger
               /\ Cardinality(Attend(t)') <= Cardinality(Attend(t)) + 1
<1>1. IsFiniteSet(Job)
  BY FS_Interval, TriggersAssumption DEF Job
<1>2. /\ IsFiniteSet(Attend(t)) /\ IsFiniteSet(Attend(t)')
      /\ Cardinality(Attend(t)) \in Nat /\ Cardinality(Attend(t)') \in Nat
  <2>1. Attend(t) \subseteq Job /\ Attend(t)' \subseteq Job
    BY DEF Attend, DeLHorloge
  <2> QED
    BY <1>1, <2>1, FS_Subset, FS_CardinalityType
<1>3. ASSUME NEW j \in Attend(t)'
      PROVE  \/ j \in Attend(t)
             \/ j = Prochain /\ \E h \in Horloge : Enfiler(h) /\ t = tour[h].ligne.trigger
  <2>1. /\ j \in Job /\ travail'[j].trigger = t /\ travail'[j].origine = "horloge"
        /\ travail'[j].etat = "pending" /\ travail'[j].prises = 0
    BY DEF Attend, DeLHorloge
  <2>2. CASE Suivi(j)
    <3>1. /\ travail[j].trigger = t /\ travail[j].origine = "horloge"
          /\ travail[j].etat \in {"pending", "held", "claimed"} /\ travail[j].prises = 0
      BY <2>1, <2>2 DEF Suivi
    <3>2. travail[j].etat = "pending"
      BY <2>1, <3>1 DEF Sortes
    <3> QED
      BY <2>1, <3>1, <3>2 DEF Attend, DeLHorloge
  <2> QED
    BY <2>1, <2>2, PasDesTravaux DEF Enfile
<1>4. CASE Attend(t)' \subseteq Attend(t)
  BY <1>2, <1>4
<1>5. CASE ~ (Attend(t)' \subseteq Attend(t))
  <2>1. Attend(t)' \subseteq Attend(t) \cup {Prochain}
        /\ \E h \in Horloge : Enfiler(h) /\ t = tour[h].ligne.trigger
    BY <1>3, <1>5
  <2>2. /\ IsFiniteSet(Attend(t) \cup {Prochain})
        /\ Cardinality(Attend(t) \cup {Prochain}) \in Nat
        /\ Cardinality(Attend(t) \cup {Prochain}) <= Cardinality(Attend(t)) + 1
    <3>1. /\ IsFiniteSet(Attend(t) \cup {Prochain})
          /\ \/ Cardinality(Attend(t) \cup {Prochain}) = Cardinality(Attend(t))
             \/ Cardinality(Attend(t) \cup {Prochain}) = Cardinality(Attend(t)) + 1
      BY <1>2, FS_AddElement, Zenon
    <3> QED
      BY <1>2, <3>1
  <2>3. Cardinality(Attend(t)') <= Cardinality(Attend(t) \cup {Prochain})
    BY <2>1, <2>2, FS_Subset
  <2> QED
    BY <1>2, <2>1, <2>2, <2>3
<1> QED
  BY <1>4, <1>5

\* Failed expirations are counted.
LEMMA RatesCroissent ==
  ASSUME TypeOK, [Next]_vars, NEW t \in Trigger
  PROVE  rates[t] \in Nat /\ rates'[t] \in Nat /\ rates[t] <= rates'[t]
<1>1. rates \in [Trigger -> Nat] /\ rates' \in [Trigger -> Nat]
  BY PasTypes DEF TypeOK, TypeClock
<1>2. ASSUME NEW h \in Horloge, Perimer(h) PROVE rates[t] <= rates'[t]
  BY <1>1, <1>2 DEF Perimer
<1>3. ASSUME NEW h \in Horloge, TourDe(h) \/ AccidentDe(h), ~ Perimer(h) PROVE rates' = rates
  BY <1>3 DEF TourDe, AccidentDe, _tick, due_triggers, Boucle, cron_inevaluable, consume_due,
     _occurrence_sautee, Enfiler, tomber
<1>4. ASSUME NEW l \in Livraison, Appel(l) \/ Rejet(l) PROVE rates' = rates
  BY <1>4 DEF Appel, Rejet
<1> QED
  BY <1>1, <1>2, <1>3, <1>4 DEF Next, vars, GesteDe, SurLaFile, TravailDe, Temps, Tic

LEMMA PlacesTenues ==
  ASSUME TickPonctuel, TypeOK, Sortes, Instants, Places, [Next]_vars
  PROVE  Places'
<1>1. TypeOK' /\ Instants'
  BY PasTypes, InstantsTenus
<1>2. ASSUME NEW t \in Trigger PROVE Cardinality(Attend(t)') <= 1 + rates'[t]
  <2>1. /\ Cardinality(Attend(t)) \in Nat /\ Cardinality(Attend(t)') \in Nat
        /\ rates[t] \in Nat /\ rates'[t] \in Nat /\ rates[t] <= rates'[t]
        /\ Cardinality(Attend(t)) <= 1 + rates[t]
    BY AttendEst, RatesCroissent DEF Places
  <2>2. CASE Attend(t)' \subseteq Attend(t)
    <3>1. Cardinality(Attend(t)') <= Cardinality(Attend(t))
      BY <2>2, AttendEst, FS_Subset
    <3> QED
      BY <2>1, <3>1
  <2>3. ASSUME NEW h \in Horloge, Enfiler(h), t = tour[h].ligne.trigger,
               Cardinality(Attend(t)') <= Cardinality(Attend(t)) + 1
        PROVE  Cardinality(Attend(t)') <= 1 + rates'[t]
    <3>1. Cardinality(Attend(t)) <= rates[t]
      BY <2>3 DEF Places, Enfiler
    <3> QED
      BY <2>1, <2>3, <3>1
  <2> QED
    BY <2>2, <2>3, AttendEst
<1>3. ASSUME NEW h \in Horloge, tour'[h].etape = "perimee"
      PROVE  /\ tour'[h].ligne.trigger = tour[h].ligne.trigger /\ tour[h].ligne.trigger \in Trigger
             /\ Cardinality(Attend(tour[h].ligne.trigger)') <= rates'[tour[h].ligne.trigger]
  <2> DEFINE t == tour[h].ligne.trigger
  <2>1. Menage(h)
    BY PasDesTours
  <2>2. EnVol(h) /\ tour'[h].ligne = tour[h].ligne /\ t \in Trigger
        /\ (tour[h].etape = "perimee" \/ Perimer(h))
    BY <1>3, <2>1 DEF Menage, EnVol, Attente, TypeOK, TypeClock
  <2>3. /\ IsFiniteSet(Attend(t)) /\ Cardinality(Attend(t)) \in Nat
        /\ Cardinality(Attend(t)') \in Nat
        /\ rates[t] \in Nat /\ rates'[t] \in Nat /\ rates[t] <= rates'[t]
        /\ Cardinality(Attend(t)) <= 1 + rates[t]
    BY <2>2, AttendEst, RatesCroissent DEF Places
  <2>4. Attend(t)' \subseteq Attend(t)
    <3>1. ASSUME NEW g \in Horloge, Enfiler(g), t = tour[g].ligne.trigger PROVE FALSE
      <4>1. EnVol(g) /\ ~ EnVol(g)' /\ EnVol(h)'
        BY <1>3, <3>1, EnfilerFinit DEF EnVol
      <4> QED
        BY <2>2, <3>1, <4>1 DEF Instants
    <3> QED
      BY <2>2, <3>1, AttendEst
  <2>5. Cardinality(Attend(t)') <= Cardinality(Attend(t))
    BY <2>3, <2>4, FS_Subset
  <2>6. CASE tour[h].etape = "perimee"
    BY <2>2, <2>3, <2>5, <2>6 DEF Places
  <2>7. CASE Perimer(h)
    <3>1. CASE travail' = Perime(t)
      <4>1. Attend(t)' = {}
        <5>1. travail \in [Job -> UnTravail]
          BY TypeNomme DEF TypeOK
        <5>2. SUFFICES ASSUME NEW j \in Attend(t)' PROVE FALSE
          OBVIOUS
        <5>3. j \in Job /\ travail'[j].trigger = t /\ travail'[j].etat = "pending"
          BY <2>2, <5>2 DEF Attend, DeLHorloge
        <5>4. travail'[j] = IF travail[j].trigger = t /\ travail[j].etat \in {"pending", "held"}
                            THEN Termine(j) ELSE travail[j]
          BY <3>1, <5>3 DEF Perime
        <5>5. Termine(j).etat = "fini"
          BY <5>1, <5>3 DEF Termine, UnTravail
        <5> QED
          BY <5>3, <5>4, <5>5
      <4>2. Cardinality(Attend(t)') = 0
        BY <4>1, FS_EmptySet
      <4> QED
        BY <2>2, <2>3, <4>2
    <3>2. CASE rates' = [rates EXCEPT ![t] = rates[t] + 1]
      <4>1. rates'[t] = rates[t] + 1
        BY <2>2, <3>2 DEF TypeOK, TypeClock
      <4> QED
        BY <2>2, <2>3, <2>5, <4>1
    <3> QED
      BY <2>7, <3>1, <3>2 DEF Perimer, perimer_travaux_du_declencheur
  <2> QED
    BY <2>2, <2>6, <2>7
<1> QED
  BY <1>2, <1>3 DEF Places

\* Occurrences do not pile up behind a worker that is not there: one waits, and one for each
\* expiration that failed -- under the same condition.
THEOREM WaitIsBounded == TickPonctuel => (Spec => []AttenteBornee)
<1> SUFFICES ASSUME TickPonctuel PROVE Spec => []AttenteBornee
  OBVIOUS
<1>1. Init => Instants /\ Places
  <2> SUFFICES ASSUME Init PROVE Places
    BY InstantsAuDepart
  <2>1. \A t \in Trigger : Attend(t) = {} /\ rates[t] = 0
    BY DEF Init, InitTriggers, InitClock, Attend, DeLHorloge, Vierge
  <2>2. \A h \in Horloge : tour[h].etape = "repos"
    BY DEF Init, InitClock, Attente
  <2> QED
    BY <2>1, <2>2, FS_EmptySet DEF Places
<1>2. TypeOK /\ Sortes /\ Instants /\ Places /\ [Next]_vars => Instants' /\ Places'
  BY InstantsTenus, PlacesTenues
<1>3. Places => AttenteBornee
  BY DEF Places, AttenteBornee, Attend
<1> QED
  BY <1>1, <1>2, <1>3, SortesToujours, PTL DEF Spec

-----------------------------------------------------------------------------
(* The daily ceiling. *)

Depuis(t, a) == {m \in Acceptees(t) : livraison[m].recu > a - JOUR}
Fenetre(t, l) == {m \in Acceptees(t) : /\ livraison[m].recu >= livraison[l].recu
                                       /\ livraison[m].recu < livraison[l].recu + JOUR}

\* A delivery that has been judged holds the row of its agent, and its day has a place left.
Jugement ==
  \A l \in Livraison :
    livraison[l].etape = "jugee" /\ agent[livraison[l].trigger].existe =>
      /\ verrou[livraison[l].trigger] = l
      /\ Cardinality(Depuis(livraison[l].trigger, livraison[l].t0))
           < agent[livraison[l].trigger].max_per_day

\* A row is taken when it is free, and given back by whoever has done with it.
LEMMA PasDesVerrous ==
  ASSUME TypeOK, [Next]_vars, NEW t \in Trigger
  PROVE  \/ verrou'[t] = verrou[t]
         \/ verrou[t] = Personne
         \/ verrou[t] \in Livraison /\ livraison'[verrou[t]].etape # "jugee"
<1>1. verrou \in [Trigger -> Livraison \cup {Personne}]
      /\ livraison \in [Livraison -> UneLivraison]
  BY CrochetsNommes DEF TypeOK
<1>2. ASSUME NEW l \in Livraison, Appel(l) \/ Rejet(l), verrou' # verrou
      PROVE  \/ verrou'[t] = verrou[t]
             \/ verrou[t] = Personne
             \/ verrou[t] \in Livraison /\ livraison'[verrou[t]].etape # "jugee"
  <2>1. ASSUME NEW t0 \in livraison[l].t0 .. now, Juger(l, t0)
        PROVE  verrou'[t] = verrou[t] \/ verrou[t] = Personne
    BY <1>1, <2>1 DEF Juger, LigneLibre, verrouiller_le_declencheur
  <2>2. CASE Enregistrer(l) \/ Perdre(l)
    <3>1. verrou' = Rendu(l) /\ livraison'[l].etape # "jugee"
      <4>1. CASE Enregistrer(l)
        BY <1>1, <4>1 DEF Enregistrer, Nouvelle
      <4>2. CASE Perdre(l)
        BY <1>1, <4>2 DEF Perdre, Refusee, Nouvelle
      <4> QED
        BY <2>2, <4>1, <4>2
    <3> QED
      BY <1>1, <3>1 DEF Rendu
  <2> QED
    BY <1>2, <2>1, <2>2 DEF Appel, Rejet, Recue, recevoir, base
<1>3. ASSUME NEW u \in Usager, GesteDe(u) \/ SurLaFile(u) PROVE verrou' = verrou
  BY <1>3 DEF GesteDe, Requete, eteindre, lire_agent, delete_trigger, clear_queue,
     file_du_declencheur, apres_eteindre, rallumer, apres_supprimer, run_now, couper,
     SurLaFile, File, reprendre_la_file, liberer_les_creneaux
<1>4. ASSUME NEW h \in Horloge, TourDe(h) \/ AccidentDe(h) PROVE verrou' = verrou
  BY <1>4 DEF TourDe, AccidentDe, _tick, due_triggers, Boucle, cron_inevaluable, consume_due,
     _occurrence_sautee, Perimer, Enfiler, tomber, base
<1>5. ASSUME UNCHANGED vars \/ Temps \/ \E j \in Job : TravailDe(j) PROVE verrou' = verrou
  BY <1>5 DEF vars, base, TravailDe, Travailleur, claim_next_job, complete_job,
     rendre_a_la_file, Temps, Tic
<1> QED
  BY <1>2, <1>3, <1>4, <1>5 DEF Next

LEMMA DepuisEst ==
  ASSUME NEW t, NEW a
  PROVE  /\ IsFiniteSet(Acceptees(t)) /\ IsFiniteSet(Depuis(t, a))
         /\ Cardinality(Depuis(t, a)) \in Nat
         /\ Cardinality(Depuis(t, a)) = acceptees_sur_24h(t, a)
<1>1. Depuis(t, a) \subseteq Livraison /\ Acceptees(t) \subseteq Livraison
  BY DEF Depuis, Acceptees
<1> QED
  BY <1>1, HooksAssumption, FS_Subset, FS_CardinalityType DEF Depuis, acceptees_sur_24h

\* What was accepted is what had been, and perhaps what has just been.
LEMMA AccepteesEst ==
  ASSUME TypeOK, [Next]_vars, NEW t, NEW m \in Acceptees(t)'
  PROVE  \/ m \in Acceptees(t) /\ livraison'[m].recu = livraison[m].recu
         \/ /\ Enregistrer(m) /\ livraison[m].etape = "jugee" /\ livraison[m].trigger = t
            /\ livraison'[m].recu = livraison[m].t0
<1>1. m \in Livraison /\ livraison'[m].trigger = t /\ livraison'[m].etape = "acceptee"
  BY DEF Acceptees
<1>2. Portage(m)
  BY <1>1, PasDesLivraisons
<1> QED
  BY <1>1, <1>2 DEF Portage, Acceptees, Enregistrer

LEMMA JugementTenu ==
  ASSUME TypeOK, Jugement, [Next]_vars
  PROVE  Jugement'
<1> SUFFICES ASSUME NEW l \in Livraison, livraison'[l].etape = "jugee",
                    agent'[livraison'[l].trigger].existe
             PROVE  /\ verrou'[livraison'[l].trigger] = l
                    /\ Cardinality(Depuis(livraison[l].trigger, livraison[l].t0)')
                         < agent'[livraison'[l].trigger].max_per_day
  BY DEF Jugement, Depuis
<1> DEFINE t == livraison[l].trigger
           a == livraison'[l].t0
<1>1. /\ livraison'[l].trigger = t /\ livraison[l].etape # "absente" /\ t \in Trigger
      /\ \/ livraison[l].etape = "jugee" /\ a = livraison[l].t0
         \/ livraison[l].etape = "lue" /\ Juger(l, a)
  BY PasDesLivraisons DEF Portage, TypeOK, TypeHooks
<1>2. /\ agent[t].existe /\ agent'[t].max_per_day = agent[t].max_per_day
      /\ agent[t].max_per_day \in Nat /\ livraison[l].t0 \in Nat
      /\ verrou[t] \in Livraison \cup {Personne} /\ Personne \notin Livraison
  BY <1>1, PasDesAgents, HooksAssumption DEF Reste, TypeOK, TypeTriggers, TypeHooks
<1>3. verrou'[t] = l
  <2>1. CASE livraison[l].etape = "jugee"
    <3>1. verrou[t] = l
      BY <1>1, <1>2, <2>1 DEF Jugement
    <3> QED
      BY <1>1, <1>2, <3>1, PasDesVerrous
  <2>2. CASE Juger(l, a)
    <3>1. livraison' # livraison
      BY <1>1, <2>2 DEF Juger
    <3>2. ~ Refusee(l)
      BY CrochetsNommes DEF Refusee, Nouvelle, TypeOK
    <3>3. verrou' = [verrou EXCEPT ![t] = l]
      BY <1>2, <2>2, <3>2 DEF Juger, verrouiller_le_declencheur
    <3> QED
      BY <1>1, <3>3 DEF TypeOK, TypeHooks
  <2> QED
    BY <1>1, <2>1, <2>2
\* No other delivery of this agent is accepted meanwhile.
<1>4. ASSUME NEW m \in Acceptees(t)'
      PROVE  m \in Acceptees(t) /\ livraison'[m].recu = livraison[m].recu
  <2>1. CASE /\ Enregistrer(m) /\ livraison[m].etape = "jugee" /\ livraison[m].trigger = t
    <3>1. m \in Livraison /\ verrou[t] = m /\ livraison'[m].etape = "acceptee"
      BY <1>2, <1>4, <2>1 DEF Acceptees, Jugement
    <3>2. l # m
      BY <3>1
    <3>3. verrou'[t] = Personne
      BY <1>1, <2>1, <3>1 DEF Enregistrer, Rendu
    <3> QED
      BY <1>2, <1>3, <3>3
  <2> QED
    BY <1>1, <1>4, <2>1, AccepteesEst
<1>5. Depuis(livraison[l].trigger, livraison[l].t0)' \subseteq Depuis(t, a)
  BY <1>1, <1>4 DEF Depuis
<1>6. Cardinality(Depuis(t, a)) < agent[t].max_per_day
  <2>1. CASE livraison[l].etape = "jugee" /\ a = livraison[l].t0
    BY <1>2, <2>1 DEF Jugement
  <2>2. CASE Juger(l, a)
    <3>1. ~ Refusee(l)
      BY CrochetsNommes DEF Refusee, Nouvelle, TypeOK
    <3>2. ~ (acceptees_sur_24h(t, a) >= agent[t].max_per_day)
      BY <2>2, <3>1 DEF Juger
    <3>3. Cardinality(Depuis(t, a)) \in Nat /\ Cardinality(Depuis(t, a)) = acceptees_sur_24h(t, a)
      BY DepuisEst
    <3> QED
      BY <1>2, <3>2, <3>3
  <2> QED
    BY <1>1, <2>1, <2>2
<1>7. Cardinality(Depuis(livraison[l].trigger, livraison[l].t0)') \in Nat
      /\ Cardinality(Depuis(livraison[l].trigger, livraison[l].t0)') <= Cardinality(Depuis(t, a))
  BY <1>5, DepuisEst, FS_Subset, FS_CardinalityType
<1>8. Cardinality(Depuis(t, a)) \in Nat
  BY DepuisEst
<1> QED
  BY <1>1, <1>2, <1>3, <1>6, <1>7, <1>8

LEMMA PlafondEst ==
  ASSUME TypeOK, Jugement, PlafondTenu, [Next]_vars
  PROVE  PlafondTenu'
<1> SUFFICES ASSUME NEW t \in Existants', NEW l \in Acceptees(t)'
             PROVE  Cardinality(Fenetre(t, l)') <= agent'[t].max_per_day
  BY DEF PlafondTenu, Fenetre
<1>1. /\ t \in Existants /\ t \in Trigger /\ agent[t].existe
      /\ agent'[t].max_per_day = agent[t].max_per_day /\ agent[t].max_per_day \in Nat
  BY PasDesAgents DEF Reste, Existants, TypeOK, TypeTriggers
<1>2. \A m \in Livraison : livraison[m].recu \in Nat /\ livraison[m].t0 \in Nat
  BY DEF TypeOK, TypeHooks
<1>3. JOUR \in Nat \ {0} /\ l \in Livraison
  BY HooksAssumption DEF Acceptees
<1>4. ASSUME NEW a, Fenetre(t, l)' \subseteq Fenetre(t, l), l \in Acceptees(t)
      PROVE  Cardinality(Fenetre(t, l)') <= agent'[t].max_per_day
  <2>1. IsFiniteSet(Fenetre(t, l))
    BY DepuisEst, FS_Subset DEF Fenetre
  <2>2. Cardinality(Fenetre(t, l)') <= Cardinality(Fenetre(t, l))
        /\ Cardinality(Fenetre(t, l)') \in Nat /\ Cardinality(Fenetre(t, l)) \in Nat
    BY <1>4, <2>1, FS_Subset, FS_CardinalityType
  <2>3. Cardinality(Fenetre(t, l)) <= agent[t].max_per_day
    BY <1>1, <1>4 DEF PlafondTenu, Fenetre
  <2> QED
    BY <1>1, <2>2, <2>3
<1>5. CASE \A m \in Acceptees(t)' : m \in Acceptees(t) /\ livraison'[m].recu = livraison[m].recu
  <2>1. Fenetre(t, l)' \subseteq Fenetre(t, l) /\ l \in Acceptees(t)
    BY <1>5 DEF Fenetre
  <2> QED
    BY <1>4, <2>1
<1>6. ASSUME NEW n \in Livraison, Enregistrer(n), livraison[n].etape = "jugee",
             livraison[n].trigger = t, livraison'[n].recu = livraison[n].t0
      PROVE  Cardinality(Fenetre(t, l)') <= agent'[t].max_per_day
  <2>1. \A m \in Acceptees(t)' \ {n} : m \in Acceptees(t) /\ livraison'[m].recu = livraison[m].recu
    <3>1. \A m \in Livraison \ {n} : livraison'[m] = livraison[m]
      BY <1>6 DEF Enregistrer, TypeOK, TypeHooks
    <3> QED
      BY <3>1 DEF Acceptees
  <2>2. CASE n \in Fenetre(t, l)'
    <3> DEFINE a == livraison[n].t0
    <3>1. livraison'[l].recu <= a /\ a < livraison'[l].recu + JOUR
          /\ livraison'[l].recu \in Nat /\ a \in Nat
      <4>1. livraison'[l].recu \in Nat
        BY <1>3, PasTypes DEF TypeOK, TypeHooks
      <4> QED
        BY <1>2, <1>6, <2>2, <4>1 DEF Fenetre
    <3>2. ASSUME NEW m \in Fenetre(t, l)', m # n PROVE m \in Depuis(t, a)
      <4>1. m \in Acceptees(t) /\ livraison'[m].recu = livraison[m].recu
            /\ livraison'[m].recu >= livraison'[l].recu /\ livraison[m].recu \in Nat
        BY <1>2, <2>1, <3>2 DEF Fenetre, Acceptees
      <4> QED
        BY <1>3, <3>1, <4>1 DEF Depuis
    <3>3. Cardinality(Depuis(t, a)) < agent[t].max_per_day
      BY <1>1, <1>6 DEF Jugement
    <3>4. IsFiniteSet(Depuis(t, a)) /\ Cardinality(Depuis(t, a)) \in Nat
      BY DepuisEst
    <3>5. /\ IsFiniteSet(Depuis(t, a) \cup {n})
          /\ \/ Cardinality(Depuis(t, a) \cup {n}) = Cardinality(Depuis(t, a))
             \/ Cardinality(Depuis(t, a) \cup {n}) = Cardinality(Depuis(t, a)) + 1
      BY <3>4, FS_AddElement, Zenon
    <3>6. Fenetre(t, l)' \subseteq Depuis(t, a) \cup {n}
      BY <3>2
    <3>7. Cardinality(Fenetre(t, l)') <= Cardinality(Depuis(t, a) \cup {n})
          /\ Cardinality(Fenetre(t, l)') \in Nat
      BY <3>5, <3>6, FS_Subset, FS_CardinalityType
    <3> QED
      BY <1>1, <3>3, <3>4, <3>5, <3>7
  <2>3. CASE n \notin Fenetre(t, l)'
    <3>1. l # n
      <4> SUFFICES ASSUME l = n PROVE FALSE
        OBVIOUS
      <4>1. livraison'[l].recu \in Nat
        BY <1>3, PasTypes DEF TypeOK, TypeHooks
      <4> QED
        BY <1>3, <2>3, <4>1 DEF Fenetre
    <3>2. Fenetre(t, l)' \subseteq Fenetre(t, l) /\ l \in Acceptees(t)
      BY <2>1, <2>3, <3>1 DEF Fenetre
    <3> QED
      BY <1>4, <3>2
  <2> QED
    BY <2>2, <2>3
<1>7. \A m \in Acceptees(t)' : m \in Livraison
  BY DEF Acceptees
<1> QED
  BY <1>5, <1>6, <1>7, AccepteesEst

\* However many deliveries arrive at once, and in whatever order their transactions opened, an
\* agent accepts at most its ceiling in any sliding day.
THEOREM DailyCeilingHolds == Spec => []PlafondTenu
<1>1. Init => Jugement /\ PlafondTenu
  <2>1. Init => Jugement
    BY DEF Init, InitHooks, Jugement, Nouvelle
  <2>2. Init => PlafondTenu
    BY DEF Init, InitHooks, PlafondTenu, Acceptees, Nouvelle
  <2> QED
    BY <2>1, <2>2
<1>2. TypeOK /\ Jugement /\ PlafondTenu /\ [Next]_vars => Jugement' /\ PlafondTenu'
  BY JugementTenu, PlafondEst
<1> QED
  BY <1>1, <1>2, TypeCorrect, PTL DEF Spec

-----------------------------------------------------------------------------
(* The smoothing. *)

\* The slots that an hour before x leaves out of reach, and those of the hour from a on.
Proches(t, x) == {m \in Reserves(t) : livraison[m].due > x - FENETRE}
Heure(t, a) == {m \in Reserves(t) : livraison[m].due >= a /\ livraison[m].due < a + FENETRE}

\* A slot at x comes after all the others, and its hour has a place left.
Place(t, x) ==
  /\ \A m \in Reserves(t) : livraison[m].due <= x
  /\ Cardinality(Proches(t, x)) < agent[t].max_per_hour

\* Each job that waits has the slot of a delivery, at its date; two jobs have two.
Portant(t, f) ==
  /\ f \in [EnAttente(t) -> Reserves(t)]
  /\ \A j, k \in EnAttente(t) : f[j] = f[k] => j = k
  /\ \A j \in EnAttente(t) : livraison[f[j]].due = travail[j].du

\* Jobs are numbered as they come.
Serres == \A j, k \in Job : travail[j].etat = "absent" /\ j < k => travail[k].etat = "absent"

Heures(t) == \A l \in Reserves(t) : Cardinality(Heure(t, livraison[l].due)) <= agent[t].max_per_hour
Ordre(t) == \A j, k \in EnAttente(t) : j < k => travail[j].du <= travail[k].du
Jugees(t) ==
  \A l \in Livraison :
    livraison[l].etape = "jugee" /\ livraison[l].trigger = t =>
      Place(t, livraison[l].t0 + livraison[l].retard)
Lisse(t) == Heures(t) /\ Ordre(t) /\ Jugees(t) /\ \E f : Portant(t, f)

\* As long as no slot was taken while a request moved them, jobs and slots go together, and a
\* delivery that has been judged still has its place.
Lissage == \A t \in Existants : ~derange[t] => Lisse(t)

LEMMA ReservesSont ==
  ASSUME TypeOK, NEW t
  PROVE  /\ Reserves(t) \subseteq Livraison /\ IsFiniteSet(Reserves(t))
         /\ \A m \in Reserves(t) : livraison[m].due \in Nat
         /\ EnAttente(t) \subseteq Job /\ IsFiniteSet(EnAttente(t))
         /\ \A j \in EnAttente(t) : travail[j].du \in Nat
<1>1. IsFiniteSet(Job)
  BY FS_Interval, TriggersAssumption DEF Job
<1>2. /\ Reserves(t) \subseteq Livraison /\ EnAttente(t) \subseteq Job
      /\ \A m \in Reserves(t) : livraison[m].due # NULL
  BY DEF Reserves, Acceptees, EnAttente
<1>3. livraison \in [Livraison -> UneLivraison] /\ travail \in [Job -> UnTravail]
  BY CrochetsNommes, TypeNomme DEF TypeOK
<1>4. /\ \A m \in Reserves(t) : livraison[m].due \in Nat
      /\ \A j \in EnAttente(t) : travail[j].du \in Nat
  BY <1>2, <1>3 DEF UneLivraison, UnTravail
<1> QED
  BY <1>1, <1>2, <1>4, HooksAssumption, FS_Subset

LEMMA Compte ==
  ASSUME TypeOK, NEW t, NEW X, X \subseteq Reserves(t)
  PROVE  IsFiniteSet(X) /\ Cardinality(X) \in Nat
BY ReservesSont, FS_Subset, FS_CardinalityType

\* With fewer slots in the hour than the rate, or from the `debit`-th latest on: the delay that
\* is computed leads to a free slot.
LEMMA RetardEstLibre ==
  ASSUME TypeOK, NEW t \in Trigger, NEW t0 \in Nat
  PROVE  Place(t, t0 + retard_de_lissage(t, t0))
<1> DEFINE R == Recents(t, t0)
           dues == [m \in Livraison |-> livraison[m].due]
           debit == agent[t].max_per_hour
           x == t0 + retard_de_lissage(t, t0)
<1>0. debit \in Nat \ {0} /\ FENETRE \in Nat \ {0}
  BY HooksAssumption DEF TypeOK, TypeTriggers
<1>1. /\ Reserves(t) \subseteq Livraison
      /\ \A m \in Reserves(t) : livraison[m].due \in Nat
      /\ \A m \in Livraison : dues[m] = livraison[m].due /\ dues[m] \in Int
  BY ReservesSont DEF TypeOK, TypeHooks, NULL
<1>2. R = {m \in Reserves(t) : livraison[m].due > t0 - FENETRE} /\ R \subseteq Reserves(t)
  BY DEF Recents, Reserves
<1>3. R \subseteq Livraison /\ IsFiniteSet(R) /\ Cardinality(R) \in Nat
  BY <1>1, <1>2, Compte
<1>4. Cardinality({}) = 0 /\ 0 < debit
  BY <1>0, FS_EmptySet
<1>5. CASE R = {}
  <2>1. x = t0
    BY <1>5 DEF retard_de_lissage
  <2>2. Proches(t, x) = {} /\ \A m \in Reserves(t) : livraison[m].due <= x
    BY <1>0, <1>1, <1>2, <1>5, <2>1 DEF Proches
  <2> QED
    BY <1>0, <1>4, <2>2, Zenon DEF Place
<1>6. CASE R # {}
  <2> DEFINE loin == LePlusLoin(Creneaux(t, t0))
             k == Kieme(t, t0, debit)
             plein == Cardinality(R) >= debit
             plancher == IF plein THEN k + FENETRE - t0 ELSE 0
  <2>1. loin \in Nat /\ \A m \in R : livraison[m].due <= loin
    <3>1. PICK m \in R : \A n \in R : dues[n] <= dues[m]
      <4> HIDE DEF dues, R
      <4> QED
        BY <1>1, <1>3, <1>6, HooksAssumption, PlusGrand
    <3>2. livraison[m].due \in Creneaux(t, t0) /\ \A y \in Creneaux(t, t0) : y <= livraison[m].due
      BY <1>1, <1>3, <3>1 DEF Creneaux
    <3>3. loin \in Creneaux(t, t0) /\ \A y \in Creneaux(t, t0) : y <= loin
      BY <3>2, LePlusLoinEst
    <3> QED
      BY <1>1, <1>2, <3>3 DEF Creneaux
  <2>2. ASSUME plein
        PROVE  /\ k \in Nat /\ k > t0 - FENETRE
               /\ Cardinality({m \in R : livraison[m].due > k}) < debit
    <3> DEFINE K == {d \in Creneaux(t, t0) :
                       Cardinality({m \in R : livraison[m].due >= d}) >= debit}
               Q == {m \in R : livraison[m].due \in K}
               P == {m \in R : livraison[m].due > k}
    <3>1. PICK p \in R : \A n \in R : dues[p] <= dues[n]
      <4> HIDE DEF dues, R
      <4> QED
        BY <1>1, <1>3, <1>6, HooksAssumption, PlusPetit
    <3>2. p \in Q
      <4>1. {m \in R : livraison[m].due >= livraison[p].due} = R
        BY <1>1, <1>3, <3>1
      <4> QED
        BY <2>2, <4>1 DEF Creneaux
    <3>3. PICK m \in Q : \A n \in Q : dues[n] <= dues[m]
      <4>1. Q \subseteq Livraison /\ Q # {}
        BY <1>3, <3>2
      <4> HIDE DEF dues, R, Q
      <4> QED
        BY <1>1, <4>1, HooksAssumption, PlusGrand
    <3>4. livraison[m].due \in K /\ \A y \in K : y <= livraison[m].due
      BY <1>1, <1>3, <3>3 DEF Creneaux
    <3>5. LePlusLoin(K) \in K /\ \A y \in K : y <= LePlusLoin(K)
      <4> HIDE DEF K
      <4> QED
        BY <3>4, LePlusLoinEst
    <3>6. k = LePlusLoin(K)
      BY DEF Kieme
    <3>7. k \in Nat /\ k > t0 - FENETRE
      BY <1>1, <1>2, <3>5, <3>6 DEF Creneaux
    <3>8. SUFFICES ASSUME ~ (Cardinality(P) < debit) PROVE FALSE
      BY <3>7
    <3>9. P \subseteq R /\ P \subseteq Livraison /\ Cardinality(P) \in Nat
      BY <1>2, <1>3, Compte
    <3>10. P # {}
      <4> HIDE DEF P, debit
      <4> QED
        BY <1>4, <3>8
    <3>11. PICK q \in P : \A n \in P : dues[q] <= dues[n]
      <4> HIDE DEF dues, P
      <4> QED
        BY <1>1, <3>9, <3>10, HooksAssumption, PlusPetit
    <3>12. {n \in R : livraison[n].due >= livraison[q].due} = P
      <4>1. \A n \in P : livraison[q].due <= livraison[n].due
        BY <1>1, <3>9, <3>11
      <4>2. \A n \in R : livraison[n].due \in Nat
        BY <1>1, <1>2
      <4>3. livraison[q].due > k
        OBVIOUS
      <4> HIDE DEF k, R
      <4> QED
        BY <3>7, <4>1, <4>2, <4>3
    <3>13. livraison[q].due \in K
      <4>1. Cardinality({n \in R : livraison[n].due >= livraison[q].due}) >= debit
        <5>1. Cardinality(P) >= debit
          <6> HIDE DEF P, debit
          <6> QED
            BY <1>0, <3>8, <3>9
        <5> QED
          BY <3>12, <5>1
      <4>2. livraison[q].due \in Creneaux(t, t0)
        BY DEF Creneaux
      <4> QED
        BY <4>1, <4>2
    <3>14. livraison[q].due > k /\ livraison[q].due \in Nat
      BY <1>1, <1>2
    <3>15. livraison[q].due <= k
      BY <3>5, <3>6, <3>13
    <3> HIDE DEF k
    <3> QED
      BY <3>7, <3>14, <3>15
  <2>3. retard_de_lissage(t, t0) =
          IF loin - t0 <= 0 /\ plancher <= 0 THEN 0
          ELSE LePlusLoin({1, loin - t0 + Espace(debit), plancher})
    BY <1>6 DEF retard_de_lissage
  <2>4. plancher \in Int
    BY <1>0, <2>2
  <2>5. Espace(debit) \in Nat
    BY <1>0 DEF Espace
  <2>6. x >= t0 /\ x >= loin /\ (x = t0 \/ x - t0 >= plancher) /\ x \in Nat
        /\ (x = t0 => loin - t0 <= 0 /\ plancher <= 0)
    <3> HIDE DEF loin, plancher, debit
    <3>1. CASE loin - t0 <= 0 /\ plancher <= 0
      BY <2>1, <2>3, <3>1
    <3>2. CASE ~ (loin - t0 <= 0 /\ plancher <= 0)
      <4> DEFINE S == {1, loin - t0 + Espace(debit), plancher}
      <4>1. \E y \in S : \A z \in S : z <= y
        BY <2>1, <2>4, <2>5
      <4>2. LePlusLoin(S) \in S /\ \A z \in S : z <= LePlusLoin(S)
        <5> HIDE DEF S
        <5> QED
          BY <4>1, LePlusLoinEst
      <4>3. LePlusLoin(S) \in Int /\ LePlusLoin(S) >= 1 /\ LePlusLoin(S) >= plancher
            /\ LePlusLoin(S) >= loin - t0 + Espace(debit)
        BY <2>1, <2>4, <2>5, <4>2
      <4>4. x = t0 + LePlusLoin(S)
        BY <2>3, <3>2
      <4> HIDE DEF S, x
      <4> QED
        BY <2>1, <2>4, <2>5, <4>3, <4>4
    <3> QED
      BY <3>1, <3>2
  <2>7. \A m \in Reserves(t) : livraison[m].due <= x
    <3> TAKE m \in Reserves(t)
    <3>1. CASE m \in R
      <4> HIDE DEF loin, x, R
      <4> QED
        BY <1>1, <2>1, <2>6, <3>1
    <3>2. CASE m \notin R
      <4> HIDE DEF x, plancher, loin
      <4> QED
        BY <1>0, <1>1, <1>2, <2>6, <3>2
    <3> QED
      BY <3>1, <3>2
  <2>8. Cardinality(Proches(t, x)) < debit
    <3>1. Proches(t, x) \subseteq R /\ Proches(t, x) \subseteq Reserves(t)
      <4> HIDE DEF x, plancher, loin
      <4> QED
        BY <1>0, <1>1, <1>2, <2>6 DEF Proches
    <3>2. CASE ~ plein
      <4>1. Cardinality(Proches(t, x)) <= Cardinality(R) /\ Cardinality(Proches(t, x)) \in Nat
        BY <1>3, <3>1, Compte, FS_Subset
      <4> QED
        BY <1>0, <1>3, <3>2, <4>1
    <3>3. CASE plein
      <4>1. plancher = k + FENETRE - t0 /\ k \in Nat /\ k > t0 - FENETRE
            /\ Cardinality({m \in R : livraison[m].due > k}) < debit
        BY <2>2, <3>3
      <4>2. x >= k + FENETRE
        <5> HIDE DEF x, plancher, loin, k
        <5> QED
          BY <1>0, <2>4, <2>6, <4>1
      <4>3. Proches(t, x) \subseteq {m \in R : livraison[m].due > k}
        <5> HIDE DEF x, plancher, loin, k, R
        <5> QED
          BY <1>0, <1>1, <2>6, <3>1, <4>1, <4>2 DEF Proches
      <4>4. {m \in R : livraison[m].due > k} \subseteq Reserves(t)
        BY <1>2
      <4>5. /\ Cardinality(Proches(t, x)) <= Cardinality({m \in R : livraison[m].due > k})
            /\ Cardinality(Proches(t, x)) \in Nat
            /\ Cardinality({m \in R : livraison[m].due > k}) \in Nat
        BY <4>3, <4>4, <3>1, Compte, FS_Subset
      <4> QED
        BY <1>0, <4>1, <4>5
    <3> QED
      BY <3>2, <3>3
  <2> QED
    BY <2>7, <2>8 DEF Place
<1> QED
  BY <1>5, <1>6

\* Jobs come one after the other.
LEMMA ProchainEst ==
  ASSUME Libres # {}
  PROVE  Prochain \in Libres /\ \A k \in Libres : Prochain <= k
<1> DEFINE id == [j \in Job |-> j]
<1>1. IsFiniteSet(Job) /\ Libres \subseteq Job /\ \A j \in Job : id[j] \in Int /\ id[j] = j
  BY FS_Interval, TriggersAssumption DEF Job, Libres
<1>2. PICK m \in Libres : \A k \in Libres : id[m] <= id[k]
  <2> HIDE DEF id
  <2> QED
    BY <1>1, PlusPetit
<1>3. m \in Libres /\ \A k \in Libres : m <= k
  BY <1>1, <1>2
<1> QED
  BY <1>3 DEF Prochain

LEMMA SerresTenus ==
  ASSUME TypeOK, Serres, [Next]_vars
  PROVE  Serres'
<1> SUFFICES ASSUME NEW j \in Job, NEW k \in Job, travail'[j].etat = "absent", j < k
             PROVE  travail'[k].etat = "absent"
  BY DEF Serres
<1>1. Suivi(j)
  BY PasDesTravaux DEF Enfile
<1>2. travail[j].etat = "absent" /\ travail[k].etat = "absent"
  BY <1>1 DEF Suivi, Serres
<1>3. SUFFICES ASSUME ~ Suivi(k) PROVE FALSE
  BY <1>2 DEF Suivi
\* A job that came would not be the first one missing.
<1>4. k = Prochain
  BY <1>3, PasDesTravaux DEF Enfile
<1>5. j \in Libres /\ Libres # {}
  BY <1>2 DEF Libres
<1>6. k <= j
  BY <1>4, <1>5, ProchainEst
<1> QED
  BY <1>6 DEF Job

\* What waits was waiting, at the same date, and the slots are what they were -- unless the file
\* is given back, its slots are, or a delivery takes one.
Calme(t) ==
  /\ \A j \in EnAttente(t)' : j \in EnAttente(t) /\ travail'[j].du = travail[j].du
  /\ Reserves(t)' = Reserves(t)
  /\ \A m \in Reserves(t) : livraison'[m].due = livraison[m].due

LEMMA PasDuCalme ==
  ASSUME TypeOK, Sortes, [Next]_vars, NEW t \in Trigger
  PROVE  \/ Calme(t) /\ derange'[t] = derange[t]
         \/ \E u \in Usager : /\ requete[u].trigger = t
                              /\ \/ liberer_les_creneaux(u)
                                 \/ reprendre_la_file(u) /\ Retenus(t) # {}
         \/ \E l \in Livraison : livraison[l].trigger = t /\ Enregistrer(l)
<1>1. travail \in [Job -> UnTravail] /\ livraison \in [Livraison -> UneLivraison]
      /\ derange \in [Trigger -> BOOLEAN]
  BY TypeNomme, CrochetsNommes DEF TypeOK
<1> DEFINE J == \A j \in EnAttente(t)' : j \in EnAttente(t) /\ travail'[j].du = travail[j].du
           L == /\ Reserves(t)' = Reserves(t)
                /\ \A m \in Reserves(t) : livraison'[m].due = livraison[m].due
<1>2. ASSUME travail' = travail PROVE J
  BY <1>2 DEF EnAttente
<1>3. ASSUME livraison' = livraison PROVE L
  BY <1>3 DEF Reserves, Acceptees
<1>4. ASSUME NEW s, travail' = Perime(s) PROVE J
  BY <1>1, <1>4 DEF Perime, Termine, EnAttente, UnTravail
<1>5. ASSUME NEW s, NEW o, NEW d, NEW x, enqueue_job(s, o, d, x), o # "hook" \/ s # t
      PROVE  J
  <2> SUFFICES ASSUME NEW j \in EnAttente(t)'
               PROVE  j \in EnAttente(t) /\ travail'[j].du = travail[j].du
    OBVIOUS
  <2>1. j \in Job /\ travail'[j].trigger = t /\ travail'[j].origine = "hook"
    BY DEF EnAttente
  <2>2. travail'[j] = travail[j]
    BY <1>1, <1>5, <2>1, EnfilerEst DEF Enfile
  <2> QED
    BY <2>1, <2>2 DEF EnAttente
<1>6. ASSUME NEW u \in Usager, GesteDe(u) PROVE J /\ L /\ derange' = derange
  <2>1. L /\ derange' = derange
    BY <1>3, <1>6 DEF GesteDe
  <2>2. CASE apres_eteindre(u)
    <3>1. CASE suspendre_la_file(requete[u].trigger)
      BY <1>1, <2>1, <3>1 DEF suspendre_la_file, EnAttente, UnTravail
    <3> QED
      BY <1>4, <2>1, <2>2, <3>1 DEF apres_eteindre, perimer_travaux_du_declencheur
  <2>3. CASE run_now(u)
    BY <1>5, <2>1, <2>3 DEF run_now
  <2> QED
    BY <1>2, <1>4, <1>6, <2>1, <2>2, <2>3
    DEF GesteDe, Requete, eteindre, lire_agent, delete_trigger, clear_queue, file_du_declencheur,
        rallumer, apres_supprimer, couper, perimer_travaux_du_declencheur
<1>7. ASSUME NEW u \in Usager, reprendre_la_file(u), requete[u].trigger # t \/ Retenus(t) = {}
      PROVE  J /\ L /\ derange'[t] = derange[t]
  <2> DEFINE s == requete[u].trigger
  <2>1. CASE Retenus(s) = {}
    BY <1>2, <1>3, <1>7, <2>1 DEF reprendre_la_file
  <2>2. CASE Retenus(s) # {}
    <3>1. /\ s # t /\ travail' = Rendus(s) /\ livraison' = CreneauxDecales(s)
          /\ derange' = [derange EXCEPT ![s] = @ \/ Ailleurs(s, {"pending"})]
      BY <1>7, <2>2 DEF reprendre_la_file
    <3>2. \A j \in Job : travail[j].trigger # s => travail'[j] = travail[j]
      BY <3>1 DEF Rendus, Retenus
    <3>3. \A j \in Job : travail'[j].trigger = travail[j].trigger
      <4> TAKE j \in Job
      <4>1. Suivi(j)
        BY <1>1, <3>1 DEF Rendus, Suivi, Retenus, UnTravail
      <4> QED
        BY <4>1 DEF Suivi
    <3>4. J
      BY <3>1, <3>2, <3>3 DEF EnAttente
    <3>5. \A m \in Livraison : livraison[m].trigger # s => livraison'[m] = livraison[m]
      BY <3>1 DEF CreneauxDecales, Acceptees
    <3>6. \A m \in Livraison : livraison'[m].trigger = livraison[m].trigger
      BY <1>1, <3>1 DEF CreneauxDecales, UneLivraison
    <3>7. L
      BY <3>1, <3>5, <3>6 DEF Reserves, Acceptees
    <3> QED
      BY <1>1, <3>1, <3>4, <3>7
  <2> QED
    BY <2>1, <2>2
<1>8. ASSUME NEW u \in Usager, liberer_les_creneaux(u), requete[u].trigger # t
      PROVE  J /\ L /\ derange'[t] = derange[t]
  <2> DEFINE s == requete[u].trigger
  <2>1. J /\ derange'[t] = derange[t]
    BY <1>1, <1>2, <1>8 DEF liberer_les_creneaux
  <2>2. \A m \in Livraison : livraison[m].trigger # s => livraison'[m] = livraison[m]
    BY <1>8 DEF liberer_les_creneaux, Acceptees
  <2>3. \A m \in Livraison : livraison'[m].trigger = livraison[m].trigger
    BY <1>1, <1>8 DEF liberer_les_creneaux, UneLivraison
  <2>4. L
    BY <1>8, <2>2, <2>3 DEF Reserves, Acceptees
  <2> QED
    BY <2>1, <2>4
<1>9. ASSUME NEW k \in Job, TravailDe(k) PROVE J /\ L /\ derange' = derange
  <2>1. L /\ derange' = derange
    BY <1>3, <1>9 DEF TravailDe
  <2>2. CASE claim_next_job(k)
    BY <1>1, <2>1, <2>2 DEF claim_next_job, EnAttente, UnTravail
  <2>3. CASE complete_job(k)
    BY <1>1, <2>1, <2>3 DEF complete_job, Termine, EnAttente, UnTravail
  <2>4. CASE rendre_a_la_file(k)
    <3>1. travail[k].etat = "claimed" /\ ~ (travail[k].prises = 0)
      BY <1>1, <2>4 DEF rendre_a_la_file, Sortes, UnTravail
    <3>2. travail' = [travail EXCEPT ![k].etat = "pending"]
      BY <2>4 DEF rendre_a_la_file
    <3>3. \A j \in Job : j # k => travail'[j] = travail[j]
      BY <3>2
    <3>4. travail'[k].prises = travail[k].prises
      BY <1>1, <3>2 DEF UnTravail
    <3> QED
      BY <2>1, <3>1, <3>3, <3>4 DEF EnAttente
  <2> QED
    BY <1>9, <2>1, <2>2, <2>3, <2>4 DEF TravailDe, Travailleur
<1>10. ASSUME NEW h \in Horloge, TourDe(h) \/ AccidentDe(h) PROVE J /\ L /\ derange' = derange
  <2>1. L /\ derange' = derange
    BY <1>3, <1>10 DEF TourDe, AccidentDe
  <2>2. CASE Perimer(h)
    BY <1>2, <1>4, <2>1, <2>2 DEF Perimer, perimer_travaux_du_declencheur
  <2>3. CASE Enfiler(h)
    BY <1>5, <2>1, <2>3 DEF Enfiler
  <2>4. CASE Boucle(h)
    BY <1>2, <2>1, <2>4 DEF Boucle, cron_inevaluable, consume_due, base
  <2>5. CASE due_triggers(h) \/ _occurrence_sautee(h) \/ tomber(h)
    BY <1>2, <2>1, <2>5 DEF due_triggers, _occurrence_sautee, tomber, base
  <2> QED
    BY <1>10, <2>1, <2>2, <2>3, <2>4, <2>5 DEF TourDe, AccidentDe, _tick
<1>11. ASSUME NEW l \in Livraison, Appel(l) \/ Rejet(l), ~ Enregistrer(l)
       PROVE  J /\ L /\ derange' = derange
  <2> DEFINE A == /\ livraison[l].etape # "acceptee" /\ travail' = travail /\ derange' = derange
                  /\ \A m \in Livraison : m # l => livraison'[m] = livraison[m]
                  /\ livraison'[l].etape # "acceptee"
  <2>1. A
    <3>1. CASE Refusee(l)
      <4>1. livraison[l].etape # "acceptee" /\ travail' = travail /\ derange' = derange
        BY <1>1, <1>11, <3>1
        DEF Appel, Rejet, Recue, recevoir, Juger, Perdre, base
      <4>2. /\ \A m \in Livraison : m # l => livraison'[m] = livraison[m]
            /\ livraison'[l].etape # "acceptee"
        BY <1>1, <3>1 DEF Refusee, Nouvelle
      <4> QED
        BY <4>1, <4>2
    <3>2. ASSUME NEW s \in Trigger, NEW id \in Identifiant \cup {NoId}, recevoir(l, s, id)
          PROVE  A
      BY <1>1, <3>2 DEF recevoir, Nouvelle, base
    <3>3. ASSUME NEW t0 \in livraison[l].t0 .. now, Juger(l, t0), ~ Refusee(l) PROVE A
      BY <1>1, <3>3 DEF Juger, UneLivraison
    <3> QED
      BY <1>11, <3>1, <3>2, <3>3 DEF Appel, Rejet, Recue, Perdre
  <2>2. L
    BY <2>1 DEF Reserves, Acceptees
  <2> QED
    BY <1>2, <2>1, <2>2
<1>12. ASSUME NEW l \in Livraison, Enregistrer(l), livraison[l].trigger # t
       PROVE  J /\ L /\ derange' = derange
  <2>1. J /\ derange' = derange
    BY <1>5, <1>12 DEF Enregistrer
  <2>2. /\ livraison[l].trigger # t /\ livraison'[l].trigger # t
        /\ \A m \in Livraison : m # l => livraison'[m] = livraison[m]
    BY <1>1, <1>12 DEF Enregistrer, Nouvelle
  <2>3. L
    BY <2>2 DEF Reserves, Acceptees
  <2> QED
    BY <2>1, <2>3
<1>13. ASSUME UNCHANGED vars \/ Temps PROVE J /\ L /\ derange' = derange
  BY <1>2, <1>3, <1>13 DEF vars, base, Temps, Tic
<1> HIDE DEF J, L
<1>14. ASSUME J, L PROVE Calme(t)
  BY <1>14 DEF J, L, Calme
<1> QED
  BY <1>6, <1>7, <1>8, <1>9, <1>10, <1>11, <1>12, <1>13, <1>14 DEF Next, SurLaFile, File

\* In the calm, a delivery that is judged finds its place, and keeps it.
LEMMA LisseAuCalme ==
  ASSUME TypeOK, [Next]_vars, NEW t \in Trigger, Lisse(t), Calme(t)
  PROVE  Lisse(t)'
<1>1. agent'[t].max_per_hour = agent[t].max_per_hour
  BY PasDesAgents DEF Reste
<1>2. \A a : Heure(t, a)' = Heure(t, a)
  BY DEF Heure, Calme
<1>3. Heures(t)'
  BY <1>1, <1>2 DEF Heures, Lisse, Calme, Heure
<1>4. Ordre(t)'
  BY DEF Ordre, Lisse, Calme
<1>5. ASSUME NEW x, Place(t, x) PROVE Place(t, x)'
  <2>1. Proches(t, x)' = Proches(t, x)
    BY DEF Proches, Calme
  <2> QED
    BY <1>1, <1>5, <2>1 DEF Place, Calme
<1>6. ASSUME NEW l \in Livraison, livraison'[l].etape = "jugee", livraison'[l].trigger = t
      PROVE  Place(t, livraison[l].t0 + livraison[l].retard)'
  <2>0. PICK x : x = livraison'[l].t0 + livraison'[l].retard
    OBVIOUS
  <2>1. Portage(l) /\ livraison[l].trigger = t
    BY <1>6, PasDesLivraisons DEF Portage
  <2>2. livraison'[l].t0 \in Nat
    BY PasTypes DEF TypeOK, TypeHooks
  <2>3. Place(t, x)
    <3>1. CASE /\ livraison[l].etape = "jugee" /\ livraison'[l].t0 = livraison[l].t0
               /\ livraison'[l].retard = livraison[l].retard
      BY <2>0, <2>1, <3>1 DEF Lisse, Jugees
    <3>2. CASE livraison'[l].retard = retard_de_lissage(livraison[l].trigger, livraison'[l].t0)
      BY <2>0, <2>1, <2>2, <3>2, RetardEstLibre
    <3> QED
      BY <1>6, <2>1, <3>1, <3>2 DEF Portage
  <2>4. Place(t, x)'
    BY <1>5, <2>3
  <2> QED
    BY <2>0, <2>4 DEF Place, Proches
<1>7. Jugees(t)'
  BY <1>6 DEF Jugees
<1>8. \E g : Portant(t, g)'
  <2>1. PICK f : Portant(t, f)
    BY DEF Lisse
  <2>0. PICK g : g = [j \in EnAttente(t)' |-> f[j]]
    OBVIOUS
  <2>2. Portant(t, g)'
    BY <2>0, <2>1 DEF Portant, Calme
  <2> QED
    BY <2>2
<1> QED
  BY <1>3, <1>4, <1>7, <1>8 DEF Lisse

\* Slots given back while nothing waits, and nothing is judged, make room.
LEMMA LisseLibere ==
  ASSUME TypeOK, [Next]_vars, NEW u \in Usager, NEW t \in Trigger, requete[u].trigger = t,
         liberer_les_creneaux(u), Lisse(t), ~ derange'[t]
  PROVE  Lisse(t)'
<1>1. /\ agent'[t].max_per_hour = agent[t].max_per_hour /\ agent[t].max_per_hour \in Nat
      /\ livraison \in [Livraison -> UneLivraison]
  BY PasDesAgents, CrochetsNommes DEF Reste, TypeOK, TypeTriggers
<1>2. ~ Ailleurs(t, {"pending", "held"})
  BY DEF liberer_les_creneaux, TypeOK, TypeHooks
<1>3. EnAttente(t)' = {}
  BY <1>2 DEF Ailleurs, EnAttente, liberer_les_creneaux
<1>4. \A m \in Reserves(t)' : m \in Reserves(t) /\ livraison'[m].due = livraison[m].due
  BY <1>1 DEF liberer_les_creneaux, Reserves, Acceptees, UneLivraison
<1>5. ASSUME NEW l \in Livraison, livraison'[l].etape = "jugee", livraison'[l].trigger = t
      PROVE  FALSE
  <2>1. livraison[l].etape = "jugee" /\ livraison[l].trigger = t
    BY <1>1, <1>5 DEF liberer_les_creneaux, UneLivraison
  <2> QED
    BY <1>2, <2>1 DEF Ailleurs
<1>6. Heures(t)'
  <2> SUFFICES ASSUME NEW l \in Reserves(t)'
               PROVE  Cardinality(Heure(t, livraison[l].due)') <= agent[t].max_per_hour
    BY <1>1 DEF Heures, Heure
  <2> DEFINE a == livraison[l].due
  <2>1. Heure(t, livraison[l].due)' \subseteq Heure(t, a) /\ l \in Reserves(t)
    BY <1>4 DEF Heure
  <2>2. Cardinality(Heure(t, a)) <= agent[t].max_per_hour
    BY <2>1 DEF Lisse, Heures
  <2>3. Heure(t, a) \subseteq Reserves(t)
    BY DEF Heure
  <2>4. Heure(t, livraison[l].due)' \subseteq Reserves(t)
    BY <2>1, <2>3
  <2>5. /\ Cardinality(Heure(t, livraison[l].due)') <= Cardinality(Heure(t, a))
        /\ Cardinality(Heure(t, livraison[l].due)') \in Nat /\ Cardinality(Heure(t, a)) \in Nat
    BY <2>1, <2>3, <2>4, Compte, FS_Subset
  <2> QED
    BY <1>1, <2>2, <2>5
<1>7. Ordre(t)' /\ Jugees(t)'
  BY <1>3, <1>5 DEF Ordre, Jugees
<1>8. \E g : Portant(t, g)'
  <2>0. PICK g : g = [j \in {} |-> j]
    OBVIOUS
  <2>1. Portant(t, g)'
    BY <1>3, <2>0 DEF Portant
  <2> QED
    BY <2>1
<1> QED
  BY <1>6, <1>7, <1>8 DEF Lisse

\* A file that is given back moves with its slots, and an interval between slots never shrinks:
\* those before the first job that was held stay, the others go by as much.
LEMMA LisseRendu ==
  ASSUME TypeOK, [Next]_vars, NEW u \in Usager, NEW t \in Trigger, requete[u].trigger = t,
         reprendre_la_file(u), Retenus(t) # {}, Lisse(t), ~ derange'[t]
  PROVE  Lisse(t)'
<1> DEFINE d == Depart(t)
           s == Decalage(t)
<1>1. /\ agent'[t].max_per_hour = agent[t].max_per_hour /\ agent[t].max_per_hour \in Nat
      /\ livraison \in [Livraison -> UneLivraison] /\ travail \in [Job -> UnTravail]
      /\ now \in Nat
  BY PasDesAgents, CrochetsNommes, TypeNomme DEF Reste, TypeOK, TypeTriggers
<1>2. travail' = Rendus(t) /\ livraison' = CreneauxDecales(t) /\ ~ Ailleurs(t, {"pending"})
  BY DEF reprendre_la_file, TypeOK, TypeHooks
<1>3. d \in Nat /\ s \in Nat /\ \A j \in Retenus(t) : d <= travail[j].du
  BY <1>1, DepartEst, DecalageEst
<1>4. ASSUME NEW j \in EnAttente(t)'
      PROVE  /\ j \in EnAttente(t) /\ travail[j].du >= d /\ travail[j].du \in Nat
             /\ travail'[j].du = travail[j].du + s
  <2>1. /\ j \in Job /\ travail'[j].trigger = t /\ travail'[j].origine = "hook"
        /\ travail'[j].etat \in {"pending", "held"} /\ travail'[j].prises = 0
    BY DEF EnAttente
  <2>2. j \in Retenus(t)
    <3> SUFFICES ASSUME j \notin Retenus(t) PROVE FALSE
      OBVIOUS
    <3>1. travail'[j] = travail[j]
      BY <1>2, <2>1 DEF Rendus
    <3> QED
      BY <1>2, <2>1, <3>1 DEF Ailleurs, Retenus
  <2>3. travail'[j] = [travail[j] EXCEPT !.etat = "pending", !.du = travail[j].du + s]
    BY <1>2, <2>1, <2>2 DEF Rendus
  <2>4. travail[j] \in UnTravail
    BY <1>1, <2>1
  <2>5. travail'[j].du = travail[j].du + s /\ j \in EnAttente(t)
    BY <2>1, <2>2, <2>3, <2>4 DEF EnAttente, Retenus, UnTravail
  <2> QED
    BY <1>3, <2>2, <2>4, <2>5 DEF UnTravail
<1>5. \A m \in Livraison :
        /\ livraison'[m].trigger = livraison[m].trigger /\ livraison'[m].etape = livraison[m].etape
        /\ m \in Reserves(t) => livraison'[m].due = IF livraison[m].due >= d
                                                    THEN livraison[m].due + s ELSE livraison[m].due
        /\ m \notin Reserves(t) => livraison'[m] = livraison[m]
  BY <1>1, <1>2 DEF CreneauxDecales, Reserves, UneLivraison
<1>6. /\ Reserves(t) \subseteq Livraison /\ \A m \in Reserves(t) : livraison[m].due \in Nat
      /\ \A m \in Reserves(t) : livraison'[m].due \in Nat
  BY <1>3, <1>5, ReservesSont
<1>7. Reserves(t)' = Reserves(t)
  <2>1. \A m \in Livraison : m \in Reserves(t) => m \in Reserves(t)'
    BY <1>5, <1>6 DEF Reserves, Acceptees, NULL
  <2>2. \A m \in Livraison : m \in Reserves(t)' => m \in Reserves(t)
    BY <1>5 DEF Reserves, Acceptees
  <2>3. Reserves(t)' \subseteq Livraison
    BY DEF Reserves, Acceptees
  <2> QED
    BY <1>6, <2>1, <2>2, <2>3
<1>8. ASSUME NEW l \in Livraison, livraison'[l].etape = "jugee", livraison'[l].trigger = t
      PROVE  FALSE
  BY <1>2, <1>5, <1>8 DEF Ailleurs
<1>9. Heures(t)'
  <2> SUFFICES ASSUME NEW l \in Reserves(t)
               PROVE  Cardinality(Heure(t, livraison[l].due)') <= agent[t].max_per_hour
    BY <1>1, <1>7 DEF Heures, Heure
  <2> DEFINE a == livraison[l].due
             H == Heure(t, livraison[l].due)'
  <2>1. ASSUME NEW m \in H PROVE m \in Heure(t, a)
    <3>1. m \in Reserves(t) /\ livraison'[m].due >= livraison'[l].due
          /\ livraison'[m].due < livraison'[l].due + FENETRE
      BY <1>7, <2>1 DEF Heure
    <3>2. livraison[m].due >= a /\ livraison[m].due < a + FENETRE
      <4> HIDE DEF d, s
      <4> QED
        BY <1>3, <1>5, <1>6, <3>1, HooksAssumption
    <3> QED
      BY <3>1, <3>2 DEF Heure
  <2>2. Cardinality(Heure(t, a)) <= agent[t].max_per_hour
    BY DEF Lisse, Heures
  <2>3. Heure(t, a) \subseteq Reserves(t) /\ H \subseteq Heure(t, a) /\ H \subseteq Reserves(t)
    BY <1>7, <2>1 DEF Heure
  <2>4. Cardinality(H) <= Cardinality(Heure(t, a)) /\ Cardinality(H) \in Nat
        /\ Cardinality(Heure(t, a)) \in Nat
    <3> HIDE DEF H
    <3> QED
      BY <2>3, Compte, FS_Subset
  <2> QED
    BY <1>1, <2>2, <2>4
<1>10. Ordre(t)'
  <2> SUFFICES ASSUME NEW j \in EnAttente(t)', NEW k \in EnAttente(t)', j < k
               PROVE  travail'[j].du <= travail'[k].du
    BY DEF Ordre
  <2>1. travail[j].du <= travail[k].du
    BY <1>4 DEF Lisse, Ordre
  <2> HIDE DEF d, s
  <2> QED
    BY <1>3, <1>4, <2>1
<1>11. Jugees(t)'
  BY <1>8 DEF Jugees
<1>12. \E g : Portant(t, g)'
  <2>1. PICK f : Portant(t, f)
    BY DEF Lisse
  <2>0. PICK g : g = [j \in EnAttente(t)' |-> f[j]]
    OBVIOUS
  <2>2. ASSUME NEW j \in EnAttente(t)'
        PROVE  f[j] \in Reserves(t) /\ livraison'[f[j]].due = travail'[j].du
    <3>1. f[j] \in Reserves(t) /\ livraison[f[j]].due = travail[j].du
      BY <1>4, <2>1 DEF Portant
    <3> HIDE DEF d, s
    <3> QED
      BY <1>4, <1>5, <1>6, <3>1
  <2>3. \A j, k \in EnAttente(t)' : f[j] = f[k] => j = k
    BY <1>4, <2>1 DEF Portant
  <2>4. Portant(t, g)'
    BY <1>7, <2>0, <2>2, <2>3 DEF Portant
  <2> QED
    BY <2>4
<1> QED
  BY <1>9, <1>10, <1>11, <1>12 DEF Lisse

\* A delivery that is accepted takes the last slot and the last number, at the place it found.
LEMMA LisseEnregistre ==
  ASSUME TypeOK, Serres, Jugement, [Next]_vars, NEW t \in Trigger, agent[t].existe,
         NEW n \in Livraison, livraison[n].trigger = t, Enregistrer(n), Lisse(t)
  PROVE  Lisse(t)'
<1> DEFINE x == livraison[n].t0 + livraison[n].retard
           p == Prochain
<1>1. /\ agent'[t].max_per_hour = agent[t].max_per_hour /\ agent[t].max_per_hour \in Nat \ {0}
      /\ livraison \in [Livraison -> UneLivraison] /\ travail \in [Job -> UnTravail]
  BY PasDesAgents, CrochetsNommes, TypeNomme DEF Reste, TypeOK, TypeTriggers
<1>2. x \in Nat /\ Place(t, x) /\ livraison[n].etape = "jugee"
  BY <1>1 DEF Enregistrer, Lisse, Jugees, UneLivraison
<1>3. /\ livraison'[n].due = x /\ livraison'[n].etape = "acceptee" /\ livraison'[n].trigger = t
      /\ \A m \in Livraison : m # n => livraison'[m] = livraison[m]
  BY <1>1 DEF Enregistrer, Nouvelle
<1>4. /\ Reserves(t)' = Reserves(t) \cup {n} /\ n \notin Reserves(t)
      /\ \A m \in Reserves(t) : livraison'[m].due = livraison[m].due
  <2>1. n \notin Reserves(t) /\ Reserves(t) \subseteq Livraison
    BY <1>2 DEF Reserves, Acceptees
  <2>2. n \in Reserves(t)'
    BY <1>2, <1>3 DEF Reserves, Acceptees, NULL
  <2>3. \A m \in Livraison : m # n => (m \in Reserves(t)' <=> m \in Reserves(t))
    BY <1>3 DEF Reserves, Acceptees
  <2>4. Reserves(t)' \subseteq Livraison
    BY DEF Reserves, Acceptees
  <2> QED
    BY <1>3, <2>1, <2>2, <2>3, <2>4
<1>5. /\ p \in Job /\ travail[p].etat = "absent"
      /\ travail'[p] = [etat |-> "pending", trigger |-> t, origine |-> "hook", date |-> 0,
                        du |-> x, prises |-> 0]
      /\ \A j \in Job : j # p => travail'[j] = travail[j]
  <2>1. enqueue_job(t, "hook", 0, x)
    BY DEF Enregistrer
  <2>2. p \in Libres
    BY <2>1, ProchainEst DEF enqueue_job
  <2> QED
    BY <1>1, <2>1, <2>2 DEF enqueue_job, Libres
<1>6. /\ EnAttente(t)' = EnAttente(t) \cup {p}
      /\ \A j \in EnAttente(t) : travail'[j].du = travail[j].du /\ j < p
  <2>1. EnAttente(t) \subseteq Job /\ EnAttente(t)' \subseteq Job
    BY DEF EnAttente
  <2>2. p \in EnAttente(t)' /\ p \notin EnAttente(t)
    BY <1>5 DEF EnAttente
  <2>3. \A j \in Job : j # p => (j \in EnAttente(t)' <=> j \in EnAttente(t))
    BY <1>5 DEF EnAttente
  <2>4. \A j \in EnAttente(t) : j \in Nat /\ p \in Nat /\ ~ (p < j) /\ j # p
    BY <1>5, <2>1, <2>2 DEF EnAttente, Serres, Job
  <2> QED
    BY <1>5, <2>1, <2>2, <2>3, <2>4
<1>7. /\ \A m \in Reserves(t) : livraison[m].due \in Nat /\ livraison[m].due <= x
      /\ Proches(t, x) \subseteq Reserves(t) /\ Reserves(t) \subseteq Livraison
      /\ Cardinality(Proches(t, x)) < agent[t].max_per_hour
  BY <1>2, ReservesSont DEF Place, Proches
\* The hour that holds the new slot holds, of the others, only some of the last hour.
<1>8. Heures(t)'
  <2> SUFFICES ASSUME NEW l \in Reserves(t)'
               PROVE  Cardinality(Heure(t, livraison[l].due)') <= agent[t].max_per_hour
    BY <1>1 DEF Heures, Heure
  <2> DEFINE H == Heure(t, livraison[l].due)'
  <2>1. l = n \/ l \in Reserves(t)
    BY <1>4
  <2>2. \A m \in H : /\ m = n \/ m \in Reserves(t)
                     /\ livraison'[m].due >= livraison'[l].due
                     /\ livraison'[m].due < livraison'[l].due + FENETRE
    BY <1>4 DEF Heure
  <2>3. CASE n \in H
    <3>1. x < livraison'[l].due + FENETRE /\ livraison'[l].due \in Nat
      BY <1>2, <1>3, <1>4, <1>7, <2>1, <2>2, <2>3
    <3>2. ASSUME NEW m \in H, m # n PROVE m \in Proches(t, x)
      <4>1. m \in Reserves(t) /\ livraison[m].due >= livraison'[l].due /\ livraison[m].due \in Nat
        BY <1>4, <1>7, <2>2, <3>2
      <4>2. livraison[m].due > x - FENETRE
        <5> HIDE DEF x
        <5> QED
          BY <1>2, <3>1, <4>1, HooksAssumption
      <4> QED
        BY <4>1, <4>2 DEF Proches
    <3>3. IsFiniteSet(Proches(t, x)) /\ Cardinality(Proches(t, x)) \in Nat
      BY <1>7, Compte
    <3>4. /\ IsFiniteSet(Proches(t, x) \cup {n})
          /\ \/ Cardinality(Proches(t, x) \cup {n}) = Cardinality(Proches(t, x))
             \/ Cardinality(Proches(t, x) \cup {n}) = Cardinality(Proches(t, x)) + 1
      BY <3>3, FS_AddElement, Zenon
    <3>5. H \subseteq Proches(t, x) \cup {n}
      BY <3>2
    <3>6. Cardinality(H) <= Cardinality(Proches(t, x) \cup {n}) /\ Cardinality(H) \in Nat
      <4> HIDE DEF H, x
      <4> QED
        BY <3>4, <3>5, FS_Subset, FS_CardinalityType
    <3> HIDE DEF H, x
    <3>7. Cardinality(H) <= agent[t].max_per_hour
      BY <1>1, <1>7, <3>3, <3>4, <3>6
    <3> QED
      BY <3>7 DEF H
  <2>4. CASE n \notin H
    <3>1. l # n
      <4> SUFFICES ASSUME l = n PROVE FALSE
        OBVIOUS
      <4> QED
        BY <1>2, <1>3, <1>4, <2>4, HooksAssumption DEF Heure
    <3>2. l \in Reserves(t) /\ livraison'[l].due = livraison[l].due
      BY <1>4, <2>1, <3>1
    <3>3. ASSUME NEW m \in H PROVE m \in Heure(t, livraison[l].due)
      <4>1. m # n /\ m \in Reserves(t) /\ livraison'[m].due = livraison[m].due
        BY <1>4, <2>2, <2>4, <3>3
      <4> QED
        BY <2>2, <3>2, <3>3, <4>1 DEF Heure
    <3>4. Cardinality(Heure(t, livraison[l].due)) <= agent[t].max_per_hour
      BY <3>2 DEF Lisse, Heures
    <3>5. Heure(t, livraison[l].due) \subseteq Reserves(t) /\ H \subseteq Heure(t, livraison[l].due)
      BY <3>3 DEF Heure
    <3>6. H \subseteq Reserves(t)
      BY <3>5
    <3> HIDE DEF H
    <3>7. /\ Cardinality(H) <= Cardinality(Heure(t, livraison[l].due)) /\ Cardinality(H) \in Nat
          /\ Cardinality(Heure(t, livraison[l].due)) \in Nat
      BY <3>5, <3>6, Compte, FS_Subset
    <3>8. Cardinality(H) <= agent[t].max_per_hour
      BY <1>1, <3>4, <3>7
    <3> QED
      BY <3>8 DEF H
  <2> QED
    BY <2>3, <2>4
<1>9. PICK f : Portant(t, f)
  BY DEF Lisse
<1>10. \A j \in EnAttente(t) : f[j] \in Reserves(t) /\ travail[j].du = livraison[f[j]].due
                               /\ travail[j].du <= x
  BY <1>7, <1>9 DEF Portant
<1>11. Ordre(t)'
  <2> SUFFICES ASSUME NEW j \in EnAttente(t)', NEW k \in EnAttente(t)', j < k
               PROVE  travail'[j].du <= travail'[k].du
    BY DEF Ordre
  <2>1. travail'[p].du = x /\ p \in Nat
    BY <1>5 DEF Job
  <2>2. CASE k \in EnAttente(t) /\ j \in EnAttente(t)
    BY <1>6, <2>2 DEF Lisse, Ordre
  <2>3. CASE k = p /\ j \in EnAttente(t)
    BY <1>6, <1>10, <2>1, <2>3
  <2>4. CASE j = p
    <3> HIDE DEF p, x
    <3>1. k \in Nat /\ ~ (k < p)
      BY <2>1, <2>4, ReservesSont, PasTypes DEF Job, EnAttente
    <3> QED
      BY <1>2, <1>6, <2>1, <2>4, <3>1
  <2> QED
    BY <1>6, <2>2, <2>3, <2>4
<1>12. Jugees(t)'
  <2> SUFFICES ASSUME NEW l \in Livraison, livraison'[l].etape = "jugee", livraison'[l].trigger = t
               PROVE  FALSE
    BY DEF Jugees
  <2>1. l # n /\ livraison[l].etape = "jugee" /\ livraison[l].trigger = t
    BY <1>3
  <2> QED
    BY <1>2, <2>1 DEF Jugement
<1>13. \E g : Portant(t, g)'
  <2>1. PICK g : g = [j \in EnAttente(t)' |-> IF j = p THEN n ELSE f[j]]
    OBVIOUS
  <2>2. \A j \in EnAttente(t) : g[j] = f[j] /\ j # p
    <3> HIDE DEF p
    <3>1. \A j \in EnAttente(t) : j # p
      BY <1>5, <1>6 DEF EnAttente
    <3> QED
      BY <1>6, <2>1, <3>1
  <2>3. g[p] = n
    BY <1>6, <2>1
  <2>4. g \in [EnAttente(t)' -> Reserves(t)']
    BY <1>4, <1>6, <1>10, <2>1, <2>2, <2>3
  <2>5. \A j, k \in EnAttente(t)' : g[j] = g[k] => j = k
    BY <1>4, <1>6, <1>9, <1>10, <2>2, <2>3 DEF Portant
  <2>6. \A j \in EnAttente(t)' : livraison'[g[j]].due = travail'[j].du
    BY <1>3, <1>4, <1>5, <1>6, <1>10, <2>2, <2>3
  <2> QED
    BY <2>4, <2>5, <2>6 DEF Portant
<1> QED
  BY <1>8, <1>11, <1>12, <1>13 DEF Lisse

LEMMA LissagePas ==
  ASSUME TypeOK, Sortes, Serres, Jugement, Lissage, [Next]_vars
  PROVE  Lissage'
<1> SUFFICES ASSUME NEW t \in Existants', ~ derange'[t] PROVE Lisse(t)'
  BY DEF Lissage
<1>1. t \in Trigger /\ agent[t].existe /\ t \in Existants
  BY PasDesAgents DEF Reste, Existants
<1>2. CASE Calme(t) /\ derange'[t] = derange[t]
  BY <1>1, <1>2, LisseAuCalme DEF Lissage
<1>3. ASSUME NEW u \in Usager, requete[u].trigger = t,
             liberer_les_creneaux(u) \/ (reprendre_la_file(u) /\ Retenus(t) # {})
      PROVE  Lisse(t)'
  <2>1. ~ derange[t]
    BY <1>1, <1>3 DEF liberer_les_creneaux, reprendre_la_file, TypeOK, TypeHooks
  <2>2. Lisse(t)
    BY <1>1, <2>1 DEF Lissage
  <2> QED
    BY <1>1, <1>3, <2>2, LisseLibere, LisseRendu
<1>4. ASSUME NEW n \in Livraison, livraison[n].trigger = t, Enregistrer(n) PROVE Lisse(t)'
  <2>1. Lisse(t)
    BY <1>1, <1>4 DEF Enregistrer, Lissage
  <2> QED
    BY <1>1, <1>4, <2>1, LisseEnregistre
<1> QED
  BY <1>1, <1>2, <1>3, <1>4, PasDuCalme

\* One slot for each job: the jobs of an hour are no more than its slots.
LEMMA LisseSuffit ==
  ASSUME TypeOK, NEW t \in Trigger, Lisse(t)
  PROVE  AuDebit(t)
<1>1. PICK f : Portant(t, f)
  BY DEF Lisse
<1>2. agent[t].max_per_hour \in Nat
  BY DEF TypeOK, TypeTriggers
<1>3. ASSUME NEW j \in EnAttente(t)
      PROVE  Cardinality({k \in EnAttente(t) : /\ travail[k].du >= travail[j].du
                                               /\ travail[k].du < travail[j].du + FENETRE})
               <= agent[t].max_per_hour
  <2> DEFINE K == {k \in EnAttente(t) : /\ travail[k].du >= travail[j].du
                                        /\ travail[k].du < travail[j].du + FENETRE}
             H == Heure(t, livraison[f[j]].due)
             g == [k \in K |-> f[k]]
  <2>1. f[j] \in Reserves(t) /\ livraison[f[j]].due = travail[j].du
    BY <1>1 DEF Portant
  <2>2. Cardinality(H) <= agent[t].max_per_hour
    BY <2>1 DEF Lisse, Heures
  <2>3. \A k \in K : f[k] \in H
    BY <1>1, <2>1 DEF Portant, Heure
  <2>4. \A k, i \in K : f[k] = f[i] => k = i
    BY <1>1 DEF Portant
  <2>5. g \in Injection(K, H)
    <3> HIDE DEF K, H
    <3> QED
      BY <2>3, <2>4 DEF Injection, IsInjective
  <2>6. H \subseteq Reserves(t) /\ K \subseteq EnAttente(t)
    BY DEF Heure
  <2>7. IsFiniteSet(H) /\ Cardinality(H) \in Nat
    BY <2>6, Compte
  <2>8. IsFiniteSet(K) /\ Cardinality(K) \in Nat
    BY <2>6, ReservesSont, FS_Subset, FS_CardinalityType
  <2>9. Cardinality(K) <= Cardinality(H)
    <3> HIDE DEF K, H, g
    <3> QED
      BY <2>5, <2>7, FS_Injection
  <2> HIDE DEF K, H
  <2>10. Cardinality(K) <= agent[t].max_per_hour
    BY <1>2, <2>2, <2>7, <2>8, <2>9
  <2> QED
    BY <2>10 DEF K
<1>4. ASSUME NEW l \in Reserves(t)
      PROVE  Cardinality({m \in Reserves(t) : /\ livraison[m].due >= livraison[l].due
                                              /\ livraison[m].due < livraison[l].due + FENETRE})
               <= agent[t].max_per_hour
  BY DEF Lisse, Heures, Heure
<1> QED
  BY <1>3, <1>4 DEF AuDebit

\* However many deliveries arrive at once, and after a freeze too, an agent has at most its rate
\* of slots, and of first departures to come, in any hour, and they come in the order of
\* arrival -- unless a delivery took its slot while a request moved them.
THEOREM SmoothingHolds == Spec => []LissageTenu
<1>1. Init => Serres /\ Jugement /\ Lissage
  <2> SUFFICES ASSUME Init PROVE Serres /\ Jugement /\ Lissage
    OBVIOUS
  <2>1. Serres /\ Jugement
    BY DEF Init, InitTriggers, InitHooks, Serres, Jugement, Vierge, Nouvelle
  <2>2. ASSUME NEW t \in Trigger PROVE Lisse(t)
    <3>1. EnAttente(t) = {} /\ Reserves(t) = {}
      BY DEF Init, InitTriggers, InitHooks, EnAttente, Reserves, Acceptees, Vierge, Nouvelle
    <3>2. Heures(t) /\ Ordre(t) /\ Jugees(t)
      BY <3>1 DEF Heures, Ordre, Jugees, Init, InitHooks, Nouvelle
    <3>3. PICK g : g = [j \in {} |-> j]
      OBVIOUS
    <3>4. Portant(t, g)
      BY <3>1, <3>3 DEF Portant
    <3> QED
      BY <3>2, <3>4 DEF Lisse
  <2> QED
    BY <2>1, <2>2 DEF Lissage, Existants
<1>2. /\ TypeOK /\ Sortes /\ Serres /\ Jugement /\ Lissage /\ [Next]_vars
      => Serres' /\ Jugement' /\ Lissage'
  BY SerresTenus, JugementTenu, LissagePas
<1>3. TypeOK /\ Lissage => LissageTenu
  BY LisseSuffit DEF Lissage, LissageTenu, DebitTenu, OrdreDArrivee, Lisse, Ordre, Existants
<1> QED
  BY <1>1, <1>2, <1>3, SortesToujours, PTL DEF Spec

==============================================================================
