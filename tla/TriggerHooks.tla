---------------------------- MODULE TriggerHooks ----------------------------
(***************************************************************************)
(* The deliveries of a webhook: src/oto_mcp/runner_hook.py enfiler, with   *)
(* the smoothing, the daily ceiling and the deduplication of               *)
(* db/runner_hooks.py, and what resumes or gives back their slots.         *)
(*                                                                         *)
(* A delivery reads the agent, opens a transaction (NOW() is fixed there,  *)
(* at any instant until the lock is granted), waits for the row of the     *)
(* agent, reads and commits.  One that is refused or lost reserves nothing *)
(* and its source may send it again.  resume and give back take no lock.   *)
(***************************************************************************)
EXTENDS Triggers

CONSTANTS Livraison,
          Identifiant,    \* what a signed delivery carries; NoId: nothing
          FENETRE, JOUR,  \* the windows of max_per_hour and of max_per_day
          fraicheur,      \* 0: nothing gets stale
          NoId

ASSUME HooksAssumption ==
  /\ FENETRE \in Nat \ {0} /\ JOUR \in Nat \ {0}
  /\ fraicheur \in Nat /\ IsFiniteSet(Livraison)
  /\ Personne \notin Livraison /\ NoId \notin Identifiant

VARIABLES
  livraison,   \* the deliveries, with what runner_hook_deliveries keeps of them
  derange      \* history: slots were moved or freed while others were taken

NULL == -1
Nouvelle == [etape |-> "absente", trigger |-> NoTrigger, externe |-> NoId, t0 |-> 0, retard |-> 0,
             due |-> NULL, recu |-> 0]

InitHooks ==
  /\ livraison = [l \in Livraison |-> Nouvelle] /\ derange = [t \in Trigger |-> FALSE]

Acceptees(t) == {l \in Livraison : livraison[l].trigger = t /\ livraison[l].etape = "acceptee"}

-----------------------------------------------------------------------------
(* What is read under the lock. *)

\* Slip: only a delivery whose slot is still to come is a duplicate.
EncoreAVenir(t, l) ==
  /\ livraison[l].externe # NoId
  /\ \E m \in Acceptees(t) : livraison[m].externe = livraison[l].externe /\ livraison[m].due > now
livraison_acceptee(t, l) ==
  /\ livraison[l].externe # NoId
  /\ \E m \in Acceptees(t) : livraison[m].externe = livraison[l].externe

acceptees_sur_24h(t, t0) ==
  Cardinality({m \in Acceptees(t) : livraison[m].recu > t0 - JOUR})

LePlusLoin(S) == CHOOSE x \in S : \A y \in S : y <= x

\* The slots of the last window, and of the future.
Recents(t, t0) ==
  {m \in Acceptees(t) : livraison[m].due # NULL /\ livraison[m].due > t0 - FENETRE}
Creneaux(t, t0) == {livraison[m].due : m \in Recents(t, t0)}
\* The `debit`-th latest of them.
Kieme(t, t0, debit) ==
  LePlusLoin({d \in Creneaux(t, t0) :
          Cardinality({m \in Recents(t, t0) : livraison[m].due >= d}) >= debit})
Espace(debit) == (FENETRE + debit - 1) \div debit
retard_de_lissage(t, t0) ==
  IF Recents(t, t0) = {} THEN 0
  ELSE LET debit == agent[t].max_per_hour
           dernier == LePlusLoin(Creneaux(t, t0)) - t0
           plein == Cardinality(Recents(t, t0)) >= debit
           plancher == IF plein THEN Kieme(t, t0, debit) + FENETRE - t0 ELSE 0
       IN IF dernier <= 0 /\ plancher <= 0 THEN 0
          ELSE LePlusLoin({1, dernier + Espace(debit), plancher})

-----------------------------------------------------------------------------
(* A delivery. *)

\* An agent that is off refuses it.
recevoir(l, t, id) ==
  /\ livraison[l].etape = "absente"
  /\ agent[t].existe /\ agent[t].kind = "webhook" /\ agent[t].enabled
  /\ livraison' = [livraison EXCEPT ![l] =
       [Nouvelle EXCEPT !.etape = "lue", !.trigger = t, !.externe = id, !.t0 = now]]
  /\ UNCHANGED <<base, derange>>

Refusee(l) == livraison' = [livraison EXCEPT ![l] = Nouvelle]

\* The lock, then what it protects; without a row there is nothing to lock.
\* Slip: nothing is locked.
LaisseLibre(l) == UNCHANGED verrou
verrouiller_le_declencheur(l) ==
  LET t == livraison[l].trigger IN
  verrou' = IF agent[t].existe THEN [verrou EXCEPT ![t] = l] ELSE verrou
Juger(l, t0) ==
  LET t == livraison[l].trigger
      retard == retard_de_lissage(t, t0)
      deja == livraison_acceptee(t, l)
      plein == acceptees_sur_24h(t, t0) >= agent[t].max_per_day
      tard == retard > 0 /\ fraicheur > 0 /\ retard > fraicheur
  IN
  /\ livraison[l].etape = "lue" /\ LigneLibre(t)
  /\ \/ (deja \/ plein \/ tard) /\ Refusee(l) /\ UNCHANGED verrou
     \/ /\ ~deja /\ ~plein /\ ~tard
        /\ livraison' = [livraison EXCEPT ![l].etape = "jugee", ![l].t0 = t0,
                                          ![l].retard = retard]
        /\ verrouiller_le_declencheur(l)
  /\ UNCHANGED <<now, agent, travail, requete, trouble, manquees, coupures, gestes, derange>>

Rendu(l) == [t \in Trigger |-> IF verrou[t] = l THEN Personne ELSE verrou[t]]

\* The job and its delivery, in one commit; the unique index of the accepted identifiers
\* refuses the second.
Enregistrer(l) ==
  LET t == livraison[l].trigger
      due == livraison[l].t0 + livraison[l].retard
  IN
  /\ livraison[l].etape = "jugee" /\ ~livraison_acceptee(t, l)
  /\ enqueue_job(t, "hook", 0, due)
  /\ livraison' = [livraison EXCEPT ![l] =
       [Nouvelle EXCEPT !.etape = "acceptee", !.trigger = t,
                        !.externe = livraison[l].externe, !.due = due, !.recu = livraison[l].t0]]
  /\ verrou' = Rendu(l)
  /\ UNCHANGED <<now, agent, requete, trouble, manquees, coupures, gestes, derange>>

\* The workspace is suspended, the procedure archived, the model gone; the connection is
\* lost, or the index refuses.
Perdre(l) ==
  /\ livraison[l].etape \in {"lue", "jugee"} /\ Refusee(l)
  /\ verrou' = Rendu(l)
  /\ UNCHANGED <<now, agent, travail, requete, trouble, manquees, coupures, gestes, derange>>

-----------------------------------------------------------------------------
(* What moves the slots. *)

\* Deliveries that took, or take, a slot of which the request knows nothing: their job waits
\* and is not one of those it handles.
Ailleurs(t, etats) ==
  \/ \E j \in Job : travail[j].trigger = t /\ travail[j].origine = "hook"
                     /\ travail[j].etat \in etats
  \/ \E l \in Livraison : livraison[l].trigger = t /\ livraison[l].etape = "jugee"

\* Slip: the slots stay where they were.
CreneauxGardes(t) == livraison
CreneauxDecales(t) ==
  [l \in Livraison |->
     IF l \in Acceptees(t) /\ livraison[l].due # NULL /\ livraison[l].due >= Depart(t)
     THEN [livraison[l] EXCEPT !.due = @ + Decalage(t)] ELSE livraison[l]]
reprendre_la_file(u) ==
  LET t == requete[u].trigger IN
  /\ requete[u].etape = "rallume"
  /\ \/ Retenus(t) = {} /\ UNCHANGED <<travail, livraison, derange>>
     \/ /\ Retenus(t) # {}
        /\ travail' = Rendus(t) /\ livraison' = CreneauxDecales(t)
        /\ derange' = [derange EXCEPT ![t] = @ \/ Ailleurs(t, {"pending"})]
  /\ FinBascule(u)
  /\ UNCHANGED <<now, agent, verrou, manquees, coupures, gestes>>

liberer_les_creneaux(u) ==
  LET t == requete[u].trigger IN
  /\ requete[u].etape = "vide"
  /\ livraison' = [l \in Livraison |->
       IF l \in Acceptees(t) /\ livraison[l].due > now
       THEN [livraison[l] EXCEPT !.due = NULL] ELSE livraison[l]]
  /\ derange' = [derange EXCEPT ![t] = @ \/ Ailleurs(t, {"pending", "held"})]
  /\ requete' = [requete EXCEPT ![u] = Repos]
  /\ UNCHANGED <<now, agent, verrou, travail, trouble, manquees, coupures, gestes>>

Recue(l) ==
  \/ \E t \in Trigger, id \in Identifiant \cup {NoId} : recevoir(l, t, id)
  \/ \E t0 \in livraison[l].t0 .. now : Juger(l, t0)
  \/ Enregistrer(l)
File(u) == reprendre_la_file(u) \/ liberer_les_creneaux(u)

TypeHooks ==
  /\ verrou \in [Trigger -> Livraison \cup {Personne}] /\ derange \in [Trigger -> BOOLEAN]
  /\ livraison \in [Livraison ->
       [etape : {"absente", "lue", "jugee", "acceptee"},
        trigger : Trigger \cup {NoTrigger}, externe : Identifiant \cup {NoId},
        t0 : Nat, retard : Nat,
        due : Nat \cup {NULL}, recu : Nat]]
  /\ \A l \in Livraison : livraison[l].etape # "absente" => livraison[l].trigger \in Trigger
==============================================================================
