---------------------------- MODULE TriggerSystem ----------------------------
(***************************************************************************)
(* The agents that start by themselves, with both ways to start them:      *)
(* requests, workers, clocks and deliveries step by step.                  *)
(***************************************************************************)
EXTENDS TriggerClock, TriggerHooks

vars == <<base, tour, rates, livraison, derange>>

Init == InitTriggers /\ InitClock /\ InitHooks

GesteDe(u) == Requete(u) /\ UNCHANGED <<tour, rates, livraison, derange>>
SurLaFile(u) == File(u) /\ UNCHANGED <<tour, rates>>
TravailDe(j) == Travailleur(j) /\ UNCHANGED <<tour, rates, livraison, derange>>
TourDe(h) == _tick(h) /\ UNCHANGED <<livraison, derange>>
AccidentDe(h) == (_occurrence_sautee(h) \/ tomber(h)) /\ UNCHANGED <<livraison, derange>>
Appel(l) == Recue(l) /\ UNCHANGED <<tour, rates>>
Rejet(l) == Perdre(l) /\ UNCHANGED <<tour, rates>>
Temps == Tic /\ UNCHANGED <<livraison, derange>>

Next ==
  \/ \E u \in Usager : GesteDe(u) \/ SurLaFile(u)
  \/ \E j \in Job : TravailDe(j)
  \/ \E h \in Horloge : TourDe(h) \/ AccidentDe(h)
  \/ \E l \in Livraison : Appel(l) \/ Rejet(l)
  \/ Temps

Spec == Init /\ [][Next]_vars

\* A clock never stops: its loop outlives every turn (run_runner_tick_loop).  Requests and
\* workers go on, and time passes.
FairSpec ==
  /\ Spec /\ WF_vars(Temps)
  /\ \A h \in Horloge : WF_vars(TourDe(h))

TypeOK == TypeTriggers /\ TypeClock /\ TypeHooks

-----------------------------------------------------------------------------
(* The clock. *)

DeLHorloge(t) == {j \in Job : travail[j].origine = "horloge" /\ travail[j].trigger = t}

\* "UN gagnant par echeance" (runner_tick.py): whatever clocks share the database, and
\* whatever toggles, a due date is enqueued once.
UnGagnantParEcheance ==
  \A t \in Trigger : \A j, k \in DeLHorloge(t) :
    travail[j].date = travail[k].date => j = k

\* "PERIMER AVANT D'ENFILER": the occurrences that wait and that nobody ever took do not
\* pile up, but for the expirations that failed (perimer_travaux_du_declencheur).
AttenteBornee ==
  \A t \in Trigger :
    Cardinality({j \in DeLHorloge(t) : travail[j].etat = "pending" /\ travail[j].prises = 0})
      <= 1 + rates[t]

\* "RALLUMER REPREND LE RYTHME": what fell due while the agent was off never starts.
RythmeRepris ==
  \A t \in Trigger : \A j \in DeLHorloge(t) : travail[j].date \notin manquees[t]

\* An agent that is due is consumed, or switched off: neither a clock that fell nor the
\* cron of another agent holds it up (due_triggers, _tick).
EcheanceConsommee == \A t \in Trigger \ Casses : Due(t) ~> ~Due(t)

-----------------------------------------------------------------------------
(* The deliveries.  A deleted agent has no row left to lock: what follows is of the others. *)

Existants == {t \in Trigger : agent[t].existe}

\* A delivery that is sent again is not run again, however many arrive at once
\* (livraison_acceptee, verrouiller_le_declencheur).
UnDerouleParIdentifiant ==
  \A t \in Trigger : \A l, m \in Acceptees(t) :
    livraison[l].externe = livraison[m].externe /\ livraison[l].externe # NoId => l = m

\* The jobs of deliveries that wait for their first departure, frozen or not.  One that was
\* handed back has left already: it keeps its slot, and nothing smooths what it does next.
EnAttente(t) == {j \in Job : /\ travail[j].trigger = t /\ travail[j].origine = "hook"
                             /\ travail[j].etat \in {"pending", "held"}
                             /\ travail[j].prises = 0}
\* The slots that deliveries took, gone by or to come.
Reserves(t) == {l \in Acceptees(t) : livraison[l].due # NULL}
AuDebit(t) ==
  /\ \A j \in EnAttente(t) :
       Cardinality({k \in EnAttente(t) : /\ travail[k].du >= travail[j].du
                                         /\ travail[k].du < travail[j].du + FENETRE})
         <= agent[t].max_per_hour
  /\ \A l \in Reserves(t) :
       Cardinality({m \in Reserves(t) : /\ livraison[m].due >= livraison[l].due
                                        /\ livraison[m].due < livraison[l].due + FENETRE})
         <= agent[t].max_per_hour

\* "au plus `debit` departs dans toute heure glissante", however many deliveries arrive at
\* once, and after a freeze too: among the jobs that wait, and among the slots, of which some
\* have gone by (retard_de_lissage, verrouiller_le_declencheur, reprendre_la_file) -- unless a
\* delivery took its slot while a request moved them.
DebitTenu == \A t \in Existants : ~derange[t] => AuDebit(t)

\* "jamais AVANT lui", "l'ordre d'arrivee": what waits starts in the order it was accepted
\* (retard_de_lissage, reprendre_la_file), under the same condition.
OrdreDArrivee ==
  \A t \in Existants : ~derange[t] =>
    \A j, k \in EnAttente(t) : j < k => travail[j].du <= travail[k].du

\* The smoothing: rate and order.
LissageTenu == DebitTenu /\ OrdreDArrivee

\* The daily ceiling holds over every sliding day, not over a calendar one
\* (acceptees_sur_24h).
PlafondTenu ==
  \A t \in Existants : \A l \in Acceptees(t) :
    Cardinality({m \in Acceptees(t) : /\ livraison[m].recu >= livraison[l].recu
                                      /\ livraison[m].recu < livraison[l].recu + JOUR})
      <= agent[t].max_per_day

\* A file that was frozen is given back: an agent that is on and whose last toggle ran
\* alone to its end holds nothing (update_trigger: "rendue telle quelle au rallumage").
RienDeRetenuEnMarche ==
  \A t \in Trigger :
    agent[t].existe /\ agent[t].enabled /\ ~trouble[t] /\ EnBascule(t) = {}
      => Retenus(t) = {}

\* Switching an agent off loses nothing that a source sent: only emptying its file or
\* deleting it expires a job of a delivery (update_trigger, suspendre_la_file).
PauseNePerdRien ==
  [][\A j \in Job :
       travail[j].origine = "hook" /\ travail[j].etat \in {"pending", "held"}
         /\ travail'[j].etat = "fini"
         => \/ ~agent[travail[j].trigger].existe
            \/ \E u \in Usager : requete'[u].etape = "vide"
                                 /\ requete'[u].trigger = travail[j].trigger]_vars
==============================================================================
