------------------------------ MODULE Triggers ------------------------------
(***************************************************************************)
(* The agents that start by themselves (runner_triggers) and the jobs that *)
(* wait for them: what the owner does to an agent                          *)
(* (src/oto_mcp/capabilities/runner_triggers.py, db/runner_triggers.py),   *)
(* and what becomes of its jobs (db/runner_jobs.py).  TriggerClock adds    *)
(* the clock of the scheduled agents, TriggerHooks the deliveries of the   *)
(* others, TriggerSystem composes them.                                    *)
(*                                                                         *)
(* A request is one transaction after another: what it read, or wrote      *)
(* first, may be old when it goes on.  A cron is the multiples of PERIODE. *)
(***************************************************************************)
EXTENDS Integers, FiniteSets

CONSTANTS Trigger, Usager,
          Departs,        \* what each agent is at first: its kind or not there, and its rates
          PERIODE,        \* of a cron
          MaxT,           \* bounds of the model: the clock, the jobs, the jobs a
          MaxTravaux, MaxMain, MaxPrises, \* hand starts, the takes of a job,
          MaxCoupures,    \* the requests and the turns of clock cut short,
          MaxGestes,      \* the requests, and the agents
          Touches,        \* they are about
          NoTrigger, Personne

ASSUME TriggersAssumption ==
  /\ Departs \subseteq [Trigger -> [kind : {"schedule", "webhook", "aucun"},
                                     max_per_day : Nat \ {0}, max_per_hour : Nat \ {0}]]
  /\ PERIODE \in Nat \ {0} /\ MaxT \in Nat /\ MaxTravaux \in Nat
  /\ MaxMain \in Nat /\ MaxPrises \in Nat /\ MaxCoupures \in Nat
  /\ MaxGestes \in Nat /\ Touches \subseteq Trigger
  /\ NoTrigger \notin Trigger

VARIABLES
  now,
  agent,      \* the row of a trigger
  verrou,     \* who holds that row across its steps (SELECT ... FOR UPDATE)
  travail,    \* runner_jobs
  requete,    \* the requests on agents
  trouble,    \* history: the last toggles of an agent were cut, or overlapped
  manquees,   \* history: the due dates that fell while the agent was off
  coupures, gestes

Job == 1 .. MaxTravaux
Vierge == [etat |-> "absent", trigger |-> NoTrigger, origine |-> "aucune", date |-> 0,
           du |-> 0, prises |-> 0]
Repos == [etape |-> "repos", trigger |-> NoTrigger, lu |-> 0, reprise |-> 0, seul |-> FALSE]

\* next_due: the first due date strictly after x.
Apres(x) == (x \div PERIODE + 1) * PERIODE

InitTriggers ==
  /\ now = 0
  /\ \E k \in Departs :
       agent = [t \in Trigger |->
                  [kind |-> k[t].kind, max_per_day |-> k[t].max_per_day,
                   max_per_hour |-> k[t].max_per_hour,
                   existe |-> k[t].kind # "aucun", enabled |-> k[t].kind # "aucun",
                   echeance |-> IF k[t].kind = "schedule" THEN Apres(0) ELSE 0]]
  /\ verrou = [t \in Trigger |-> Personne]
  /\ travail = [j \in Job |-> Vierge]
  /\ requete = [u \in Usager |-> Repos]
  /\ trouble = [t \in Trigger |-> FALSE] /\ manquees = [t \in Trigger |-> {}]
  /\ coupures = 0 /\ gestes = 0

-----------------------------------------------------------------------------
(* The jobs of an agent. *)

Libres == {j \in Job : travail[j].etat = "absent"}
Prochain == CHOOSE j \in Libres : \A k \in Libres : j <= k

enqueue_job(t, origine, date, du) ==
  /\ Libres # {}
  /\ travail' = [travail EXCEPT ![Prochain] =
       [etat |-> "pending", trigger |-> t, origine |-> origine, date |-> date,
        du |-> du, prises |-> 0]]

\* Done, failed or expired: nobody serves it any more.
Termine(j) == [travail[j] EXCEPT !.etat = "fini", !.du = 0, !.prises = 0]
Perime(t) ==
  [j \in Job |-> IF travail[j].trigger = t /\ travail[j].etat \in {"pending", "held"}
                 THEN Termine(j) ELSE travail[j]]
perimer_travaux_du_declencheur(t) == travail' = Perime(t)

suspendre_la_file(t) ==
  travail' = [j \in Job |-> IF travail[j].trigger = t /\ travail[j].etat = "pending"
                            THEN [travail[j] EXCEPT !.etat = "held"] ELSE travail[j]]

\* What reprendre_la_file reads: the first slot of what is held, and how late it is.
Retenus(t) == {j \in Job : travail[j].trigger = t /\ travail[j].etat = "held"}
Depart(t) == CHOOSE d \in {travail[j].du : j \in Retenus(t)} :
               \A j \in Retenus(t) : d <= travail[j].du
Decalage(t) == IF now > Depart(t) THEN now - Depart(t) ELSE 0
\* Slip: only what is due is given back.
RendusEchus(t) ==
  [j \in Job |-> IF j \in Retenus(t) /\ travail[j].du <= now
                 THEN [travail[j] EXCEPT !.etat = "pending"] ELSE travail[j]]
Rendus(t) ==
  [j \in Job |-> IF j \in Retenus(t)
                 THEN [travail[j] EXCEPT !.etat = "pending", !.du = @ + Decalage(t)]
                 ELSE travail[j]]

\* The workers: a take, an end, a failure or a hand-back that leaves takes.
claim_next_job(j) ==
  /\ travail[j].etat = "pending" /\ travail[j].du <= now
  /\ travail[j].prises < MaxPrises
  /\ travail' = [travail EXCEPT ![j].etat = "claimed", ![j].prises = @ + 1]
  /\ UNCHANGED <<now, agent, verrou, requete, trouble, manquees, coupures, gestes>>
complete_job(j) ==
  /\ travail[j].etat = "claimed"
  /\ travail' = [travail EXCEPT ![j] = Termine(j)]
  /\ UNCHANGED <<now, agent, verrou, requete, trouble, manquees, coupures, gestes>>
rendre_a_la_file(j) ==
  /\ travail[j].etat = "claimed" /\ travail[j].prises < MaxPrises
  /\ travail' = [travail EXCEPT ![j].etat = "pending"]
  /\ UNCHANGED <<now, agent, verrou, requete, trouble, manquees, coupures, gestes>>

-----------------------------------------------------------------------------
(* The requests. *)

Commence(u) ==
  /\ requete[u].etape = "repos" /\ gestes < MaxGestes
  /\ gestes' = gestes + 1

\* An UPDATE or a DELETE waits for whoever holds the row.
LigneLibre(t) == verrou[t] = Personne

EnBascule(t) == {u \in Usager : /\ requete[u].trigger = t
                                /\ requete[u].etape \in {"eteint", "rallume"}}

\* A toggle is written; what it does to the file comes in another transaction.
Bascule(u, t, e) ==
  /\ requete' = [v \in Usager |->
       IF v = u THEN [Repos EXCEPT !.etape = e, !.trigger = t, !.seul = EnBascule(t) = {}]
       ELSE IF v \in EnBascule(t) THEN [requete[v] EXCEPT !.seul = FALSE]
       ELSE requete[v]]
  /\ trouble' = [trouble EXCEPT ![t] = @ \/ EnBascule(t) # {}]
FinBascule(u) ==
  LET t == requete[u].trigger IN
  /\ requete' = [requete EXCEPT ![u] = Repos]
  /\ trouble' = [trouble EXCEPT ![t] = @ /\ ~requete[u].seul]

\* op=update, enabled false: update_trigger, then the file.
eteindre(u, t) ==
  /\ Commence(u)
  /\ agent[t].existe /\ LigneLibre(t)
  /\ agent' = [agent EXCEPT ![t].enabled = FALSE]
  /\ Bascule(u, t, "eteint")
  /\ UNCHANGED <<now, verrou, travail, manquees, coupures>>
apres_eteindre(u) ==
  LET t == requete[u].trigger IN
  /\ requete[u].etape = "eteint"
  /\ \/ agent[t].kind = "webhook" /\ suspendre_la_file(t)
     \/ agent[t].kind = "schedule" /\ perimer_travaux_du_declencheur(t)
  /\ FinBascule(u)
  /\ UNCHANGED <<now, agent, verrou, manquees, coupures, gestes>>

\* op=update, enabled true: the trigger is read, then written; a due date that waited while
\* it was off is dropped (0: the date stays as it is).
\* Slip: it is kept.
EcheanceGardee(t) == 0
EcheanceReprise(t) ==
  IF agent[t].kind = "schedule" /\ ~agent[t].enabled THEN Apres(now) ELSE 0
lire_agent(u, t) ==
  /\ Commence(u) /\ agent[t].existe
  /\ requete' = [requete EXCEPT ![u] = [Repos EXCEPT !.etape = "lu", !.trigger = t, !.lu = now,
                                                     !.reprise = EcheanceReprise(t)]]
  /\ UNCHANGED <<now, agent, verrou, travail, trouble, manquees, coupures>>
rallumer(u) ==
  LET t == requete[u].trigger
      e == requete[u].reprise
  IN
  /\ requete[u].etape = "lu" /\ LigneLibre(t)
  /\ \/ /\ agent[t].existe
        /\ agent' = [agent EXCEPT ![t].enabled = TRUE, ![t].echeance = IF e = 0 THEN @ ELSE e]
        /\ \/ agent[t].kind = "webhook" /\ Bascule(u, t, "rallume")
           \/ /\ agent[t].kind = "schedule"
              /\ requete' = [requete EXCEPT ![u] = Repos] /\ UNCHANGED trouble
     \/ /\ ~agent[t].existe
        /\ requete' = [requete EXCEPT ![u] = Repos] /\ UNCHANGED <<agent, trouble>>
  /\ UNCHANGED <<now, verrou, travail, manquees, coupures, gestes>>

delete_trigger(u, t) ==
  /\ Commence(u)
  /\ agent[t].existe /\ LigneLibre(t)
  /\ agent' = [agent EXCEPT ![t].existe = FALSE, ![t].enabled = FALSE]
  /\ requete' = [requete EXCEPT ![u] = [Repos EXCEPT !.etape = "supprime", !.trigger = t]]
  /\ UNCHANGED <<now, verrou, travail, trouble, manquees, coupures>>
apres_supprimer(u) ==
  /\ requete[u].etape = "supprime"
  /\ perimer_travaux_du_declencheur(requete[u].trigger)
  /\ requete' = [requete EXCEPT ![u] = Repos]
  /\ UNCHANGED <<now, agent, verrou, trouble, manquees, coupures, gestes>>

\* op=clear_queue: the jobs, then the slots (TriggerHooks!liberer_les_creneaux).
clear_queue(u, t) ==
  /\ Commence(u) /\ agent[t].existe
  /\ perimer_travaux_du_declencheur(t)
  /\ requete' = [requete EXCEPT ![u] = [Repos EXCEPT !.etape = "vide", !.trigger = t]]
  /\ UNCHANGED <<now, agent, verrou, trouble, manquees, coupures>>

\* op=run_now: refused while a job waits; on an agent that is off too.
file_du_declencheur(u, t) ==
  /\ Commence(u) /\ agent[t].existe
  /\ ~ \E j \in Job : travail[j].trigger = t /\ travail[j].etat = "pending"
  /\ Cardinality({j \in Job : travail[j].origine = "main"}) < MaxMain
  /\ requete' = [requete EXCEPT ![u] = [Repos EXCEPT !.etape = "file_vue", !.trigger = t]]
  /\ UNCHANGED <<now, agent, verrou, travail, trouble, manquees, coupures>>
run_now(u) ==
  /\ requete[u].etape = "file_vue"
  /\ enqueue_job(requete[u].trigger, "main", 0, now)
  /\ requete' = [requete EXCEPT ![u] = Repos]
  /\ UNCHANGED <<now, agent, verrou, trouble, manquees, coupures, gestes>>

\* A request is cut between two of its steps.
couper(u) ==
  /\ requete[u].etape # "repos" /\ coupures < MaxCoupures
  /\ requete' = [requete EXCEPT ![u] = Repos]
  /\ trouble' = [trouble EXCEPT ![requete[u].trigger] =
                   @ \/ requete[u].etape \in {"eteint", "rallume"}]
  /\ coupures' = coupures + 1
  /\ UNCHANGED <<now, agent, verrou, travail, manquees, gestes>>

base == <<now, agent, verrou, travail, requete, trouble, manquees, coupures, gestes>>

Requete(u) ==
  \/ \E t \in Touches : \/ eteindre(u, t) \/ lire_agent(u, t) \/ delete_trigger(u, t)
                        \/ clear_queue(u, t) \/ file_du_declencheur(u, t)
  \/ apres_eteindre(u) \/ rallumer(u) \/ apres_supprimer(u) \/ run_now(u) \/ couper(u)
Travailleur(j) == claim_next_job(j) \/ complete_job(j) \/ rendre_a_la_file(j)

-----------------------------------------------------------------------------
\* Every row, job and request keeps its type.
TypeTriggers ==
  /\ now \in Nat /\ coupures \in Nat /\ gestes \in Nat
  /\ agent \in [Trigger -> [kind : {"schedule", "webhook", "aucun"}, existe : BOOLEAN,
                            enabled : BOOLEAN, echeance : Nat,
                            max_per_day : Nat \ {0}, max_per_hour : Nat \ {0}]]
  /\ travail \in [Job -> [etat : {"absent", "pending", "held", "claimed", "fini"},
                          trigger : Trigger \cup {NoTrigger},
                          origine : {"aucune", "horloge", "hook", "main"},
                          date : Nat, du : Nat, prises : Nat]]
  /\ requete \in [Usager -> [etape : {"repos", "eteint", "lu", "rallume", "supprime", "vide",
                                      "file_vue"},
                             trigger : Trigger \cup {NoTrigger}, lu : Nat, reprise : Nat,
                             seul : BOOLEAN]]
  /\ trouble \in [Trigger -> BOOLEAN] /\ manquees \in [Trigger -> SUBSET Nat]
  /\ \A u \in Usager : requete[u].etape # "repos" => requete[u].trigger \in Trigger
==============================================================================
