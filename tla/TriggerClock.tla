---------------------------- MODULE TriggerClock ----------------------------
(***************************************************************************)
(* The clocks of the scheduled agents: src/oto_mcp/runner_tick.py _tick,   *)
(* in every environment that shares the database.  A turn reads the agents *)
(* that are due, then takes them one by one: win the due date, expire what *)
(* waited, enqueue, each in a transaction of its own.                      *)
(***************************************************************************)
EXTENDS Triggers

CONSTANTS Horloge,
          limite,         \* of agents per turn (due_triggers)
          Casses,         \* agents whose cron cannot be evaluated any more
          TickPonctuel,   \* a turn, or a request, ends before the next due date
          MaxRates        \* bound of the model: failed expirations

ASSUME ClockAssumption ==
  Casses \subseteq Trigger /\ limite \in Nat \ {0} /\ TickPonctuel \in BOOLEAN
                           /\ MaxRates \in Nat

VARIABLES tour,    \* where the turn of each clock is
          rates    \* history: the expirations of an agent that failed

NoLigne == [trigger |-> NoTrigger, echeance |-> 0]
Attente == [etape |-> "repos", ligne |-> NoLigne, reste |-> {}, lu |-> 0]

InitClock == tour = [h \in Horloge |-> Attente] /\ rates = [t \in Trigger |-> 0]

Due(t) == /\ agent[t].existe /\ agent[t].enabled /\ agent[t].kind = "schedule"
          /\ agent[t].echeance <= now

\* The first due dates, `limite` of them; each agent as it is now.
due_triggers(h) ==
  /\ tour[h].etape = "repos"
  /\ \E S \in SUBSET {t \in Trigger : Due(t)} :
       /\ S # {} /\ Cardinality(S) <= limite
       /\ \A s \in S, t \in Trigger \ S : Due(t) =>
            Cardinality(S) = limite /\ agent[s].echeance <= agent[t].echeance
       /\ tour' = [tour EXCEPT ![h] = [Attente EXCEPT !.etape = "boucle", !.lu = now,
            !.reste = {[trigger |-> s, echeance |-> agent[s].echeance] : s \in S}]]
  /\ UNCHANGED <<base, rates>>

\* The line the loop is at, in the order of the due dates.
Courante(h, x) == x \in tour[h].reste /\ \A y \in tour[h].reste : x.echeance <= y.echeance
Suite(h, r) ==
  tour' = [tour EXCEPT ![h] = IF r = {} THEN Attente
                              ELSE [etape |-> "boucle", ligne |-> NoLigne, reste |-> r,
                                    lu |-> tour[h].lu]]

\* Slip: the exception ends the turn.
CronRompt(h, x) ==
  /\ x.trigger \in Casses
  /\ Suite(h, {}) /\ UNCHANGED <<base, rates>>
cron_inevaluable(h, x) ==
  /\ x.trigger \in Casses
  /\ Suite(h, tour[h].reste \ {x}) /\ UNCHANGED <<base, rates>>

\* Slip: an other clock may have taken it already.
GagneToujours(t) == agent[t].existe
Gagne(t) == agent[t].existe /\ agent[t].enabled /\ agent[t].echeance <= now
consume_due(h, x) ==
  /\ x.trigger \notin Casses
  /\ \/ /\ Gagne(x.trigger)
        /\ agent' = [agent EXCEPT ![x.trigger].echeance = Apres(now)]
        /\ tour' = [tour EXCEPT ![h].etape = "consommee", ![h].ligne = x,
                                ![h].reste = @ \ {x}]
     \/ ~Gagne(x.trigger) /\ Suite(h, tour[h].reste \ {x}) /\ UNCHANGED agent
  /\ UNCHANGED <<now, verrou, travail, requete, trouble, manquees, coupures, gestes, rates>>

\* Suspended, archived, without a model, or waiting for another agent: the due date is
\* consumed and nothing is enqueued.
_occurrence_sautee(h) ==
  /\ tour[h].etape = "consommee"
  /\ Suite(h, tour[h].reste) /\ UNCHANGED <<base, rates>>

\* Slip: what waits stays.
SansPerimer(h) ==
  /\ tour[h].etape = "consommee"
  /\ tour' = [tour EXCEPT ![h].etape = "perimee"]
  /\ UNCHANGED <<base, rates>>
Perimer(h) ==
  /\ tour[h].etape = "consommee"
  /\ tour' = [tour EXCEPT ![h].etape = "perimee"]
  /\ \/ perimer_travaux_du_declencheur(tour[h].ligne.trigger) /\ UNCHANGED rates
     \/ /\ rates[tour[h].ligne.trigger] < MaxRates
        /\ rates' = [rates EXCEPT ![tour[h].ligne.trigger] = @ + 1]
        /\ UNCHANGED travail
  /\ UNCHANGED <<now, agent, verrou, requete, trouble, manquees, coupures, gestes>>
Enfiler(h) ==
  /\ tour[h].etape = "perimee"
  /\ enqueue_job(tour[h].ligne.trigger, "horloge", tour[h].ligne.echeance, now)
  /\ Suite(h, tour[h].reste)
  /\ UNCHANGED <<now, agent, verrou, requete, trouble, manquees, coupures, gestes, rates>>

\* An exception, or the death of the process.
tomber(h) ==
  /\ tour[h].etape # "repos" /\ coupures < MaxCoupures
  /\ tour' = [tour EXCEPT ![h] = Attente] /\ coupures' = coupures + 1
  /\ UNCHANGED <<now, agent, verrou, travail, requete, trouble, manquees, gestes, rates>>

Boucle(h) ==
  /\ tour[h].etape = "boucle"
  /\ \E x \in tour[h].reste : Courante(h, x) /\ (cron_inevaluable(h, x) \/ consume_due(h, x))
_tick(h) == due_triggers(h) \/ Boucle(h) \/ Perimer(h) \/ Enfiler(h)

\* What the clocks and the requests in progress know is older than the last due date.
EnRetard(x) ==
  \/ \E h \in Horloge : tour[h].etape # "repos" /\ Apres(tour[h].lu) <= x
  \/ \E u \in Usager : requete[u].etape = "lu" /\ Apres(requete[u].lu) <= x
Tic ==
  /\ now < MaxT /\ now' = now + 1
  /\ TickPonctuel => ~EnRetard(now')
  /\ manquees' = [t \in Trigger |->
       IF agent[t].kind = "schedule" /\ ~agent[t].enabled /\ now' % PERIODE = 0
       THEN manquees[t] \cup {now'} ELSE manquees[t]]
  /\ UNCHANGED <<agent, verrou, travail, requete, trouble, coupures, gestes, tour, rates>>

TypeClock ==
  /\ tour \in [Horloge -> [etape : {"repos", "boucle", "consommee", "perimee"},
                           ligne : [trigger : Trigger \cup {NoTrigger}, echeance : Nat],
                           reste : SUBSET [trigger : Trigger, echeance : Nat], lu : Nat]]
  /\ rates \in [Trigger -> Nat]
  /\ \A h \in Horloge : tour[h].etape \in {"consommee", "perimee"} =>
                          tour[h].ligne.trigger \in Trigger
==============================================================================
