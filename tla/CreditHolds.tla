----------------------------- MODULE CreditHolds -----------------------------
(***************************************************************************)
(* The units budget at call time: src/oto_mcp/db/credits.py under          *)
(* access/credits.py (the edge of a tool call), access/credits_tours.py    *)
(* (the model calls of a hosted agent, or turns), access/credits_releve.py *)
(* (the collection of an asynchronous job) and credits_echeances.py (the   *)
(* loop of the deadlines, in production and in preproduction).             *)
(*                                                                         *)
(* Each function of db/credits.py is one transaction that ends by locking  *)
(* the balance of its payer, hence one step here; what a handler read in   *)
(* an earlier transaction it keeps in a variable of its own, and a handler *)
(* may die between two steps.  A payer is charged at amounts read from the *)
(* scale: `reserve` for the worst case, `reel` for what was consumed.      *)
(***************************************************************************)
EXTENDS Integers, FiniteSets, Functions

CONSTANTS Payeur, Appel,
          asynchrones,      \* calls that submit a job, collected later
          tours,            \* model calls, of one attempt
          payeurDe,         \* access/credits.payeur
          reserve, reel,    \* scale: worst case, real consumption
          Cle, montantDe, versA,  \* deposits: key, signed amount, payer
          Boucle,           \* loops of the deadlines
          Releveur,         \* requests that collect a job
          Rapporteur,       \* requests that report a turn
          fusions,          \* pairs of accounts that may be merged
          Enforce,          \* OTO_CREDITS_MODE = enforce, report otherwise
          SoumissionTardive,\* may a submission outlast its deadline?
          NoAppel

synchrones == Appel \ (asynchrones \cup tours)

ASSUME HoldsAssumption ==
  /\ asynchrones \subseteq Appel /\ tours \subseteq Appel
  /\ asynchrones \cap tours = {}
  /\ payeurDe \in [Appel -> Payeur] /\ versA \in [Cle -> Payeur]
  /\ reserve \in [Appel -> Nat] /\ reel \in [Appel -> Nat]
  /\ montantDe \in [Cle -> Int]
  /\ fusions \subseteq Payeur \X Payeur /\ \A p \in Payeur : <<p, p>> \notin fusions
  /\ Enforce \in BOOLEAN /\ SoumissionTardive \in BOOLEAN
  /\ NoAppel \notin Appel

VARIABLES
  balance, holds_open, \* credit_balances
  hold,                \* credit_holds
  mouvements,          \* credit_movements
  etape,               \* how far the call has gone
  travail,             \* the job of an asynchronous call, at the provider
  vue,                 \* holds past their deadline, as a loop listed them
  releve,              \* the hold a collection read
  rapport, vu,         \* the turn a report is about, the hold it read
  cloture,             \* the open turns listed at the end of the attempt
  fusionnes,           \* the merges that took place
  consomme,            \* history: the calls the provider has served
  decouvert            \* history: what a payer owes beyond what was checked

comptes == <<balance, holds_open, hold, mouvements, decouvert>>
suivis == <<vue, releve, rapport, vu, cloture>>
monde == <<travail, fusionnes, consomme>>
vars == <<comptes, etape, suivis, monde>>

Ferme == {"settled", "released", "expired"}
Etats == {"absent", "open"} \cup Ferme
Etapes == {"ouvert", "reserve", "reussi", "echoue", "net", "fini"}
Hold == [etat : Etats, payer : Payeur, reserve : Nat, echue : BOOLEAN, job : BOOLEAN]
Mouvement == [kind : {"deposit", "settle", "transfer"}, payer : Payeur,
              amount : Int, held : Int, cle : Cle \cup Appel \cup fusions]

TypeOK ==
  /\ balance \in [Payeur -> Int] /\ holds_open \in [Payeur -> Int]
  /\ hold \in [Appel -> Hold] /\ mouvements \in SUBSET Mouvement
  /\ etape \in [Appel -> Etapes]
  /\ travail \in [Appel -> {"aucun", "en_cours", "fini", "annule"}]
  /\ vue \in [Boucle -> SUBSET Appel]
  /\ releve \in [Releveur -> Appel \cup {NoAppel}]
  /\ rapport \in [Rapporteur -> tours \cup {NoAppel}]
  /\ vu \in [Rapporteur -> {"absent", "open"}]
  /\ cloture \in SUBSET tours
  /\ fusionnes \in SUBSET fusions /\ consomme \in SUBSET Appel
  /\ decouvert \in [Payeur -> Nat]

Init ==
  /\ balance = [p \in Payeur |-> 0] /\ holds_open = [p \in Payeur |-> 0]
  /\ hold = [a \in Appel |-> [etat |-> "absent", payer |-> payeurDe[a], reserve |-> 0,
                              echue |-> FALSE, job |-> FALSE]]
  /\ mouvements = {} /\ decouvert = [p \in Payeur |-> 0]
  /\ etape = [a \in Appel |-> "ouvert"] /\ travail = [a \in Appel |-> "aucun"]
  /\ vue = [b \in Boucle |-> {}] /\ releve = [v \in Releveur |-> NoAppel]
  /\ rapport = [r \in Rapporteur |-> NoAppel] /\ vu = [r \in Rapporteur |-> "absent"]
  /\ cloture = {} /\ fusionnes = {} /\ consomme = {}

-----------------------------------------------------------------------------
(* The transactions of db/credits.py. *)

Disponible(p) == balance[p] - holds_open[p]
Exces(n, m) == IF n > m THEN n - m ELSE 0

Vers(a, e) == etape' = [etape EXCEPT ![a] = e]

\* A deposit, once per payer and key: the same one again changes nothing.
VerserSansCle(k) ==
  /\ mouvements' = mouvements \cup
       {[kind |-> "deposit", payer |-> versA[k], amount |-> montantDe[k], held |-> 0, cle |-> k]}
  /\ balance' = [balance EXCEPT ![versA[k]] = @ + montantDe[k]]
  /\ decouvert' = [decouvert EXCEPT ![versA[k]] = @ + Exces(0, montantDe[k])]
  /\ UNCHANGED <<holds_open, hold, etape, suivis, monde>>

verser(k) ==
  LET m == [kind |-> "deposit", payer |-> versA[k], amount |-> montantDe[k],
            held |-> 0, cle |-> k]
  IN /\ m \notin mouvements
     /\ mouvements' = mouvements \cup {m}
     /\ balance' = [balance EXCEPT ![versA[k]] = @ + montantDe[k]]
     /\ decouvert' = [decouvert EXCEPT ![versA[k]] = @ + Exces(0, montantDe[k])]
     /\ UNCHANGED <<holds_open, hold, etape, suivis, monde>>

\* The hold of a call that has none, and the balance it engages.
Poser(a, n) ==
  LET p == payeurDe[a]
  IN /\ hold[a].etat = "absent"
     /\ hold' = [hold EXCEPT ![a] = [etat |-> "open", payer |-> p, reserve |-> n,
                                     echue |-> FALSE, job |-> FALSE]]
     /\ holds_open' = [holds_open EXCEPT ![p] = @ + n]
     /\ UNCHANGED <<balance, mouvements>>

SuffisantSansRetenues(a, n) == balance[payeurDe[a]] >= n
Suffisant(a, n) == Disponible(payeurDe[a]) >= n

\* An open hold closes at m, in `etat`; any other is left as it is.
ReglerSansEtat(a, m, etat) ==
  LET h == hold[a]
  IN /\ hold' = [hold EXCEPT ![a].etat = etat]
     /\ balance' = [balance EXCEPT ![h.payer] = @ - m]
     /\ holds_open' = [holds_open EXCEPT ![h.payer] = @ - h.reserve]
     /\ mouvements' = mouvements \cup
          {[kind |-> "settle", payer |-> h.payer, amount |-> -m, held |-> -h.reserve, cle |-> a]}
     /\ decouvert' = [decouvert EXCEPT ![h.payer] = @ + Exces(m, h.reserve)]

regler(a, m, etat) ==
  LET h == hold[a]
  IN \/ /\ h.etat = "open"
        /\ hold' = [hold EXCEPT ![a].etat = etat]
        /\ balance' = [balance EXCEPT ![h.payer] = @ - m]
        /\ holds_open' = [holds_open EXCEPT ![h.payer] = @ - h.reserve]
        /\ mouvements' = mouvements \cup
             {[kind |-> "settle", payer |-> h.payer, amount |-> -m,
               held |-> -h.reserve, cle |-> a]}
        /\ decouvert' = [decouvert EXCEPT ![h.payer] = @ + Exces(m, h.reserve)]
     \/ h.etat # "open" /\ UNCHANGED comptes

liberer(a) ==
  LET h == hold[a]
  IN \/ /\ h.etat = "open"
        /\ hold' = [hold EXCEPT ![a].etat = "released"]
        /\ holds_open' = [holds_open EXCEPT ![h.payer] = @ - h.reserve]
        /\ UNCHANGED <<balance, mouvements, decouvert>>
     \/ h.etat # "open" /\ UNCHANGED comptes

\* The job is submitted: the hold waits for its collection, with a new deadline.
attendre_la_releve(a) ==
  \/ /\ hold[a].etat = "open"
     /\ hold' = [hold EXCEPT ![a].job = TRUE, ![a].echue = FALSE]
     /\ UNCHANGED <<balance, holds_open, mouvements, decouvert>>
  \/ hold[a].etat # "open" /\ UNCHANGED comptes

\* Two accounts are merged: the balance of p and its open holds go to q.
suivre_le_solde(p, q) ==
  LET b == balance[p]
      h == holds_open[p]
  IN /\ <<p, q>> \in fusions \ fusionnes
     /\ fusionnes' = fusionnes \cup {<<p, q>>}
     /\ IF b = 0 /\ h = 0 THEN UNCHANGED comptes
        ELSE /\ balance' = [balance EXCEPT ![p] = 0, ![q] = @ + b]
             /\ holds_open' = [holds_open EXCEPT ![p] = 0, ![q] = @ + h]
             /\ hold' = [a \in Appel |->
                           IF hold[a].etat = "open" /\ hold[a].payer = p
                           THEN [hold[a] EXCEPT !.payer = q] ELSE hold[a]]
             /\ mouvements' = mouvements \cup
                  {[kind |-> "transfer", payer |-> p, amount |-> -b, held |-> -h,
                    cle |-> <<p, q>>],
                   [kind |-> "transfer", payer |-> q, amount |-> b, held |-> h,
                    cle |-> <<p, q>>]}
             /\ decouvert' = [decouvert EXCEPT ![p] = 0, ![q] = @ + decouvert[p]]
     /\ UNCHANGED <<etape, suivis, travail, consomme>>

-----------------------------------------------------------------------------
(* The edge of a call: reserve, send, settle. *)

Reste == UNCHANGED <<suivis, monde>>

\* The worst case is reserved before anything is sent, or the call is refused.
reserver(a) ==
  /\ a \notin tours /\ etape[a] = "ouvert"
  /\ \/ /\ Enforce => Suffisant(a, reserve[a])
        /\ Poser(a, reserve[a]) /\ UNCHANGED decouvert
        /\ Vers(a, "reserve")
     \/ /\ Enforce /\ ~Suffisant(a, reserve[a])
        /\ Vers(a, "fini") /\ UNCHANGED comptes
  /\ Reste

\* The worker asks for a turn; it asks again when no answer came back.
reserver_tour(a) ==
  /\ a \in tours /\ etape[a] = "ouvert"
  /\ \/ /\ Enforce => Suffisant(a, reserve[a])
        /\ Poser(a, reserve[a]) /\ UNCHANGED decouvert
        /\ etape' \in {etape, [etape EXCEPT ![a] = "reserve"]}
     \/ hold[a].etat # "absent" /\ Vers(a, "reserve") /\ UNCHANGED comptes
     \/ /\ Enforce /\ hold[a].etat = "absent" /\ ~Suffisant(a, reserve[a])
        /\ Vers(a, "fini") /\ UNCHANGED comptes
  /\ Reste

\* The request leaves and the provider answers: it served it, refused it (a 4xx, or it
\* was never sent), or nobody knows.  A worker may have skipped the reservation.
envoi(a) ==
  /\ etape[a] = "reserve" \/ (a \in tours /\ etape[a] = "ouvert" /\ hold[a].etat = "absent")
  /\ \/ /\ Vers(a, "reussi")
        /\ IF a \in asynchrones
           THEN travail' = [travail EXCEPT ![a] = "en_cours"] /\ UNCHANGED consomme
           ELSE consomme' = consomme \cup {a} /\ UNCHANGED travail
     \/ Vers(a, "net") /\ UNCHANGED <<consomme, travail>>
     \/ Vers(a, "echoue") /\ consomme' \in {consomme, consomme \cup {a}} /\ UNCHANGED travail
  /\ UNCHANGED <<comptes, suivis, fusionnes>>

\* A success settles what was consumed, the worst case if the tool does not say it,
\* or waits for the collection of the job.
solder_reussite(a) ==
  /\ a \notin tours /\ etape[a] = "reussi"
  /\ IF a \in asynchrones THEN attendre_la_releve(a)
     ELSE \E m \in {reel[a], reserve[a]} : regler(a, m, "settled")
  /\ Vers(a, "fini") /\ Reste

EchecToujoursNet(a) ==
  /\ a \notin tours /\ etape[a] \in {"net", "echoue"}
  /\ liberer(a)
  /\ Vers(a, "fini") /\ Reste

\* A failure releases when it consumed nothing, and settles the worst case otherwise.
solder_echec(a) ==
  /\ a \notin tours /\ etape[a] \in {"net", "echoue"}
  /\ IF etape[a] = "net" THEN liberer(a) ELSE regler(a, reserve[a], "settled")
  /\ Vers(a, "fini") /\ Reste

\* A model call the provider refused: the copilot releases its hold, the worker of a
\* job leaves it to the end of the attempt.
FinDuTour(a) ==
  /\ a \in tours
  /\ \/ etape[a] = "net" /\ liberer(a)
     \/ etape[a] \in {"net", "echoue"} /\ UNCHANGED comptes
  /\ Vers(a, "fini") /\ Reste

\* A process dies, or the ledger cannot be written: what it had to settle stays open.
Tomber(a) ==
  /\ etape[a] # "fini" /\ Vers(a, "fini")
  /\ consomme' \in {consomme} \cup (IF etape[a] = "reserve" THEN {consomme \cup {a}} ELSE {})
  /\ UNCHANGED <<comptes, suivis, travail, fusionnes>>

-----------------------------------------------------------------------------
(* Who else closes a hold. *)

\* The holds past their deadline, as a loop reads them.
EchuesSansTravail == {a \in Appel : hold[a].etat = "open" /\ hold[a].echue /\ ~hold[a].job}
reservations_echues == {a \in Appel : hold[a].etat = "open" /\ hold[a].echue}

\* A loop lists, then settles each at the amount reserved.
EchoirListe(b) ==
  /\ vue[b] = {} /\ reservations_echues # {}
  /\ vue' = [vue EXCEPT ![b] = reservations_echues]
  /\ UNCHANGED <<comptes, etape, releve, rapport, vu, cloture, monde>>
EchoirRegle(b, a) ==
  /\ a \in vue[b]
  /\ regler(a, hold[a].reserve, "expired")
  /\ vue' = [vue EXCEPT ![b] = @ \ {a}]
  /\ UNCHANGED <<etape, releve, rapport, vu, cloture, monde>>
EchoirTombe(b) ==
  /\ vue[b] # {} /\ vue' = [vue EXCEPT ![b] = {}]
  /\ UNCHANGED <<comptes, etape, releve, rapport, vu, cloture, monde>>

\* The deadline of an open hold passes.
Passe(a) ==
  /\ hold[a].etat = "open" /\ ~hold[a].echue
  /\ \/ SoumissionTardive \/ a \notin asynchrones
     \/ etape[a] \notin {"reserve", "reussi"}
  /\ hold' = [hold EXCEPT ![a].echue = TRUE]
  /\ UNCHANGED <<balance, holds_open, mouvements, decouvert, etape, suivis, monde>>

\* The job ends at the provider, with a result or without.
TravailFinit(a) ==
  /\ travail[a] = "en_cours"
  /\ \/ travail' = [travail EXCEPT ![a] = "fini"] /\ consomme' = consomme \cup {a}
     \/ travail' = [travail EXCEPT ![a] = "annule"] /\ UNCHANGED consomme
  /\ UNCHANGED <<comptes, etape, suivis, fusionnes>>

\* A collection that finds the job ended looks for the hold that waits for it,
\* then settles it at what was found, or releases it.
reservation_de_la_releve(v, a) ==
  /\ releve[v] = NoAppel /\ travail[a] \in {"fini", "annule"}
  /\ hold[a].etat = "open" /\ hold[a].job
  /\ releve' = [releve EXCEPT ![v] = a]
  /\ UNCHANGED <<comptes, etape, vue, rapport, vu, cloture, monde>>
Relever(v) ==
  LET a == releve[v]
  IN /\ a # NoAppel
     /\ \/ travail[a] = "fini" /\ \E m \in {reel[a], hold[a].reserve} : regler(a, m, "settled")
        \/ travail[a] = "annule" /\ liberer(a)
        \/ UNCHANGED comptes   \* the ledger could not be written
     /\ releve' = [releve EXCEPT ![v] = NoAppel]
     /\ UNCHANGED <<etape, vue, rapport, vu, cloture, monde>>

\* The report of a turn: reads its hold, reserves what was never reserved, settles.
RapportLit(r, a) ==
  /\ rapport[r] = NoAppel /\ a \in tours /\ etape[a] = "reussi"
  /\ hold[a].etat \in {"absent", "open"}
  /\ rapport' = [rapport EXCEPT ![r] = a] /\ vu' = [vu EXCEPT ![r] = hold[a].etat]
  /\ UNCHANGED <<comptes, etape, vue, releve, cloture, monde>>
RapportReserve(r) ==
  LET a == rapport[r]
  IN /\ a # NoAppel /\ vu[r] = "absent"
     /\ \/ /\ Poser(a, reel[a])
           /\ decouvert' = [decouvert EXCEPT ![payeurDe[a]] = @ + reel[a]]
        \/ hold[a].etat # "absent" /\ UNCHANGED comptes
     /\ vu' = [vu EXCEPT ![r] = "open"]
     /\ UNCHANGED <<etape, vue, releve, rapport, cloture, monde>>
regler_tour(r) ==
  LET a == rapport[r]
  IN /\ a # NoAppel /\ vu[r] = "open"
     /\ regler(a, reel[a], "settled")
     /\ rapport' = [rapport EXCEPT ![r] = NoAppel] /\ vu' = [vu EXCEPT ![r] = "absent"]
     /\ etape' \in {etape, [etape EXCEPT ![a] = "fini"]}
     /\ UNCHANGED <<vue, releve, cloture, monde>>
\* The worker stops waiting for the answer of its reports.
RapportPerdu(a) ==
  /\ a \in tours /\ etape[a] = "reussi" /\ Vers(a, "fini")
  /\ UNCHANGED <<comptes, suivis, monde>>

\* The attempt is concluded: its turns still open are listed, then settled at the
\* amount reserved.
TentativeConclue == \A a \in tours : etape[a] \in {"ouvert", "fini"}
reservations_ouvertes == {a \in tours : hold[a].etat = "open"}
CloreLit ==
  /\ TentativeConclue /\ cloture = {} /\ reservations_ouvertes # {}
  /\ cloture' = reservations_ouvertes
  /\ UNCHANGED <<comptes, etape, vue, releve, rapport, vu, monde>>
clore_les_tours(a) ==
  /\ a \in cloture /\ regler(a, hold[a].reserve, "settled")
  /\ cloture' = cloture \ {a}
  /\ UNCHANGED <<etape, vue, releve, rapport, vu, monde>>

-----------------------------------------------------------------------------
Bord(a) == \/ reserver(a) \/ reserver_tour(a) \/ envoi(a) \/ solder_reussite(a) \/ solder_echec(a)
           \/ FinDuTour(a) \/ RapportPerdu(a)

Next == \/ \E k \in Cle : verser(k)
        \/ \E a \in Appel : Bord(a) \/ Tomber(a) \/ Passe(a) \/ TravailFinit(a)
        \/ \E b \in Boucle : EchoirListe(b) \/ EchoirTombe(b)
        \/ \E b \in Boucle, a \in Appel : EchoirRegle(b, a)
        \/ \E v \in Releveur, a \in Appel : reservation_de_la_releve(v, a)
        \/ \E v \in Releveur : Relever(v)
        \/ \E r \in Rapporteur, a \in Appel : RapportLit(r, a)
        \/ \E r \in Rapporteur : RapportReserve(r) \/ regler_tour(r)
        \/ CloreLit \/ (\E a \in Appel : clore_les_tours(a))
        \/ \E p, q \in Payeur : suivre_le_solde(p, q)

Spec == Init /\ [][Next]_vars

\* Calls end or their processes die; time passes; a loop ticks every 60 s, and does not
\* die for ever between its listing and its first settlement.  None of these can go on
\* for ever, so it is enough that each kind of step is taken.
FairSpec ==
  /\ Spec
  /\ WF_vars(\E a \in Appel : Bord(a))
  /\ WF_vars(\E a \in Appel : Passe(a))
  /\ WF_vars(\E b \in Boucle : EchoirListe(b))
  /\ SF_vars(\E b \in Boucle, a \in Appel : EchoirRegle(b, a))

-----------------------------------------------------------------------------
(* Properties. *)

\* Whatever is retried, expires, or merges, each closing and each deposit counts once:
\* the balance is what the movements add up to, and what is engaged is the sum of the
\* open holds of the payer (credit_balances, a counter kept beside two tables).
Ouvertes(p) == {a \in Appel : hold[a].etat = "open" /\ hold[a].payer = p}
Ecritures(p) == {m \in mouvements : m.payer = p}
Coherence ==
  \A p \in Payeur :
    /\ balance[p] = SumFunctionOnSet([m \in mouvements |-> m.amount], Ecritures(p))
    /\ holds_open[p] = SumFunctionOnSet([a \in Appel |-> hold[a].reserve], Ouvertes(p))

\* Where the budget refuses, nobody is engaged beyond what he has, but for what is
\* owed already: a consumption above its worst case, a turn consumed without a
\* reservation, a withdrawal by the commerce (header of access/credits.py: "the balance
\* may go negative there, never at reservation").
SoldeTenu == Enforce => \A p \in Payeur : Disponible(p) + decouvert[p] >= 0

\* What is released was not served by the provider, whoever releases it and whoever
\* else is settling it (refus_net, liberer_releve).
RienDeServiGratuit ==
  [][\A a \in Appel : hold'[a].etat = "released" => a \notin consomme']_vars

\* A hold expires by its deadline, and not after it was given a later one
\* (echoir; attendre_la_releve), as long as a submission is shorter than its own.
EcheanceJuste ==
  [][\A a \in Appel : hold[a].etat = "open" /\ hold'[a].etat = "expired"
                        => hold[a].echue]_vars

\* A hold is closed for the reason its row gives, whoever races to close it.
ClotureJuste == RienDeServiGratuit /\ EcheanceJuste

\* Every hold ends closed, so that what a payer has available is not held for ever
\* (header of credits_echeances.py), and one whose call was served ends charged.
ReservationSeFerme ==
  \A a \in Appel : hold[a].etat = "open" ~> hold[a].etat \in Ferme

\* The units budget as it is promised (UnitBudget).
Montants == {reserve[a] : a \in Appel} \cup {reel[a] : a \in Appel} \cup {0}
Budget == INSTANCE UnitBudget WITH
  disponible <- [p \in Payeur |-> Disponible(p)],
  engage <- [a \in Appel |->
               [etat |-> CASE hold[a].etat = "absent" -> "absent"
                           [] hold[a].etat = "open" -> "engage"
                           [] OTHER -> "clos",
                payer |-> hold[a].payer, montant |-> hold[a].reserve]],
  Montant <- Montants, Depot <- {montantDe[k] : k \in Cle}, Refuse <- Enforce
TientLeBudget == Budget!Spec
=============================================================================
