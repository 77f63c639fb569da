------------------------------ MODULE RowQueue ------------------------------
(***************************************************************************)
(* The work queue of one table of the datastore: rows that agents reserve  *)
(* under a lease, write, and give back (db/rowlock.py, db/rowabandon.py,   *)
(* db/rowavance.py, datastore/file_de_travail.py).  A row given back       *)
(* unwritten counts toward the ceiling of takes, and leaves the queue at   *)
(* it; a row given back written moves on to the next pass.                 *)
(*                                                                         *)
(* An Appelant is a session that makes one call at a time; it carries the  *)
(* run of its work (runDe, or Aucun) and signs its leases with a label it  *)
(* chooses (libelleDe): neither is its own.  A call of several             *)
(* transactions takes several steps, and Couper ends it between two; a     *)
(* transaction that thinks under its lock (the write, which computes the   *)
(* row it replaces; the abandonment, which reads the journals for its      *)
(* cause) is two steps, and verrou holds its rows in between.              *)
(*                                                                         *)
(* Abstractions.  A date of lease is what the code compares it for: "libre" *)
(* (none), "actif" or "echu"; durations are the callers', so a lease lapses *)
(* at any moment.  claimed_at is the rang of the row, the least recently   *)
(* taken first.  The data of a row is the state of its pass; the journal   *)
(* of revisions is the one question asked of it, whether the state changed *)
(* since the take (revision).  A call refused for its expected_revision    *)
(* changes nothing and is not a step.                                      *)
(***************************************************************************)
EXTENDS Naturals, FiniteSets, Functions

CONSTANTS
    Lignes,          \* the rows of the table
    Appelants,       \* the sessions
    Runs, Libelles,  \* runs of guided work; labels that sign the leases
    runDe, libelleDe,
    Draineurs,       \* the sessions that drain the queue
    Etats,           \* the states of a row
    Suite,           \* lifecycle.advance: the passes that have a next one
    Filtre,          \* the states a reservation asks for
    EtatAbandon,     \* lifecycle.abandon_state, or Aucun: the platform's ceiling
    PLAFOND,         \* the ceiling in force, declared or of the platform
    Assouplis,       \* the values of max_claims that calls pass
    MaxClaims,       \* where the counter of takes stops counting, above every ceiling
    JournalCoupe,    \* OTO_JOURNAL_REVISIONS=off
    Coupables,       \* the sessions whose calls may be cut between two transactions
    MaxIntrus,       \* bound on the writes of rows under no live lease
    Aucun, Personne, Supprimee

ASSUME RunsAssumption ==
    /\ IsFiniteSet(Lignes)
    /\ runDe \in [Appelants -> Runs \union {Aucun}]
    /\ libelleDe \in [Appelants -> Libelles]
    /\ Draineurs \subseteq Appelants /\ Coupables \subseteq Appelants
    /\ Aucun \notin Runs /\ Personne \notin Libelles \union Appelants
ASSUME PassesAssumption ==
    /\ DOMAIN Suite \subseteq Etats
    /\ \A e \in DOMAIN Suite : Suite[e] \in Etats \ {e}
    /\ Filtre \subseteq Etats
    /\ EtatAbandon \in (Etats \ Filtre) \union {Aucun}
    /\ Supprimee \notin Etats /\ Aucun \notin Etats \union {Supprimee}
ASSUME PlafondAssumption ==
    /\ PLAFOND \in Nat \ {0} /\ MaxClaims \in Nat /\ MaxIntrus \in Nat
    /\ JournalCoupe \in BOOLEAN
    /\ Assouplis \subseteq 1..(MaxClaims - 1) /\ PLAFOND < MaxClaims

VARIABLES
    rangee,     \* the row: its lease, its count of takes, its state
    rang,       \* the order of service: by claimed_at, never taken first, then by row_id
    verrou,     \* who holds the lock of the row, across two steps
    appel,      \* the call in progress of each session
    depuis,     \* history: who wrote the row while it is leased
    preneur,    \* history: the run under which it was last taken
    passee,     \* history: the pass done on the row when it was last given back
    intrus      \* history: how many writes began on rows under no live lease

vars == <<rangee, rang, verrou, appel, depuis, preneur, passee, intrus>>
historique == <<depuis, preneur, passee, intrus>>

Row == [claimed_by : Libelles \union {Personne}, bail : {"libre", "actif", "echu"},
        claimed_run : Runs \union {Aucun}, claims : 0..MaxClaims,
        abandon_reason : BOOLEAN, etat : Etats \union {Supprimee}, revision : BOOLEAN]

Etapes == {"repos", "passe", "juge", "abandon", "pioche", "ecrit"}
Appel == [etape : Etapes, lignes : SUBSET Lignes, reserve : BOOLEAN, usees : SUBSET Lignes]
Repos == [etape |-> "repos", lignes |-> {}, reserve |-> FALSE, usees |-> {}]

Pioche(u) == [Repos EXCEPT !.etape = "pioche", !.usees = u]

Existe(r) == rangee[r].etat # Supprimee
\* The lease is NULL or its date is over.
Libre(r) == rangee[r].bail # "actif"
Deverrouillees(R) == \A r \in R : verrou[r] = Personne

-----------------------------------------------------------------------------
(* The ceiling: plafond_de and abandonner_les_lignes_a_bout                *)

\* Slip: the parameter of a call is the ceiling.
PlafondDemande(v) == v
\* max_claims only loosens the ceiling of a pass.
plafond_de(v) == IF v > PLAFOND THEN v ELSE PLAFOND

\* Slip: a row that is held.
ABoutTenue(r, v) ==
    Existe(r) /\ ~rangee[r].abandon_reason /\ rangee[r].claims >= v
\* The row is at the end of its takes: free, in the queue, at the ceiling.
ABout(r, v) ==
    /\ Existe(r) /\ Libre(r)
    /\ ~rangee[r].abandon_reason
    /\ rangee[r].claims >= v

\* Slip: the rows are read without their lock.
SansVerrou(p, R) == verrou
\* SELECT ... FOR UPDATE.
Verrouiller(p, R) == [r \in Lignes |-> IF r \in R THEN p ELSE verrou[r]]
Deverrouiller(p) == [r \in Lignes |-> IF verrou[r] = p THEN Personne ELSE verrou[r]]

\* Its UPDATE: the row leaves the queue, and takes the declared state.
Abandonnee(w) ==
    [w EXCEPT !.abandon_reason = TRUE, !.claimed_by = Personne, !.bail = "libre",
              !.claimed_run = Aucun,
              !.etat = IF EtatAbandon = Aucun THEN @ ELSE EtatAbandon, !.revision = FALSE]

abandonner_les_lignes_a_bout(p) ==
    /\ appel[p].etape = "abandon"
    /\ LET R == {r \in appel[p].lignes : Existe(r)}
       IN  /\ rangee' = [r \in Lignes |-> IF r \in R THEN Abandonnee(rangee[r])
                                                     ELSE rangee[r]]
           /\ passee' = [r \in Lignes |-> IF r \in R /\ EtatAbandon # Aucun
                                          THEN Aucun ELSE passee[r]]
           /\ depuis' = [r \in Lignes |-> IF r \in R THEN {} ELSE depuis[r]]
           /\ preneur' = [r \in Lignes |-> IF r \in R THEN Aucun ELSE preneur[r]]
    /\ verrou' = Deverrouiller(p)
    /\ appel' = [appel EXCEPT ![p] = IF @.reserve
                                     THEN Pioche(@.usees)
                                     ELSE Repos]
    /\ UNCHANGED <<rang, intrus>>

\* The judgement that follows a release, over the rows released (_juger_le_plafond).
_juger_le_plafond(p) ==
    /\ appel[p].etape = "juge"
    /\ LET R == {r \in appel[p].lignes : ABout(r, PLAFOND)}
       IN  /\ Deverrouillees(R)
           /\ verrou' = Verrouiller(p, R)
           /\ appel' = [appel EXCEPT ![p] = IF R = {} THEN Repos
                                            ELSE [@ EXCEPT !.etape = "abandon", !.lignes = R]]
    /\ UNCHANGED <<rangee, rang, historique>>

-----------------------------------------------------------------------------
(* Reservations                                                            *)

Reserver(p) ==
    /\ appel[p].etape = "repos"
    /\ appel' = [appel EXCEPT ![p].etape = "passe"]
    /\ UNCHANGED <<rangee, rang, verrou, historique>>

\* claim_next, first transaction: the abandonment over the whole table, before the pick.
Passe(p, v) ==
    /\ appel[p].etape = "passe"
    /\ LET R == {r \in Lignes : ABout(r, plafond_de(v))}
       IN  /\ Deverrouillees(R)
           /\ verrou' = Verrouiller(p, R)
           /\ appel' = [appel EXCEPT ![p] =
                LET usees == {r \in Lignes : /\ Existe(r) /\ Libre(r)
                                             /\ rangee[r].claims >= PLAFOND
                                             /\ rangee[r].claims >= v}
                IN  IF R = {} THEN Pioche(usees)
                    ELSE [etape |-> "abandon", lignes |-> R, reserve |-> TRUE,
                          usees |-> usees]]
    /\ UNCHANGED <<rangee, rang, historique>>

\* What the table has the right to serve, whatever the caller asks for.
_LIBRE_ET_EN_FILE(r) == Existe(r) /\ Libre(r) /\ ~rangee[r].abandon_reason
\* Rows a call could serve now, if nobody held their locks.
Servables == {r \in Lignes : _LIBRE_ET_EN_FILE(r) /\ rangee[r].etat \in Filtre}

\* Slip: the order of service is the order of creation.
ParCreation(r) == rang
Dernier(r) == [s \in Lignes |-> IF s = r THEN Cardinality(Lignes)
                                ELSE IF rang[s] > rang[r] THEN rang[s] - 1 ELSE rang[s]]

\* A take: a new holder, one take more, the last in the order of service.
Tenir(p, r) ==
    /\ rangee' = [rangee EXCEPT ![r].claimed_by = libelleDe[p], ![r].bail = "actif",
                                ![r].claimed_run = runDe[p],
                                ![r].claims = IF @ < MaxClaims THEN @ + 1 ELSE @,
                                ![r].revision = FALSE]
    /\ rang' = Dernier(r)
    /\ depuis' = [depuis EXCEPT ![r] = {}]
    /\ preneur' = [preneur EXCEPT ![r] = runDe[p]]

\* The pick skips the locked rows (SKIP LOCKED) and takes the least recently served.
EnTete(r) ==
    /\ r \in Servables /\ verrou[r] = Personne
    /\ \A s \in Servables : verrou[s] = Personne
                            => rang[r] <= rang[s]

_datastore_claim_next_once(p, r) ==
    /\ appel[p].etape = "pioche"
    /\ EnTete(r)
    /\ Tenir(p, r)
    /\ appel' = [appel EXCEPT ![p] = Repos]
    /\ UNCHANGED <<verrou, passee, intrus>>

\* No row to serve.
RienAServir(p) ==
    /\ appel[p].etape = "pioche"
    /\ \A r \in Servables : verrou[r] # Personne
    /\ appel' = [appel EXCEPT ![p] = Repos]
    /\ UNCHANGED <<rangee, rang, verrou, historique>>

\* Slip: extending a lease is a take for the count.
ProlongerEtCompter(p, r) ==
    /\ rangee' = [rangee EXCEPT ![r].claims = IF @ < MaxClaims THEN @ + 1 ELSE @]
    /\ UNCHANGED <<rang, depuis, preneur>>
\* claim_row of a named row: a take if the lease is over, else its holder extends it,
\* and neither the run, the count nor the rank change.
Prolonger(p, r) == UNCHANGED <<rangee, rang, depuis, preneur>>

datastore_claim_row(p, r) ==
    /\ appel[p].etape = "repos" /\ verrou[r] = Personne
    /\ Existe(r) /\ rangee[r].etat \in Filtre
    /\ \/ Libre(r) /\ Tenir(p, r)
       \/ ~Libre(r) /\ rangee[r].claimed_by = libelleDe[p] /\ Prolonger(p, r)
    /\ UNCHANGED <<verrou, appel, passee, intrus>>

-----------------------------------------------------------------------------
(* Writes: the lease is read under the lock of the row                     *)

\* The run that holds the row is the only proof of it: a label is not.
Titulaire(p, r) == runDe[p] # Aucun /\ rangee[r].claimed_run = runDe[p]

_lease_guard(p, r) ==
    \/ Libre(r)
    \/ Titulaire(p, r)

\* datastore_merge_row_locked: SELECT ... FOR UPDATE and the guard, then the row is
\* computed, refused or written.
Lire(p, r) ==
    /\ appel[p].etape = "repos" /\ verrou[r] = Personne
    /\ Existe(r) /\ _lease_guard(p, r)
    /\ Libre(r) => intrus < MaxIntrus
    /\ intrus' = IF Libre(r) THEN intrus + 1 ELSE intrus
    /\ verrou' = Verrouiller(p, {r})
    /\ appel' = [appel EXCEPT ![p] = [Repos EXCEPT !.etape = "ecrit", !.lignes = {r}]]
    /\ UNCHANGED <<rangee, rang, depuis, preneur, passee>>

Oubliee(r) == [p \in Appelants |-> [appel[p] EXCEPT !.usees = @ \ {r}]]

Ecrivain(p, r) == IF rangee[r].claimed_by = Personne THEN {}
                  ELSE IF Titulaire(p, r) THEN {"titulaire"} ELSE {"autre"}

datastore_merge_row_locked(p, r, e) ==
    /\ appel[p].etape = "ecrit" /\ appel[p].lignes = {r}
    /\ Existe(r)
    /\ rangee' = [rangee EXCEPT ![r].etat = e, ![r].claims = 0, ![r].abandon_reason = FALSE,
                                ![r].revision = /\ rangee[r].claimed_by # Personne
                                                /\ @ \/ e # rangee[r].etat]
    /\ verrou' = Deverrouiller(p)
    /\ appel' = [Oubliee(r) EXCEPT ![p] = Repos]
    /\ depuis' = [depuis EXCEPT ![r] = @ \union Ecrivain(p, r)]
    /\ passee' = [passee EXCEPT ![r] = IF e # rangee[r].etat THEN Aucun ELSE @]
    /\ UNCHANGED <<rang, preneur, intrus>>

\* apply_fn raises: a value, a transition that the schema refuses.
Refuser(p) ==
    /\ appel[p].etape = "ecrit"
    /\ verrou' = Deverrouiller(p)
    /\ appel' = [appel EXCEPT ![p] = Repos]
    /\ UNCHANGED <<rangee, rang, historique>>

datastore_delete_row(p, r) ==
    /\ appel[p].etape = "repos" /\ verrou[r] = Personne
    /\ Existe(r) /\ _lease_guard(p, r)
    /\ rangee' = [rangee EXCEPT ![r] =
            [claimed_by |-> Personne, bail |-> "libre", claimed_run |-> Aucun, claims |-> 0,
             abandon_reason |-> FALSE, etat |-> Supprimee, revision |-> FALSE]]
    /\ depuis' = [depuis EXCEPT ![r] = {}]
    /\ preneur' = [preneur EXCEPT ![r] = Aucun]
    /\ passee' = [passee EXCEPT ![r] = Aucun]
    /\ UNCHANGED <<rang, verrou, appel, intrus>>

\* The formulas of a row are computed again in the background, by the same write and
\* without the guard of the lease.
RecalculerFormules(r) ==
    /\ Existe(r) /\ verrou[r] = Personne
    /\ rangee' = [rangee EXCEPT ![r].claims = 0, ![r].abandon_reason = FALSE]
    /\ appel' = Oubliee(r)
    /\ UNCHANGED <<rang, verrou, historique>>

-----------------------------------------------------------------------------
(* Releases: the rows are freed, and those a pass has written move on, in  *)
(* one transaction; the ceiling is judged afterwards                       *)

_avance_de(w) ==
    /\ w.claims = 0
    /\ w.etat \in DOMAIN Suite
    /\ ~JournalCoupe
    /\ ~w.revision

Relachee(w) ==
    [w EXCEPT !.claimed_by = Personne, !.bail = "libre", !.claimed_run = Aucun,
              !.etat = IF _avance_de(w) THEN Suite[@] ELSE @, !.revision = FALSE]

\* The pass was done: its holder wrote the row, and left the state to the queue.
PasseFaite(r) == /\ "titulaire" \in depuis[r]
                 /\ rangee[r].etat \in DOMAIN Suite
                 /\ ~JournalCoupe /\ ~rangee[r].revision

_relacher(p, R) ==
    /\ appel[p].etape = "repos" /\ R # {} /\ Deverrouillees(R)
    /\ rangee' = [r \in Lignes |-> IF r \in R THEN Relachee(rangee[r]) ELSE rangee[r]]
    /\ passee' = [r \in Lignes |-> IF r \notin R THEN passee[r]
                                   ELSE IF PasseFaite(r) THEN rangee[r].etat ELSE Aucun]
    /\ appel' = [appel EXCEPT ![p] = [Repos EXCEPT !.etape = "juge", !.lignes = R]]
    /\ depuis' = [r \in Lignes |-> IF r \in R THEN {} ELSE depuis[r]]
    /\ preneur' = [r \in Lignes |-> IF r \in R THEN Aucun ELSE preneur[r]]
    /\ UNCHANGED <<rang, verrou, intrus>>

SousBail == {r \in Lignes : rangee[r].claimed_by # Personne}

\* run_finish, or the conclusion of the job the run belongs to, at any date.
datastore_release_by_run(p) ==
    /\ runDe[p] # Aucun
    /\ _relacher(p, {r \in SousBail : rangee[r].claimed_run = runDe[p]})

\* data_release, which gives back the label it signed with; a supervisor forces it.
datastore_release_claim(p, r, force) ==
    /\ r \in SousBail /\ (force \/ rangee[r].claimed_by = libelleDe[p])
    /\ _relacher(p, {r})

-----------------------------------------------------------------------------
(* Time and failures                                                       *)

Expirer(r) ==
    /\ rangee[r].bail = "actif"
    /\ rangee' = [rangee EXCEPT ![r].bail = "echu"]
    /\ UNCHANGED <<rang, verrou, appel, historique>>

\* The call ends between two of its transactions, or its transaction is rolled back:
\* a dropped connection, a restart.
Couper(p) ==
    /\ p \in Coupables /\ appel[p].etape # "repos"
    /\ appel' = [appel EXCEPT ![p] = Repos]
    /\ verrou' = Deverrouiller(p)
    /\ UNCHANGED <<rangee, rang, historique>>

Init ==
    /\ rangee \in [Lignes -> {[claimed_by |-> Personne, bail |-> "libre",
                               claimed_run |-> Aucun, claims |-> 0,
                               abandon_reason |-> FALSE, etat |-> e,
                               revision |-> FALSE] : e \in Filtre}]
    /\ rang \in {f \in [Lignes -> 1..Cardinality(Lignes)] : IsInjective(f)}
    /\ verrou = [r \in Lignes |-> Personne]
    /\ appel = [p \in Appelants |-> Repos]
    /\ depuis = [r \in Lignes |-> {}]
    /\ preneur = [r \in Lignes |-> Aucun]
    /\ passee = [r \in Lignes |-> Aucun]
    /\ intrus = 0

Next ==
    \/ \E p \in Appelants :
        \/ Reserver(p)
        \/ \E v \in Assouplis \union {PLAFOND} : Passe(p, v)
        \/ RienAServir(p) \/ Refuser(p) \/ Couper(p)
        \/ _juger_le_plafond(p) \/ abandonner_les_lignes_a_bout(p)
        \/ datastore_release_by_run(p)
        \/ \E r \in Lignes :
            \/ _datastore_claim_next_once(p, r) \/ datastore_claim_row(p, r)
            \/ Lire(p, r) \/ datastore_delete_row(p, r)
            \/ \E e \in Etats : datastore_merge_row_locked(p, r, e)
            \/ \E force \in BOOLEAN : datastore_release_claim(p, r, force)
    \/ \E r \in Lignes : RecalculerFormules(r) \/ Expirer(r)

Spec == Init /\ [][Next]_vars

\* A transaction ends; a call goes on, once the locks it waits for are free.
Finir(p) ==
    RienAServir(p) \/ Refuser(p) \/ abandonner_les_lignes_a_bout(p)
Continuer(p) ==
    \/ Finir(p) \/ _juger_le_plafond(p)
    \/ \E v \in Assouplis \union {PLAFOND} : Passe(p, v)
    \/ \E r \in Lignes : _datastore_claim_next_once(p, r)

\* No transaction stays open, and a session that drains the queue comes back to it after
\* each of its calls.
FairSpec ==
    /\ Spec
    /\ \A p \in Appelants : WF_vars(Finir(p))
    /\ \A p \in Draineurs : SF_vars(Reserver(p)) /\ SF_vars(Continuer(p))

-----------------------------------------------------------------------------
(* What the queue promises                                                 *)

TypeOK ==
    /\ rangee \in [Lignes -> Row]
    /\ \A r \in Lignes : rangee[r].claimed_by = Personne
            => rangee[r].bail = "libre" /\ rangee[r].claimed_run = Aucun
    /\ rang \in [Lignes -> 1..Cardinality(Lignes)]
    /\ verrou \in [Lignes -> Appelants \union {Personne}]
    /\ appel \in [Appelants -> Appel]
    /\ depuis \in [Lignes -> SUBSET {"titulaire", "autre"}]
    /\ preneur \in [Lignes -> Runs \union {Aucun}]
    /\ passee \in [Lignes -> Etats \union {Aucun}]
    /\ intrus \in 0..MaxIntrus

\* While a lease is alive, the run that holds the row is the only session to have
\* written it since it was taken: a write allowed before the take does not land after it.
EcritureDuTitulaire ==
    \A r \in Lignes : rangee[r].bail = "actif" => "autre" \notin depuis[r]

\* The run written on a leased row is the one that took it: extending a lease, by label,
\* moves the row to no other run, so a run that ends late frees its own rows only.
RunDuPreneur ==
    \A r \in Lignes : rangee[r].claimed_by # Personne => rangee[r].claimed_run = preneur[r]

\* What a lease promises, to the run that holds the row and against it.
BailRespecte == EcritureDuTitulaire /\ RunDuPreneur

\* A row leaves the queue only after as many takes without a write as its ceiling says,
\* whoever counted them and whatever ceiling their calls asked for.
AbandonMerite ==
    \A r \in Lignes : rangee[r].abandon_reason => rangee[r].claims >= PLAFOND

\* A pass that its holder did, and left to the queue to move on, is not done again.
PasseNonRefaite ==
    \A r \in Lignes : passee[r] # rangee[r].etat

\* A row under a live lease is not taken out of the queue: its holder works.
JamaisSousBail ==
    [][\A r \in Lignes : ~rangee[r].abandon_reason /\ rangee'[r].abandon_reason
                            => Libre(r)]_vars

\* A row that was at the ceiling when a reservation began is not what it serves, unless
\* the row was written meanwhile.
PlafondJuge ==
    [][\A p \in Appelants, r \in Lignes :
        appel[p].etape = "pioche" /\ r \in appel[p].usees
            => ~_datastore_claim_next_once(p, r)]_vars

\* The ceiling of takes is judged when it must be, and only then.
AbandonJuste == JamaisSousBail /\ PlafondJuge

\* A row moves on to the next pass on what its holder wrote in this one: "sous bail actif,
\* seul le run titulaire peut l'ecrire".
AvanceDeSaPasse ==
    [][\A r \in Lignes :
        /\ rangee[r].claimed_by # Personne /\ rangee'[r].claimed_by = Personne
        /\ rangee[r].etat \in DOMAIN Suite /\ rangee'[r].etat = Suite[rangee[r].etat]
       => "titulaire" \in depuis[r]]_vars

\* A row that waits in the queue is served or leaves it, however often the others are
\* written, given back and taken again.
FileServie ==
    \A r \in Lignes : r \in Servables ~> r \notin Servables
=============================================================================
