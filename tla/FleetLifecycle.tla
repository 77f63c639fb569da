--------------------------- MODULE FleetLifecycle ---------------------------
(***************************************************************************)
(* What a fleet of the runner promises to who reads its row and its jobs,  *)
(* whatever the polls, members and orchestrators that move it:             *)
(*                                                                         *)
(*   - which status follows which, and what must be true for it: a fleet   *)
(*     that serves is stopped unasked only for its failures or by its      *)
(*     holder, and is done only once its rows have been produced;          *)
(*   - that a job produced is one step: there was room below both bounds   *)
(*     when it appeared, as if the poll had counted and written at once;   *)
(*   - that a job added by a request appears while the fleet serves, and   *)
(*     that a job belongs to one fleet, by one way, and ends once.         *)
(*                                                                         *)
(* One statement moves several fleets, each by at most one transition; one *)
(* job moves at a time.                                                    *)
(***************************************************************************)
EXTENDS Naturals, FiniteSets

CONSTANTS Fleet, Job, Ordonnanceur, NoOne,
          workers, max_rows, max_consecutive_failures

VARIABLES status, taken_by,  \* runner_fleets
          produits, ajoutes, \* the jobs of a fleet, by its polls and by requests
          finis, echecs      \* those that have ended, those that have failed

rangee == <<status, taken_by>>
travaux == <<produits, ajoutes, finis, echecs>>
vars == <<rangee, travaux>>

Servent == {"armed", "running"}
Status == Servent \cup {"draft", "stopping", "stopped", "done"}

Init == /\ status = [f \in Fleet |-> "draft"]
        /\ taken_by = [f \in Fleet |-> NoOne]
        /\ produits = [f \in Fleet |-> {}] /\ ajoutes = [f \in Fleet |-> {}]
        /\ finis = [f \in Fleet |-> {}] /\ echecs = [f \in Fleet |-> {}]

-----------------------------------------------------------------------------
(* The row of a fleet. *)

\* A launch: of a fleet that no longer serves, and that nobody holds then.
Armee(f) == /\ status[f] \in {"draft", "stopped", "done"} /\ status'[f] = "armed"
            /\ taken_by'[f] = NoOne

\* The first job of its polls, or an orchestrator that takes it.
Demarree(f) == status[f] = "armed" /\ status'[f] = "running" /\ taken_by'[f] = taken_by[f]
Prise(f) == /\ taken_by'[f] # NoOne
            /\ \/ status[f] = "armed"
               \/ status[f] = "running" /\ taken_by[f] \in {NoOne, taken_by'[f]}
            /\ status'[f] = "running"

ArretDemande(f) == status[f] \in Servent /\ status'[f] = "stopping"
ArretEffectif(f) == status[f] = "stopping" /\ status'[f] = "stopped"
Rendue(f) == status[f] = "running" /\ taken_by[f] # NoOne /\ status'[f] = "stopped"
Epuisee(f) == /\ status[f] \in Servent /\ status'[f] = "stopped"
              /\ max_consecutive_failures[f] > 0
              /\ Cardinality(echecs[f]) >= max_consecutive_failures[f]
Achevee(f) == /\ status[f] = "running" /\ status'[f] = "done"
              /\ Cardinality(produits[f] \cup ajoutes[f]) >= max_rows[f]
Tenue(f) == status'[f] = status[f]

Avance(f) ==
  \/ Armee(f) \/ Demarree(f) \/ Prise(f)
  \/ /\ ArretDemande(f) \/ ArretEffectif(f) \/ Rendue(f) \/ Epuisee(f) \/ Achevee(f) \/ Tenue(f)
     /\ taken_by'[f] = taken_by[f]

Gestes == /\ UNCHANGED travaux
          /\ status' \in [Fleet -> Status]
          /\ taken_by' \in [Fleet -> Ordonnanceur \cup {NoOne}]
          /\ \A f \in Fleet : Avance(f)

-----------------------------------------------------------------------------
(* Its jobs. *)

Nouveau(j) == \A f \in Fleet : j \notin produits[f] \cup ajoutes[f]

Produit(f, j) ==
  /\ Nouveau(j) /\ status[f] # "draft"
  /\ Cardinality(produits[f]) < max_rows[f]
  /\ Cardinality(produits[f] \ finis[f]) < workers[f]
  /\ produits' = [produits EXCEPT ![f] = @ \cup {j}]
  /\ UNCHANGED <<ajoutes, finis, echecs>>

Ajoute(f, j) == /\ Nouveau(j) /\ status[f] \in Servent
                /\ ajoutes' = [ajoutes EXCEPT ![f] = @ \cup {j}]
                /\ UNCHANGED <<produits, finis, echecs>>

Finit(f, j) == /\ j \in (produits[f] \cup ajoutes[f]) \ finis[f]
               /\ finis' = [finis EXCEPT ![f] = @ \cup {j}]
               /\ echecs' \in {echecs, [echecs EXCEPT ![f] = @ \cup {j}]}
               /\ UNCHANGED <<produits, ajoutes>>

Travail == /\ UNCHANGED rangee
           /\ \E f \in Fleet, j \in Job : Produit(f, j) \/ Ajoute(f, j) \/ Finit(f, j)

Next == Gestes \/ Travail

Spec == Init /\ [][Next]_vars
=============================================================================
