# Verification of the oto backend

TLA+ models of the concurrent core of `src/oto_mcp`, checked with TLC on small
instances and proved about, for every value of their constants, with TLAPS.

The backend is one Python server (two during a blue/green deployment) over one
PostgreSQL database.  Its concurrency is of one kind: **separate programs or
requests, each running short transactions in READ COMMITTED, sharing rows**.
Worker processes of the hosted runner poll it over HTTP about every 15 seconds;
background loops, webhooks and members do the rest.  What must hold holds
because of how a statement is written (`FOR UPDATE SKIP LOCKED`, `FOR SHARE`,
`pg_advisory_xact_lock`, a `WHERE` read again), not because of a process in
memory.  The models therefore follow transactions, and statements where a
transaction reads a snapshot it acts on later.

Names are those of the code, in French where the code's are.

## 1. Inventory

"Modelled in" is empty for a component no module covers; `PROJECT.json` repeats
the list with the files of each.

| Component | State it keeps | Operations | Hard behaviour | What makes it correct | Modelled in |
|---|---|---|---|---|---|
| Execution queue of the runner (`db/runner_jobs.py`, the verbs of `capabilities/runner_jobs.py`) | rows of `runner_jobs`: status, attempts, claimant, lease, due_at, freshness | enqueue, claim (sweep, then the fair-share pick), heartbeat, complete, hand-back, definitive stop, freeze / release / expire by a trigger | workers that die or answer late; one token for many processes; leases and freshness that end while nobody looks; fair share | a live lease is not stolen, only the claimant concludes, no job above its attempts waits for ever, a stale delivery is never started, an abandoned job is retaken or declared failed | `RunnerQueue`, `JobLifecycle` |
| Model subscriptions and their pool (`_fragments_abonnement`, `_deja_en_vol`, `claim_fallback_job`; `db/user_subscriptions.py`, `capabilities/_abonnement.py`) | status and pause of a subscription, loans of a pool, who pays for a job, its fold to an API key | take on a subscription (own, lent, of a fleet), probe of a pause, report, disconnect, fold and undo | the thing protected (one job per subscription) is no row the take locks: snapshot, row lock, advisory lock, reread, commit | one job in flight per subscription whatever the path, one fold per pause, no fold against a subscription that serves, no report undoes a disconnection | `ForfaitEnVol`, `JobLifecycle` |
| Fleets, or campaigns (`db/runner_fleets*.py`, `_produire_pour_une_campagne`) | status, holder, bounds of `runner_fleets`; the jobs it produced | polls: stop what fails, acknowledge stops, close what ended, choose, insert, mark; members: launch, stop, enqueue; orchestrators: take, ack_stop | seven transactions per poll, any number of polls at once, each cut anywhere; an advisory lock given back between choosing and inserting | bounds hold, no job is left on a fleet being stopped, one orchestrator per passage, a stop is not undone, a stop ends, a fleet with room is served, a failing fleet stops | `RunnerFleet`, `FleetLifecycle` |
| Triggers, clock, webhook deliveries (`db/runner_triggers.py`, `runner_tick.py`, `runner_hook.py`, `db/runner_hooks.py`, `capabilities/runner_triggers.py`) | enabled, next_due, daily ceiling, accepted deliveries, slots of a smoothed file | consume a due date (compare-and-swap), expire, enqueue; deliver a webhook; switch off and on, clear the file, run by hand, delete | two clocks on one base; a due date consumed before the job exists; requests of several transactions that interleave; a delivery that read the agent before a pause; slots that are shifted and given back | a due date starts once, what waits does not pile up, what was missed while off is not played, one run per identifier, the rate and the ceiling hold, a pause loses nothing | `Triggers`, `TriggerClock`, `TriggerHooks`, `TriggerSystem` |
| Row queue of the datastore (`db/rowlock.py`, `rowabandon.py`, `rowavance.py`, `datastore/file_de_travail.py`) | lease of a row, count of takes without a write, abandonment, the pass a row is at | reserve (next or named), write, release (by label or by run) with its advance, delete, judge the ceiling, recompute formulas | a ceiling judged in one transaction and a row picked in another; leases that lapse while their holder works; a run retaken; a background write that is not a holder's | only the holder writes under a live lease, a row is abandoned for what happened to it and never under a lease, a pass is not done twice, every eligible row is served | `RowQueue` |
| Credit holds (`access/credits*.py`, `db/credits.py`, `credits_echeances.py`) | balances, holds over them, movements | deposit, reserve, settle, release, collect an asynchronous job, report a turn, close the turns of an attempt, expire, merge two accounts; the feed of movements read by pages | an expiry racing the end of a call; a job collected twice; a report retried; a crash between the call and its settlement; transactions that commit out of the order of their ranks | a hold closes once and always, the balance is the sum of its movements, nobody is engaged beyond what he has, what was served is charged, a reader of the feed misses nothing | `UnitBudget`, `CreditHolds`, `CreditFeed` |
| Scheduled e-mail (`scheduler.py`, `db/emails.py`) | status of a mail | schedule, claim, send (outside the transaction), mark, cancel | a crash between send and mark; a cancellation that races the claim | sent at most the documented number of times, a cancelled mail is not sent | |
| Background workers with leases (`jev_jobs_worker.py`, transcription, extraction, embedding, backfills) | cursor and lease of a job done in slices | claim, slice, record, finish, cancel | two servers; a slice done and not recorded; a cancellation mid-slice | every slice is recorded once, a cancelled job ends | the recomputation of formulas only, in `RowQueue` |
| Billing (`db/billing.py`, `billing_runner.py`) | subscriptions, invoices | reconcile with the provider | external provider | a deadline is charged once | not planned |
| Presence and delegation tokens, upload tokens, rate limiting | a row per worker, a single-use row, counters in memory | issue, check, revoke | little: one statement each, or one event loop | single use | not planned |
| Sessions and organisations; access cascade and grants | membership, suspension, who may use which key | resolution over tables | suspension seen by the queue | | suspension only, in `RunnerQueue` |
| HTTP and MCP surface; connectors, tools, recipes; migrations | none of their own, or external services | validation, calls, formatting | | | not planned |

How they interact.  A poll (`op=claim`) first lets `RunnerQueue`'s claim look for
a job.  With a subscription depot the same claim takes the subscription's lock
(`ForfaitEnVol`); an API worker that found nothing tries to fold a paused pool,
then lets the fleets advance and retries (`RunnerFleet`).  The jobs of agents are
put there by a clock or a delivery and frozen, released or expired with their
agent (`TriggerSystem`).  A job that runs reserves rows of a table and writes
them under the lease of its run (`RowQueue`), and each tool or model call it makes
is held against a balance and settled by the end of the call, its report, or the
loop of the deadlines (`CreditHolds`); the commerce reads the movements that
result (`CreditFeed`).

The modules look at shared tables from different sides and each keeps what its
own hazards need.  Of `runner_jobs`: `RunnerQueue` the leases, due dates,
freshness and fair share; `ForfaitEnVol` the statements of a take; `RunnerFleet`
the production; `Triggers` who put a job there, for which date, and whether it is
frozen.  What ties the first two together is `JobLifecycle`, the promise about
one row, which both implement; `RunnerFleet` and `Triggers` use it in the form "a
job waits, is claimed, comes back, ends".  `CreditFeed` looks at the ledger of
`CreditHolds` from the inside of its transactions: what a transaction does is in
the first, when it is seen in the second.

Every hazard found in these components is in `PROJECT.json` ("hazards"), at the
line where it bites, with the properties that would show it going wrong, or the
reason why none does.

## 2. Modules

| Module | What it is |
|---|---|
| `JobLifecycle` | abstract specification: which status of a job may follow which, and how its attempts move |
| `RunnerQueue` | the queue, one action per transaction; refines `JobLifecycle` |
| `ForfaitEnVol` | takes on a subscription, statement by statement; refines `JobLifecycle` |
| `FleetLifecycle` | abstract specification: which status of a fleet may follow which and on what condition, a job produced as one step |
| `RunnerFleet` | fleets, the chain of a poll transaction by transaction, reads and writes apart; refines `FleetLifecycle` |
| `UnitBudget` | abstract specification: what the units budget promises of a call |
| `CreditHolds` | the ledger of holds under its calls, loops, collections and reports; refines `UnitBudget` |
| `CreditFeed` | the feed of movements read by pages beside transactions in progress |
| `Triggers` | agents, their jobs and the requests of their owners |
| `TriggerClock`, `TriggerHooks` | `Triggers` with the clocks; with the deliveries |
| `TriggerSystem` | the composition of the three, with the properties |
| `RowQueue` | the work queue of a table of the datastore |
| `RunnerQueueProofs`, `ForfaitEnVolProofs`, `RunnerFleetProofs`, `CreditHoldsProofs`, `CreditFeedProofs`, `RowQueueProofs`, `TriggerSystemProofs` | the theorems of each |
| `SumTheorems` | sums over finite sets: their type, one element more or less, two sets |
| `MCRunnerQueue`, `MCForfaitEnVol`, `MCRunnerFleet`, `MCCreditHolds`, `MCCreditFeed`, `MCTriggerSystem`, `MCRowQueue` | instances for TLC |

Definitions named as "slips" (`PrisParProcessus`, `EligibleAuBout`, ...) are not
part of a specification: each is a plausible mistake in the definition that
follows it, and is there to show that a property would notice it.

A property whose parts are about one question is the conjunction of named parts
(`LigneCoherente`, `ClotureJuste`, `BailRespecte`, ...), and the type invariants
of the modules are theorems (`TypeCorrect`) more than they are properties of runs.

### 2.1 RunnerQueue

State: the columns of `runner_jobs` that decide (`status`, `attempts`,
`claimed_by`, `bail_vivant` for a lease in the future, `dus` and `avant` for the
due dates), the suspended organisations, and **what each worker process believes
it holds** (`prise`), which nobody corrects when the backend moves on: late verbs
are the point of the module.  `preneur` is a history variable, the process the
last take was handed to.

Actions: `enqueue_job`; `perimer_`, `suspendre_`, `reprendre_la_file` of a
trigger; `suspend_org` / `resume_org`; `claim_next_job(p)`, which sweeps the
wrecks and the stale deliveries (`Menage`) and then picks, of what can be taken,
the head of the order (least loaded organisation first, then due date);
`extend_job_lease`, `complete_job`, `rendre_a_la_file`, `arreter_definitivement`,
each guarded by "is this job mine" (`Tient`: the token, and the status) and with
the refusal (`PasAMoi`) as an action of its own; `Meurt`, a process killed or an
answer lost; and the clocks (`Echoir`, `BailMeurt`, `FraicheurPasse`).

Abstractions.  Time is what the code compares it with: alive or dead, due or not,
fresh or not; the order in which jobs became due is kept.  A transaction is one
action, because a claim locks the row it writes and rereads nothing else.  The
payload, the result, the run bound to a job (`bind_job_run`) are not kept.  The
retake of a job whose lease died after its freshness is allowed, as in the code
(freshness is judged on jobs that wait).  Ties of the fair
share are broken by due date.

### 2.2 ForfaitEnVol

State: the rows as committed; who pays (`payeur`), how a job was folded
(`repli`); the status of each person's subscription; and, per worker request,
how far its transaction has gone (`etape`: free, row locked, lock held, reread)
with what it will write (`cle`).  Others see it at the commit only.

A take is `claim_next_job` (snapshot: is the job servable and nobody in flight on
its subscription? then the row lock), `Verrouiller` (the advisory lock, one name
per subscription whatever the path), `Relire` (`_deja_en_vol`: a fresh statement;
rolled back if somebody is in flight), `Commettre`.  The fallback is
`candidats_repli_abonnement` (candidates read in a transaction of their own),
`claim_fallback_job` (row lock, the condition again, then the same path).
Handlers of the worker (`_avec_abonnement`, `_avec_cle`, `_trancher_le_forfait`,
`complete_job`, `extend_job_lease`), people who connect and disconnect, pauses
that end or grow old, leases that die, requests that are cut.

Abstractions: one subscription family and one API family; the lender least
recently served is replaced by any free lender; a pause past its deadline reads
as connected, as every statement of the code does; windows of one model, the
removal of the sandbox and settings that change are not modelled; what
`RunnerQueue` covers (due dates, freshness, freezing, fair share) is left out; a
handler of several transactions (complete then report) is one action.
`ProlongeTardif` says whether a heartbeat may arrive after the end of its lease;
worker tokens are taken as distinct (see 2.1 and the runs for what happens when
they are not).

### 2.3 FleetLifecycle, RunnerFleet

State: `status` and `taken_by` of the fleets; `travail`, `flotte`, `voie` of the
jobs (`voie` tells a job produced by a poll from one a request added); per
polling worker the step of the chain it is at (`etape`), the snapshot of its
statement (`lu`, `instantane`), the fleet it produces for, its uncommitted job;
`garde`, the fleet a request holds `FOR SHARE`; `decides`, the fleets whose
launch has passed its checks and has not armed yet.

A poll runs `une_campagne_vit`, `arreter_campagnes_epuisees`,
`accuser_arrets_effectifs`, `clore_campagnes_terminees`, `campagne_a_servir`
(candidates read; one locked and read again; commit, which releases the lock),
`_poser_si_servable` (`Verrouille`, the lock or nothing; `Insere`, the INSERT ...
SELECT with a snapshot of its own; `Valide`, the commit), `marquer_demarree`.  An
UPDATE of fleets on a condition over jobs is two steps, `Lit` (its snapshot) and
`Ecrit` (waits for the rows held, looks again at the status of the fleet and,
READ COMMITTED, **not** at the jobs).  `Tombe` cuts a poll anywhere: an exception
(swallowed by the code) or a restart; the transaction in progress is rolled back
and an id taken from the sequence is lost.

Abstractions: bounds do not change (`op=update` is not modelled) and `max_rows`
is always declared; every fleet has rows left to reserve; the weighted draw is
any order; a fleet tried in vain does not keep its lock to the end of the
transaction; the status `failed` of a fleet, that nothing writes, is left out.

`FleetLifecycle` is what a reader of the row and of its jobs may rely on: a fleet
that serves is stopped unasked only for its failures or by its holder, is done only
once its rows exist, and a job its polls produce appears while there is room below
both bounds, as if the poll had counted and written at once.  `RunnerFleet`
implements it with `produits` and `ajoutes` as the committed jobs of a fleet by
their way (`DesSondages`, `DesRequetes`), and `finis` and `echecs` as those that
ended and failed (`Cycle`).  A stop may become effective at any moment: the
acknowledgement reads the jobs in an older snapshot, and the code says a job may
still be committed after it (`db/runner_fleets.py:328-334`).

### 2.4 UnitBudget, CreditHolds, CreditFeed

`CreditHolds` keeps `balance` and `holds_open` of each payer, the `hold` of each
call, the `mouvements`, and for every handler what it read in an earlier
transaction: how far the edge of a call has gone (`etape`), the holds a loop of
the deadlines listed (`vue`), the hold a collection found (`releve`), the turn a
report is about and what it read (`rapport`, `vu`), the turns to close when the
attempt ends (`cloture`).  Histories: `consomme`, what the provider served, and
`decouvert`, what a payer owes beyond what was checked before the call.

Each function of `db/credits.py` (`verser`, `reserver`, `regler`, `liberer`,
`suivre_le_solde`) is one transaction that ends by locking the balance of its
payer, hence one action.  Three kinds of calls: a tool call (reserve, call,
settle or release), a submission collected later (the hold gets the deadline of
its job), a turn of a hosted agent (settled by a report that comes once, twice or
never, else by the end of the attempt).  `Tomber` ends a handler between two
transactions.  A deadline (`Passe`) may pass at any moment of a call; of a
submission, only if `SoumissionTardive`.  Abstractions: amounts come from a scale
(`reserve`, `reel`); the monetary budget beside the units is not modelled.

`UnitBudget` is what a caller may rely on: a call is engaged once, where the
budget refuses only within what is available (but for a call that has consumed
already, whose report must be written), closed once, and what is available moves
with a deposit, an engagement, its closing or a merge, and with nothing else.
`CreditHolds` implements it with `disponible` as balance minus what is held.

`CreditFeed` opens the transactions that `CreditHolds` takes as atomic: start
(`NOW()`), publication in `pg_stat_activity`, rank (`xid`) at the first write,
commit.  The reader lists the sessions (`LireLesSessions`), then reads a page in
one snapshot (`page_de_mouvements`), and announces `as_of` and `settled_as_of`.
A transaction may stay unpublished for `MARGE` seconds at most, which is what
`_MARGE_S` assumes.  PostgreSQL is external: nothing of it is in `src/`.

### 2.5 Triggers, TriggerClock, TriggerHooks, TriggerSystem

`Triggers`: the row of each agent (`agent`), who holds it (`verrou`), the jobs it
put in the queue (`travail`: origin, due date, when it may start, takes), the
requests in progress (`requete`).  A request is one transaction after another:
`eteindre` writes `enabled`, then `apres_eteindre` freezes the file of a webhook
or expires the one of a clock; `lire_agent` then `rallumer`, which takes up the
rhythm from what it read; `delete_trigger` then `apres_supprimer`; `run_now`; a
request may be cut between two (`couper`).  Workers take, hand back and end jobs.
`Departs` is the set of agents TLC starts from.

`TriggerClock` adds a loop per environment: `due_triggers` reads the agents that
are due, then one by one `consume_due` (compare-and-swap; or the cron cannot be
evaluated), `Perimer` (expire what waited; may fail), `Enfiler`; `tomber` ends a
clock between two steps, and `_occurrence_sautee` leaves a date consumed with
nothing to enqueue (suspended, archived, without a model).
`TickPonctuel` says that a turn, and a request that read an agent, ends before
the next due date.

`TriggerHooks` adds the deliveries: `recevoir` (reads the agent; a refusal
reserves nothing), `Juger` (takes the row of the agent; its `NOW()` may be any
instant since it was received; duplicates, ceiling of the day, slot of the
smoothing, with the division of the code rounded up), `Enregistrer` (the job and
the delivery, commit), `Perdre`; and what moves slots: `reprendre_la_file` and
`liberer_les_creneaux`, which take no lock on the agent.

`TriggerSystem` composes them and states the properties.  Histories: `manquees`,
the due dates that fell while an agent was off; `rates`, the expiries that
failed; `trouble`, the last toggles of an agent overlapped or were cut;
`derange`, slots moved or freed while others were being taken.  The last three
mark behaviours that the code has and that section 3 lists; properties speak of
the agents they do not mark.

### 2.6 RowQueue

State: each row (`rangee`: label, lease, run, claims, abandonment, pass,
whether its state was revised since the take), the order of service (`rang`), who
holds it across the two steps of a transaction that thinks under its lock
(`verrou`), and the call in progress of each session (`appel`).

A reservation is `Reserver`, then a pass: `_juger_le_plafond` and
`abandonner_les_lignes_a_bout` take the rows at their ceiling out of the queue,
then `_datastore_claim_next_once` picks the least recently taken, in another
transaction; what was at its ceiling when the pass judged is `usees`.
`datastore_claim_row` takes a named row, and counts unless it renews.
`datastore_merge_row_locked` and `datastore_delete_row` write under the guard of
the lease (`_lease_guard`: the run, and only if the lease is alive);
`datastore_release_claim` (the label, or `force`) and `datastore_release_by_run`
give back and advance what was written; `RecalculerFormules` is the background
write without a guard; `Expirer` lets a lease lapse.

A session carries the run of its work and signs with a label it chooses; several
sessions may sign alike, as in production.  Abstractions: a lease is none, alive
or over; the contents of a row is the pass it is at; retries after a deadlock,
inserts, counts and `expected_revision` are left out.

## 3. What TLC checks

| Run | Instance | What it shows |
|---|---|---|
| `queue` | two jobs (one that can expire, from a trigger; different organisations), three processes with a token each | the safety and liveness of the queue through deaths, retakes, hand-backs, freezes, expiries and suspensions; refinement of `JobLifecycle` |
| `queue_shared_token` | the same processes, one token (as deployed) | **violated**: `SeulLeClaimantConclut` |
| `forfait` | three jobs, two people, two organisations, two subscription workers: own, lent and fleet path to one subscription | one job per subscription, disconnections hold |
| `forfait_repli` | a pool of two lenders, one subscription worker and two API workers, jobs of one take | one fold per pause, never against a subscription that serves; every take ends |
| `fleet` | one fleet of four rows, one job at a time, stopped at its first failure and armed twice; two polls, one cut; one request that enqueues; two orchestrators | holder, stops; the failures of a fleet are bounded, but for the polls that judged too early; refinement of `FleetLifecycle` |
| `fleet_live` | one fleet of two rows, one job at a time, stopped at its first failure, armed once; two polls, one cut; an orchestrator | bounds; a stop ends; a fleet with room is served or stops |
| `credits` | a tool call, a submission, a turn that consumes more than it reserved; two accounts that merge; a deposit of 2; one loop, one collection, one report | the ledger adds up, nobody is engaged beyond what he has, what was served is charged, every hold closes; refinement of `UnitBudget` |
| `credit_feed` | two transactions of the budget and one of another database, one call, two accounts that merge, pages of one movement | nothing appears behind the cursor, what a page promises holds, everything is served |
| `trigger_clock` | two scheduled agents (the cron of one is broken), two clocks, two owners, one cut | one job per due date, no pile-up, missed dates are not played, a due agent does not stay due |
| `trigger_hooks` | one webhook agent with two settings of its rates, three deliveries that may carry one identifier, two owners, one cut | one run per identifier, rate and order, daily ceiling, pauses lose and hold nothing |
| `row_queue` | two rows, two passes, two sessions with a run each and one label, one drains the queue, the other's calls may be cut | leases, abandonments, passes, and every row is served |
| `row_advance` | one row, one session | **violated**: `AvanceDeSaPasse` |

Deadlock is checked in the queue and subscription runs; the others say
`CHECK_DEADLOCK FALSE` because what they model really stops: a bounded fleet
whose rows are done, calls all made, a clock at its bound.

The two violated runs state what a comment of the code says and show what the
code does instead (`PROJECT.json`, "findings", with the lines):

* `queue_shared_token`: `runner_jobs.py` promises that only the claimant
  concludes; the claimant is the token, and the runner units share one, so a
  process whose lease died concludes its sibling's take.
* `row_advance`: `rowavance.py:17-19` infers from `claims = 0` that the holder
  wrote the row, since only the holder can write it under a lease; the
  recomputation of formulas (`formula_backfill_worker.py:82`) writes without the
  guard and resets `claims`, so a row its holder never wrote advances when it is
  released.

### Known limits

What the models show the code to do, and no property claims otherwise.

*Queue, subscriptions, fleets.*

* A heartbeat that arrives after its lease died revives it if nobody took *that
  job* again, whatever other job of the subscription was taken
  (`ProlongeTardif`; `OneJobPerSubscription` is proved without it).
* A folded job that returns to the queue is retaken by the ordinary claim, which
  does not count folds in flight: two folds of one pause may then be in flight.
  `UnSeulRepliParForfait` is checked and proved for jobs of one take
  (`OneFoldPerPause`), and proved of every behaviour that retakes no folded job
  (`OneFoldUnlessRetaken`).
* `op=enqueue fleet_id=` does not look at `max_rows`, which "ne se contourne pas"
  (`db/runner_fleets.py:158-159`); `BornesTenues` is about what polls produce.
* A poll cut between the commit of the job and `marquer_demarree` may leave a
  fleet `armed` at its bound: the sweep closes `running` ones only.
* A job may be committed after the acknowledgement of a stop; the code says so
  (`db/runner_fleets.py:328-334`).
* A fleet relaunched after its failures is stopped again at once: the last
  failures are counted over all its jobs.

*Agents.*

* A clock stalled, or a request delayed, by a whole period acts on an old reading
  of an agent: the properties of the clock need `TickPonctuel`.  Two due dates of
  a cron are at least five minutes apart (`runner_tick.py:34`, `MIN_SPACING_S`).
* A clock that dies between the due date it won and the job it enqueues loses the
  occurrence; this is the price of at most once.
* An expiry that fails leaves one more job waiting (`rates`).
* Two toggles of an agent that overlap, or one that is cut, leave a frozen file on
  an agent that is on, until the next toggle (`trouble`).
* A delivery that read the agent before a pause, or a job handed back during it, is
  served while the agent is off, against "La pause arrête donc bien l'agent"
  (`db/runner_hooks.py:172-173`); none is lost.
* A delivery accepted while a file is given back sees its slot move and not its
  job, and the two transactions of a clearing race with deliveries: departures
  may then be closer than the rate (`derange`).
* A job handed back after a take keeps the slot of its first departure, and nothing
  smooths the next one: with two takes per job, two retries and a new delivery can
  leave within one window (TLC shows it with `MaxPrises = 2`).  The rate of
  `LissageTenu` is that of the slots given, and of the first departures.

*Rows.*

* A release that comes after its lease lapsed advances a row that someone else
  wrote; a release guarded by a label frees the lease of any session that signs
  alike.
* A row may be taken more often than the ceiling: `claim_row` does not judge it,
  nor does a pass judge the rows freed since it judged.  What is proved is that
  such a row is not served by a pass that saw it at its ceiling.
* A mark of the outbox of formulas cleared while a row changes may be lost
  (`formula_backfill_worker.py:87`).

*Credits.*

* A merge (`db/credits.py:461`) moves an older open hold to a payer whose
  `settled_as_of` has passed it, which then recedes, against "Monotone lui aussi"
  (`db/credits.py:259-272`).  `InstantsNeverRecede` is about the other payers, and
  `PageTientParole` about those no merge brought holds to.
* A late report is attributed to the current attempt under a shared token
  (`capabilities/runner_jobs.py:831`); the turns of the model are of one attempt.

### Bounds and why they are enough

Two jobs and three processes let one process hold, one retake and one wait; the
properties of the queue are per job or relate two jobs of a claim.  Attempts
reach their ceiling.  Three jobs on one subscription are its three paths; two
racing workers are what a lock separates.  A fleet of two rows with `workers = 1`
has both bounds meet, and two polls are what a lock separates; `MaxJobs` leaves an
id for the row too many, or for the one a cut loses.  Of four rows, a fleet stopped
at its first failure and produced for by two polls that judged before it can exceed
the bound of `EchecsBornes` if anything can.  `MaxChutes = 1`, `MaxArmements = 2`,
`MaxEnfiles = 1` give one cut, one relaunch and one added job at every place they may
land.  Polls are alike and so are orchestrators, hence the symmetry of `fleet`, which
checks no liveness.

Three calls are one of each kind on one balance, and two accounts are a merge.  A
deposit of 2 lets one call through, or two, and refuses the next.  In the feed,
two transactions that conflict or not, and one the reader must leave aside, are
every order of start, rank, commit and reading; pages of one movement make a page
end between two movements of a rank.

`MaxT = 2` with a period of one is two due dates, hence one that falls while an
agent is off or a clock stalls; two clocks and two owners are what the
compare-and-swap and the toggles separate, and `MaxGestes = 2` lets an agent be
switched off and on.  Windows of two instants and rates of one or two per window
make three deliveries fill a window and wait for the next.  Takes are
bounded by `MaxPrises`, cuts by `MaxCoupures`, failed expiries by `MaxRates`,
runs by hand by `MaxMain`.

Two rows and a ceiling of two takes let a row reach its ceiling while the other
is picked; the second session's calls are cut between any two transactions, and
`MaxIntrus = 1` is one write of a row under no lease.

What these bounds do not reach: two fleets (nothing relates them but a worker's
choice), fair share between many jobs of one organisation, and due dates and
windows longer than two instants.  The theorems of section 4 do not depend on
them.

### Fairness

* `RunnerQueue`: clocks advance; a worker keeps polling (15 s loops) and ends what
  it holds, by a verdict, a refusal or death.  No producer is obliged.  A take may
  be handed back uncounted for ever (`rendre_a_la_file` gives the attempt back by
  design), so `FileSEcoule` is conditional on hand-backs ending, and on jobs that
  are not frozen and organisations not suspended.
* `ForfaitEnVol`: a request runs to its end; PostgreSQL serves lock queues in
  order, hence strong fairness of the steps that wait.
* `RunnerFleet`: polls go on and their requests end; strong fairness of winning a
  try-lock, held a few milliseconds by polls 15 s apart; a claimed job ends and a
  waiting one is claimed, which `RunnerQueue` shows.  Nothing obliges a launch, a
  stop, a take or a cut.
* `CreditHolds`: the edge of a call goes on unless it dies, deadlines pass, and the
  loop of the deadlines, one turn every 60 s, lists and settles; strong
  fairness of settling one hold, since a call that ends may close it first.
  Nothing obliges a report or a collection.
* `CreditFeed`: transactions of the budget end, and the reader comes back.  Those of
  other databases may stay open for ever.
* `TriggerSystem`: time passes and the loop of a clock outlives every exception
  (`run_runner_tick_loop`).  No owner, worker or source is obliged.
* `RowQueue`: a call that holds a lock ends; a session that drains the queue asks
  again and goes on (strong, since other sessions hold rows in between).  Nobody is
  obliged to write or to release: leases lapse.

## 4. What is proved

All theorems are of `Spec`, for every value of the constants under the named
assumptions of the module (`QueueAssumption`, `ForfaitAssumption`,
`FleetAssumption`, `HoldsAssumption`, `FeedAssumption`, `TriggersAssumption`,
`ClockAssumption`, `HooksAssumption`, and `RunsAssumption`, `PassesAssumption`,
`PlafondAssumption` of `RowQueue`: types, positive bounds, finite sets where
something is counted, sentinels that are no element).

**RunnerQueueProofs** — `TypeCorrect`, `RowsCoherent`, `TakeIsLegitimate` (from
`LeaseNotStolen` and `NeverServedStale`), `OnlyTheClaimantConcludes` (if `subOf`
is injective: the hypothesis `queue_shared_token` shows necessary), `Refinement`
of `JobLifecycle`.  Inductive invariant: `TypeOK`, `PasDeZombie`, `SansReste`,
`PreneurEcrit`, and that an absent job has no attempts (`AucuneTentative`).
`PasDeZombie` alone is not inductive: it says nothing of an absent row, whose
attempts its INSERT keeps.  `OnlyTheClaimantConcludes` needs `PreneurEcrit`, that
the token written on a row is that of the process it was last handed to.

**ForfaitEnVolProofs** — `TypeCorrect`, `Refinement`, `FoldsOnlyUnderPause`,
`DisconnectionHolds`, and, when `ProlongeTardif = FALSE`, `OneJobPerSubscription`,
`OneFoldUnlessRetaken` and `OneFoldPerPause`.
What is inductive is not "one job per subscription" but that the reread stays
true until the commit (`ReluVrai`): the holder of the lock is alone
(`VerrousExclusifs`), every other take on that subscription must pass by the same
lock, and the row it will write cannot move because it is locked (`LigneTenue`).
The folds rest on the same reread of their own rule (`RepliRelu`) and on
`RepliOuAbonnement`, that a job is of the API family exactly while it is folded.
Alone they are not inductive, since the ordinary claim may bring a fold back beside
another: `OneFoldUnlessRetaken` says what must not happen, `OneFoldPerPause` shows
that with one take per job it does not, from `RepliPris` (a folded job never waits)
and `TenuSousForfait` (what a worker holds under a subscription is not folded).

**RunnerFleetProofs** — `TypeCorrect`, `BoundsHeld`, `EnqueuedIsServed`,
`HolderIsTheTaker`, `StopIsNotUndone`, `FailuresBounded`, `Refinement` of
`FleetLifecycle`.  A poll counts long before
its job is committed; what carries the count to the commit is `Place` (an INSERT in
progress leaves room for its job), preserved because nobody else holds the lock of the
fleet (`VerrouExclusif`) and no other step adds a produced job (`PasDesTravaux`).
`EnqueuedIsServed` (that a job added by a request finds its fleet serving, which
`FleetLifecycle` promises too) needs `GardeSert` (the row a request holds FOR SHARE keeps its
status), `HolderIsTheTaker` that an armed fleet has no holder.  `FailuresBounded`
is about a race: polls judge the last failures before they take the lock.
Inductive is a sum (`SeriesBornees`): once the failures since some job have reached
the limit, the jobs produced since then and the polls still on their way with an old
judgement (`Tardifs`) stay below the bound together, so each late poll pays for the
job it adds; only an arming lets more polls through, and a poll that judges
afterwards sees the failures (`Tete`: the last n of a set are n, `TeteAssez`).
`Refinement` is about statements that act on what they read earlier.  An UPDATE
decides on the jobs of its snapshot and looks again at the status only; its
decision is still right because failures and rows are never taken back (`Lectures`,
`EcritAvance`).  A job is counted long before its commit, and is within the bounds
at the commit by the same `Place`, so the commit is where it is produced in the
abstract.  A fleet some poll or request has in hand has been launched (`Lancees`).
The theorems hold for any number of fleets, polls, requests and orchestrators.

**CreditHoldsProofs** — `TypeCorrect`, `NothingServedForFree`, `BalanceHeld`,
`LedgerAddsUp`, `ClosedForItsReason` (if no submission outlasts its deadline),
`Refinement` of `UnitBudget`.  Inductive: `TypeOK`, `Suite` (what a handler has done
agrees with the state of its hold) and `AuBareme` (a hold is at an amount of the
scale); deadlines add `Echeances`, that what a loop listed is closed already or past
its deadline, and that the deadline of a submission waits for its job.
`BalanceHeld` is a margin: available plus owed never decreases below zero, one lemma per transaction.  `LedgerAddsUp` needs
that each closing and each merge writes its movements once (`Livre`: a settlement in
the ledger is that of a closed hold, a transfer that of a merged account), so that a
movement is new when its amount is added; the arithmetic is in **SumTheorems**
(`SumAdd`, `SumRemove`, `SumUnion`, `SumSame`), whose inductions go by the smallest
counterexample among the numbers.

**CreditFeedProofs** — `TypeCorrect`, `NothingBehindTheCursor`, `PageKeepsItsWord`,
`InstantsNeverRecede`.  Inductive: every transaction of the budget that is alive is
dated from the instant the reader was told on (`Debuts`, `Instants`), the cursor is
behind the ranks that run (`LesRangs`), a movement above such a rank is later than
`as_of` (`Retenues`), and a call not settled, or whose settlement is not served yet,
is later than `settled_as_of` (`Tenues`).

**RowQueueProofs** — `TypeCorrect`, `LeaseRespected`, `AbandonIsEarned`,
`PassNotRepeated`, `AbandonIsJust`.  Inductive: a lock is held by the call that
thinks under it (`Verrous`), what a call will abandon was and stays at its ceiling
and free (`Abandons`), what it will write it may still write (`Ecritures`), what a
pass saw at its ceiling is out of its reach (`Dechues`), and a row its holder
wrote has no take left to count (`EcritRemetAZero`).

**TriggerSystemProofs** — `TypeCorrect`, `OneRunPerIdentifier`, `PauseLosesNothing`,
`NothingHeldWhileOn`, `DailyCeilingHolds`, `SmoothingHolds`; and under `TickPonctuel`
`OneWinnerPerDueDate`, `RhythmTakenUp`, `WaitIsBounded`.  `Sortes` separates what
belongs to clocks from what belongs to webhooks.  A pause is two transactions, so
what is inductive is about the toggles in progress (`BasculeDe`): a frozen job
belongs to an agent that is off, or that a request in progress will release.  The
ceiling is read under a lock and written later, as the room of a fleet is:
`Jugement` is that a delivery that was judged holds the row and leaves a place.
For the clock, `Instants` says that what a turn or a request knows is of the
current period and that an agent a turn has yet to take is as it was read or
already won; `Dates` that a job is older than the due date to come, so a date won
once is not won again; `Manques` that nobody is about to play a missed date;
`Places` that a turn that expired what waited made room for what it enqueues.  The
lemmas `PasDes...` say once, for every action, how each variable may move.
`SmoothingHolds` is about the slots of deliveries and the dates of jobs, which two
different writers move.  `Portant` gives each waiting job a slot of its own, at its
date; `Heures` counts the slots of the window that each slot begins, and
`RetardEstLibre` says why a new one fits: it comes after every slot, and a window or
more after the k-th latest, so no window that contains it holds k old ones.  A delivery judged under the
lock keeps its place until it writes (`Jugees`); a file given back by a request
moves by one shift that never shrinks an interval (`LisseRendu`); and while no
request is moving slots (`Calme`) nothing else touches them.

Only model-checked: everything under fairness (`RepriseApresMort`, `FileSEcoule`,
`PriseAboutit`, `ArretAboutit`, `CampagneAvance`, `ReservationSeFerme`,
`ToutEstServi`, `EcheanceConsommee`, `FileServie`), which rests on ENABLED and is out
of the prover's reach.  Every other property of a passing run is a theorem, under
the hypotheses given above.  No specification uses a RECURSIVE operator.

## 5. Not modelled

* Scheduled e-mail, and the slices of the background workers: claims with a lease,
  each a smaller case of what `RunnerQueue` and `RowQueue` show; next in the plan.
* Of agents: rerun, bounds of the chains of agents, creation, a changed cron, take
  over, give and share, the identity of an owner, the signature of a delivery.
* Of credits: how an amount is read from the scale, the monetary budget
  (`access/reglement.py`), the statements.
* Of rows: inserts, counts, `expected_revision`, retries on a deadlock, contents.
* Billing, presence and delegation tokens, upload tokens, rate limiting, access
  cascade, the HTTP and MCP surface, connectors, migrations: an external provider
  keeps what matters, or one statement, or one event loop, or no state; the reasons
  are with the components in `PROJECT.json`.  Connectors, tools and the surface are
  most of the lines of the repository.

## 6. Plan

1. `ScheduledEmail`, then the slices of `jev_jobs` (a slice recorded after the crash
   that lost its mark).
2. Proofs: the smoothing of a job handed back, if the code gives it a slot; what the
   modules above promise.
3. Of agents: the bounds of chains, and an agent whose cron changes.
