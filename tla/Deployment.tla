------------------------------ MODULE Deployment ------------------------------
(***************************************************************************)
(* Releases come and go: migrations (packages/db/src/migrator.ts and the   *)
(* migrate command), processes that start, answer readiness probes and     *)
(* shut down on signals (apps/api/src/index.ts, gracefulShutdown.ts and    *)
(* the /health/ready route of app.ts).  A release is the set of the        *)
(* migrations it carries.  Kysely applies migrations in one transaction,   *)
(* under a lock, and refuses a database it does not recognise; the hub     *)
(* answers a drain at the latest after its timeout; Fastify runs the       *)
(* onClose hooks in an order this module leaves open.                      *)
(***************************************************************************)
EXTENDS Integers

CONSTANTS
  Processes,
  Releases     \* sets of migrations, numbered in the order of their names

ASSUME ReleaseAssumption == Releases \subseteq SUBSET Nat

VARIABLES
  applied,    \* kysely_migration
  server,     \* of each process, what index.ts and app.ts keep
  probe,      \* of each process, the readiness probe being answered
  held,       \* history: of each process, what kysely_migration has held since its probe arrived
  said,       \* history: the last answer to a probe
  drains      \* history: how often beginDrain was called

deployVars == <<applied, server, probe, held, said, drains>>

CloseHooks == {"hub", "repository", "signals"}

\* database: whether DATABASE_URL is set; closed: the onClose hooks that were run.
Server == [release : Releases \cup {{}}, database : BOOLEAN, stage : {"starting", "up", "closing", "ended"},
           started : BOOLEAN, draining : BOOLEAN, closed : SUBSET CloseHooks]

Booting(r, d) == [release |-> r, database |-> d, stage |-> "starting", started |-> FALSE, draining |-> FALSE,
                  closed |-> {}]
Probes == {"none", "asked", "not_applicable", "current", "pending", "diverged", "failed"}

DeployInit ==
  /\ applied = {}
  /\ server = [p \in Processes |-> [Booting({}, TRUE) EXCEPT !.stage = "ended"]]
  /\ probe = [p \in Processes |-> "none"]
  /\ held = [p \in Processes |-> {}]
  /\ said = [p \in Processes |-> "nothing"]
  /\ drains = [p \in Processes |-> 0]

-----------------------------------------------------------------------------
compareMigrationSets(expectedNames, appliedNames) ==
  IF appliedNames \ expectedNames # {} THEN "diverged"
  ELSE IF expectedNames \ appliedNames # {} THEN "pending"
  ELSE "current"

\* What Kysely finds in order: nothing applied that the release does not carry,
\* nothing missing before something applied.
Migratable(r) ==
  /\ applied \subseteq r
  /\ \A new \in r \ applied, old \in applied : old < new

\* The migrate command; it fails without a trace on any other database.
MigrateDatabase(r) ==
  /\ Migratable(r)
  /\ applied' = r
  /\ held' = [p \in Processes |-> IF probe[p] = "none" THEN held[p] ELSE held[p] \cup {r}]
  /\ UNCHANGED <<server, probe, said, drains>>

-----------------------------------------------------------------------------
StartProcess(p, r, d) ==
  /\ server[p].stage = "ended"
  /\ server' = [server EXCEPT ![p] = Booting(r, d)]
  /\ drains' = [drains EXCEPT ![p] = 0]
  /\ said' = [said EXCEPT ![p] = "nothing"]
  /\ UNCHANGED <<applied, probe, held>>

Listens(p) ==
  /\ server[p].stage = "starting"
  /\ server' = [server EXCEPT ![p].stage = "up"]
  /\ UNCHANGED <<applied, probe, held, said, drains>>

\* repo.close and exit(1); also what comes of the process when it is killed.
EndProcess(p) ==
  /\ server[p].stage # "ended"
  /\ server' = [server EXCEPT ![p].stage = "ended"]
  /\ probe' = [probe EXCEPT ![p] = "none"]
  /\ UNCHANGED <<applied, held, said, drains>>

\* The guard of installGracefulShutdown, while its listeners are installed.
MayStart(p) == server[p].stage \in {"starting", "up"} /\ ~server[p].started

\* SIGTERM or SIGINT: shutdown runs as far as the await of beginDrain.
Signal(p) ==
  /\ MayStart(p)
  /\ server' = [server EXCEPT ![p].started = TRUE, ![p].draining = TRUE]
  /\ drains' = [drains EXCEPT ![p] = @ + 1]
  /\ UNCHANGED <<applied, probe, held, said>>

\* The hub answers the drain and the application begins to close.
DrainAnswered(p) ==
  /\ server[p].draining
  /\ server[p].stage \in {"starting", "up"}
  /\ server' = [server EXCEPT ![p].stage = "closing"]
  /\ UNCHANGED <<applied, probe, held, said, drains>>

OnClose(p, hook) ==
  /\ server[p].stage = "closing"
  /\ hook \notin server[p].closed
  /\ server' = [server EXCEPT ![p].closed = @ \cup {hook},
                              ![p].stage = IF server[p].closed \cup {hook} = CloseHooks
                                           THEN "ended" ELSE @]
  /\ probe' = IF server[p].closed \cup {hook} = CloseHooks
              THEN [probe EXCEPT ![p] = "none"] ELSE probe
  /\ UNCHANGED <<applied, held, said, drains>>

-----------------------------------------------------------------------------
\* GET /health/ready arrives and checkReadiness asks the database.
ProbeArrives(p) ==
  /\ server[p].stage = "up"
  /\ probe[p] = "none"
  /\ probe' = [probe EXCEPT ![p] = "asked"]
  /\ held' = [held EXCEPT ![p] = {applied}]
  /\ UNCHANGED <<applied, server, said, drains>>

\* inspectMigrationSet; a database without the table has nothing applied.
ProbeReads(p) ==
  /\ probe[p] = "asked"
  /\ server[p].database /\ "repository" \notin server[p].closed
  /\ probe' = [probe EXCEPT ![p] = compareMigrationSets(server[p].release, applied)]
  /\ UNCHANGED <<applied, server, held, said, drains>>

\* The in-memory repository has no migrations.
ProbeReadsMemory(p) ==
  /\ probe[p] = "asked"
  /\ ~server[p].database
  /\ probe' = [probe EXCEPT ![p] = "not_applicable"]
  /\ UNCHANGED <<applied, server, held, said, drains>>

\* The database is down, or the pool is closed.
ProbeFails(p) ==
  /\ probe[p] = "asked"
  /\ server[p].database
  /\ probe' = [probe EXCEPT ![p] = "failed"]
  /\ UNCHANGED <<applied, server, held, said, drains>>

MutReady(p) == probe[p] \in {"current", "not_applicable"}

\* Draining is looked at after the await.
Ready(p) == ~server[p].draining /\ probe[p] \in {"current", "not_applicable"}

ProbeAnswered(p) ==
  /\ probe[p] \notin {"none", "asked"}
  /\ probe' = [probe EXCEPT ![p] = "none"]
  /\ said' = [said EXCEPT ![p] = IF Ready(p) THEN "ready" ELSE "not_ready"]
  /\ UNCHANGED <<applied, server, held, drains>>

DeployNext ==
  \/ \E r \in Releases : MigrateDatabase(r)
  \/ \E p \in Processes :
       \/ \E r \in Releases, d \in BOOLEAN : StartProcess(p, r, d)
       \/ Listens(p) \/ EndProcess(p)
       \/ Signal(p) \/ DrainAnswered(p)
       \/ \E hook \in CloseHooks : OnClose(p, hook)
       \/ ProbeArrives(p) \/ ProbeReads(p) \/ ProbeReadsMemory(p) \/ ProbeFails(p) \/ ProbeAnswered(p)

DeploySpec == DeployInit /\ [][DeployNext]_deployVars

-----------------------------------------------------------------------------
(* Properties.                                                             *)

DeployTypeOK ==
  /\ applied \in Releases \cup {{}}
  /\ server \in [Processes -> Server]
  /\ probe \in [Processes -> Probes]
  /\ held \in [Processes -> SUBSET (Releases \cup {{}})]
  /\ said \in [Processes -> {"nothing", "ready", "not_ready"}]
  /\ drains \in [Processes -> Nat]

\* A process drains once, however many signals come.
DrainsOnce == \A p \in Processes : drains[p] <= 1

\* "ready" is said only by a process that is not shutting down when it answers,
\* whatever it did when it was asked; while the probe was under way the database
\* held exactly the release's migrations, and it still holds them all.
ReadyWasTrue(p) ==
  /\ ~server[p].draining
  /\ probe[p] # "failed"
  /\ server[p].database => server[p].release \in held[p] /\ server[p].release \subseteq applied

\* "not_ready" has a reason: the process drains, the database did not answer, or
\* it held something else at a moment of the probe.
NotReadyHasReason(p) ==
  \/ server[p].draining
  \/ probe[p] = "failed"
  \/ server[p].database /\ \E set \in held[p] : set # server[p].release

\* An answer is true of a moment while the probe was under way, whichever
\* migrations run before, between and after its steps.
AnswersAreTrue ==
  \A p \in Processes :
    probe[p] \notin {"none", "asked"} /\ probe'[p] = "none" /\ server'[p].stage # "ended" =>
      \/ said'[p] = "ready" /\ ReadyWasTrue(p)
      \/ said'[p] = "not_ready" /\ NotReadyHasReason(p)

\* Traffic is sent only to processes that can serve it, through migrations,
\* releases side by side and shutdowns (app.ts:259-294, migrator.ts:90-126,
\* gracefulShutdown.ts:15-33, index.ts:55-69).
ReadyIsTrue == []DrainsOnce /\ [][AnswersAreTrue]_deployVars
=============================================================================
