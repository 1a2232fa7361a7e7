------------------------------ MODULE EdgeDeploy ------------------------------
(***************************************************************************)
(* The one-command deployment of the edge (edge_deploy.py): Deployer.run with  *)
(* its full and its code-only branch, its rollback, and the later return from  *)
(* a code-only deployment.  One run at a time holds the maintenance lock.  A    *)
(* run may be killed at any step; what it left in the attempt directory is     *)
(* still there when the same candidate is deployed again.                      *)
(***************************************************************************)
EXTENDS Naturals

CONSTANT MaxWrites   \* bound on the writes committed by the running edge

ASSUME DeployConstants == MaxWrites \in Nat

VARIABLES
  site,      \* the launcher in place, what the service runs, and the database
  attempt,   \* files of the attempt directory
  deployer   \* the running command

deployVars == <<site, attempt, deployer>>

Launchers == {"old", "new"}
Databases == [schema: {"before", "after"}, writes: 0..MaxWrites]
NoBackup == [taken |-> FALSE, db |-> [schema |-> "before", writes |-> 0]]

Sites == [launcher: Launchers, service: Launchers \cup {"down"}, db: Databases]
Attempts == [before: Launchers \cup {"none"},     \* launcher.before
             record: BOOLEAN]                      \* code-only.json
Deployers == [at: {"idle", "prepare", "record", "backup", "stop", "apply", "swap", "restart",
                   "smoke", "rbStop", "rbDatabase", "rbLauncher", "rbRestart"},
              mode: {"full", "code", "return"}, cutover: BOOLEAN,
              backup: [taken: BOOLEAN, db: Databases],
              pre: Sites]                          \* history: the site when it began

DeployIdle(s) == [at |-> "idle", mode |-> "full", cutover |-> FALSE,
                  backup |-> NoBackup, pre |-> s]
AtDeploy(at) == [deployer EXCEPT !.at = at]

(* run's except BaseException: rollback, which does nothing before the cutover. *)
DeployFails(cutover) ==
  deployer' = IF cutover THEN [deployer EXCEPT !.at = "rbStop", !.cutover = TRUE]
              ELSE DeployIdle(site)

(* One step of a run: done, or failed with or without its effect, or killed.   *)
DeployStep(from, done, to) ==
  /\ deployer.at = from
  /\ \/ site' = done /\ deployer' = AtDeploy(to)
     \/ site' \in {site, done} /\ DeployFails(deployer.cutover)
     \/ site' \in {site, done} /\ deployer' = DeployIdle(site)
  /\ UNCHANGED attempt

-----------------------------------------------------------------------------
(* The running edge commits a write. *)
EdgeWrites ==
  /\ site.service # "down" /\ site.db.writes < MaxWrites
  /\ site' = [site EXCEPT !.db.writes = @ + 1]
  /\ UNCHANGED <<attempt, deployer>>

(* main: a full run, or a code-only one whose preimage matches. *)
DeployBegin(mode) ==
  /\ deployer.at = "idle"
  /\ mode = "code" => /\ site.launcher = "old"
                      /\ attempt.before \in {"none", site.launcher}
  /\ deployer' = [DeployIdle(site) EXCEPT !.at = "prepare", !.mode = mode]
  /\ UNCHANGED <<site, attempt>>

(* prepare: refused while a code-only attempt is retained; the launcher in place *)
(* is copied aside.                                                             *)
DeployPrepare ==
  /\ deployer.at = "prepare"
  /\ \/ /\ ~attempt.record
        /\ attempt' = [attempt EXCEPT !.before = site.launcher]
        /\ deployer' \in {AtDeploy(IF deployer.mode = "code" THEN "record" ELSE "backup"),
                          DeployIdle(site)}
     \/ UNCHANGED attempt /\ deployer' = DeployIdle(site)
  /\ UNCHANGED site

(* code_identity holds and its record is created, before anything is changed. *)
DeployRecord ==
  /\ deployer.at = "record"
  /\ \/ /\ site.db.schema = "before" /\ ~attempt.record
        /\ attempt' = [attempt EXCEPT !.record = TRUE]
        /\ deployer' \in {[AtDeploy("swap") EXCEPT !.cutover = TRUE], DeployIdle(site)}
     \/ UNCHANGED attempt /\ deployer' = DeployIdle(site)
  /\ UNCHANGED site

(* backup: taken while the edge goes on serving. *)
DeployBackup ==
  /\ deployer.at = "backup"
  /\ deployer' \in {[AtDeploy("stop") EXCEPT !.backup = [taken |-> TRUE, db |-> site.db]],
                    DeployIdle(site)}
  /\ UNCHANGED <<site, attempt>>

(* migrate: cutover_started is set before the service is stopped. *)
DeployStop ==
  /\ deployer.at = "stop"
  /\ LET down == [site EXCEPT !.service = "down"]
     IN  \/ /\ site' = down
            /\ deployer' = [AtDeploy("apply") EXCEPT !.cutover = TRUE]
         \/ /\ site' \in {site, down}
            /\ DeployFails(TRUE)
         \/ /\ site' \in {site, down}
            /\ deployer' = DeployIdle(site)
  /\ UNCHANGED attempt

DeployApply == DeployStep("apply", [site EXCEPT !.db.schema = "after"], "swap")

(* swap_restart: the launcher is replaced, then the service restarted. *)
DeploySwap == DeployStep("swap", [site EXCEPT !.launcher = "new"], "restart")
DeployRestart == DeployStep("restart", [site EXCEPT !.service = site.launcher], "smoke")

(* smoke: local_smoke and the logged-in call; a run that passes is finished. *)
DeploySmoke ==
  /\ deployer.at = "smoke"
  /\ \/ site.service = "new" /\ site.launcher = "new" /\ deployer' = DeployIdle(site)
     \/ DeployFails(deployer.cutover)
     \/ deployer' = DeployIdle(site)
  /\ UNCHANGED <<site, attempt>>

-----------------------------------------------------------------------------
(* A step of the rollback: done, failed or killed; nothing catches its failure. *)
UndoStep(from, done, to) ==
  /\ deployer.at = from
  /\ \/ site' = done /\ deployer' = AtDeploy(to)
     \/ site' \in {site, done} /\ deployer' = DeployIdle(site)
  /\ UNCHANGED attempt

DeployRollbackStop == UndoStep("rbStop", [site EXCEPT !.service = "down"], "rbDatabase")

(* Mutant: the return from a code-only deployment restores a backup too. *)
RestoredAlways == [schema |-> "before", writes |-> deployer.pre.db.writes]

(* restore_database: from the backup of this run, if it took one. *)
Restored == IF deployer.backup.taken THEN deployer.backup.db ELSE site.db

DeployRestoreDatabase == UndoStep("rbDatabase", [site EXCEPT !.db = Restored], "rbLauncher")

DeployRestoreLauncher ==
  UndoStep("rbLauncher", [site EXCEPT !.launcher = attempt.before], "rbRestart")

(* restart of the old runtime and its smoke end the rollback. *)
DeployRollbackEnds ==
  UndoStep("rbRestart", [site EXCEPT !.service = site.launcher], "idle")

(* rollback_code_only: only from the exact recorded candidate. *)
DeployReturn ==
  /\ deployer.at = "idle"
  /\ site.launcher = "new" /\ site.service = "new" /\ attempt.record
  /\ site.db.schema = "before"
  /\ deployer' = [DeployIdle(site) EXCEPT !.at = "rbStop", !.mode = "return", !.cutover = TRUE]
  /\ UNCHANGED <<site, attempt>>

-----------------------------------------------------------------------------
DeployInit ==
  /\ site = [launcher |-> "old", service |-> "old", db |-> [schema |-> "before", writes |-> 0]]
  /\ attempt = [before |-> "none", record |-> FALSE]
  /\ deployer = DeployIdle(site)

DeployNext ==
  \/ EdgeWrites
  \/ \E mode \in {"full", "code"} : DeployBegin(mode)
  \/ DeployPrepare \/ DeployRecord \/ DeployBackup \/ DeployStop \/ DeployApply
  \/ DeploySwap \/ DeployRestart \/ DeploySmoke
  \/ DeployRollbackStop \/ DeployRestoreDatabase \/ DeployRestoreLauncher
  \/ DeployRollbackEnds \/ DeployReturn

DeploySpec == DeployInit /\ [][DeployNext]_deployVars

-----------------------------------------------------------------------------
(* The site, the attempt directory and the command hold values of their types. *)
DeployTypeOK ==
  /\ site \in Sites
  /\ attempt \in Attempts
  /\ deployer \in Deployers

(* A rollback that ends by itself leaves the launcher, the running edge and the  *)
(* schema that its run found; the return from a code-only deployment, whenever   *)
(* it is asked for and whatever was killed before, goes back to the old launcher. *)
RollbackRestoresThePreimage ==
  (deployer.at = "rbRestart" /\ deployer'.at = "idle" /\ site'.service = site.launcher) =>
    /\ site'.launcher = IF deployer.mode = "return" THEN "old" ELSE deployer.pre.launcher
    /\ site'.db.schema = deployer.pre.db.schema

(* A committed write is lost only when a full run restores its own backup: the   *)
(* code-only branch and its return keep every write.                             *)
CodeOnlyKeepsWrites ==
  site'.db.writes < site.db.writes =>
    deployer.mode = "full" /\ deployer.backup.taken

\* What a deployment's steps keep, killed or failing anywhere: rollback leads to what the
\* run found, and a branch that takes no backup takes nothing back.
DeploymentIsReversible ==
  [][DeployTypeOK' /\ RollbackRestoresThePreimage /\ CodeOnlyKeepsWrites]_deployVars
=============================================================================
