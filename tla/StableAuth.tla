------------------------------ MODULE StableAuth ------------------------------
(***************************************************************************)
(* The move of the edge from one combined service to a stable authorization     *)
(* service and a delegated edge (stable_auth_deployment.py): activate with its    *)
(* host operations, its rollback and its receipt, and reconcile_attempt, which     *)
(* settles an attempt that did not finish from what is on disk.  An attempt that   *)
(* may have shown the split service to the public without a durable PASS leaves    *)
(* a failure record in the queue of FailureQueue.  One command at a time holds      *)
(* the deployment lock; it may be killed, or interrupted by a signal, at any step.  *)
(***************************************************************************)
EXTENDS FailureQueue

CONSTANTS MaxActivations,   \* bound: activation attempts
          MaxGrants,        \* bound: OAuth grants written by the combined service
          SaProxies         \* Caddy proxies to move, in PROXY_TRANSITIONS' order

ASSUME StableAuthConstants ==
  /\ MaxActivations \in Nat /\ FailAttempts = 1..MaxActivations
  /\ MaxGrants \in Nat /\ SaProxies \in Nat
  /\ FailBodies \subseteq [proven: BOOLEAN, stamp: Nat]

VARIABLES
  saHost,      \* services, routes, gate, start-up ownership and OAuth grants
  saReceipt,   \* attempt -> activation-receipt.json
  saFrozen,    \* attempt -> the records in activation-failure.json (none or one)
  saPointer,   \* activation-pending.json: the attempt, 0 when absent
  saRun,       \* the running command
  saSent       \* history: attempts whose ungate was sent

saOwnVars == <<saHost, saReceipt, saFrozen, saPointer, saRun, saSent>>
saVars == <<saOwnVars, failVars>>

Activations == 1..MaxActivations

SaHost0 == [gate |-> FALSE, combined |-> TRUE, auth |-> FALSE, edge |-> FALSE,
            split |-> {},            \* proxies that lead to the split services
            boot |-> "combined", grants |-> 0, migrated |-> 0]
SaBlank == [phase |-> "none", status |-> "RUNNING", exposed |-> FALSE,
            notSent |-> FALSE, confirmed |-> FALSE]
SaIdle == [at |-> "idle", a |-> 0, back |-> "idle", mem |-> SaBlank, phase |-> "PREFLIGHT",
           exposed |-> FALSE, gated |-> FALSE, pre |-> SaHost0]

SaInit ==
  /\ FailInit
  /\ saHost = SaHost0
  /\ saReceipt = [a \in Activations |-> SaBlank]
  /\ saFrozen = [a \in Activations |-> {}]
  /\ saPointer = 0
  /\ saRun = SaIdle
  /\ saSent = {}

KeepQueue == UNCHANGED failVars
GoTo(at) == [saRun EXCEPT !.at = at]

(* receipt.write: done, or an OSError before or after the file was replaced. *)
WriteReceipt(a, r, ok, failed) ==
  \/ saReceipt' = [saReceipt EXCEPT ![a] = r] /\ saRun' = ok
  \/ saReceipt' \in {saReceipt, [saReceipt EXCEPT ![a] = r]} /\ saRun' = failed

(* activate's handler: an Unknown, or any exception once the exposure was         *)
(* attempted, keeps the gate; a definite one rolls back unless nothing was begun.  *)
Raised(kind, run) ==
  [run EXCEPT !.at = IF kind = "Unknown" \/ run.exposed THEN "retain"
                     ELSE IF run.phase = "PREFLIGHT" THEN "rolledBack" ELSE "rbGate"]
Reporting(run, phase, status) ==
  [run EXCEPT !.at = "finish", !.mem = [@ EXCEPT !.phase = phase, !.status = status]]

-----------------------------------------------------------------------------
(* The combined service stores an OAuth grant for as long as it runs. *)
GrantWritten ==
  /\ saHost.combined /\ saHost.grants < MaxGrants
  /\ saHost' = [saHost EXCEPT !.grants = @ + 1]
  /\ UNCHANGED <<saReceipt, saFrozen, saPointer, saRun, saSent>> /\ KeepQueue

(* run: reconcile-existing-attempt, or the first step of activate. *)
SaBegin(back) ==
  /\ saRun.at = "idle"
  /\ saRun' = [SaIdle EXCEPT !.at = "reconcile", !.back = back]
  /\ UNCHANGED <<saHost, saReceipt, saFrozen, saPointer, saSent>> /\ KeepQueue

(* reconcile_attempt decides from the receipt the pointer names.                *)
PassIsDurable(r) == r.status = "PASS" /\ r.phase = "COMPLETE" /\ r.exposed
PreBoundary(r) == ~r.exposed \/ r.notSent

Reconcile ==
  /\ saRun.at = "reconcile"
  /\ LET r == saReceipt[saPointer] IN
     saRun' = GoTo(IF saPointer = 0 THEN saRun.back
                   ELSE IF PassIsDurable(r) THEN "settlePass"
                   ELSE IF PreBoundary(r) THEN "settlePre" ELSE "freeze")
  /\ UNCHANGED <<saHost, saReceipt, saFrozen, saPointer, saSent>> /\ KeepQueue

(* A PASS is written again, an attempt before the boundary is closed as aborted; *)
(* an OSError leaves UNRECORDED, which also refuses a new activation.             *)
SettleReceipt ==
  /\ saRun.at \in {"settlePass", "settlePre"}
  /\ LET r == saReceipt[saPointer]
         settled == IF saRun.at = "settlePass" THEN r
                    ELSE [r EXCEPT !.status = "ABORTED_PRE_BOUNDARY"]
     IN WriteReceipt(saPointer, settled, GoTo("clear"), SaIdle)
  /\ UNCHANGED <<saHost, saFrozen, saPointer, saSent>> /\ KeepQueue

EscapeRecord(a, r, stamp) ==
  [attempt |-> a, body |-> [proven |-> r.confirmed, stamp |-> stamp]]

(* The evidence is frozen once, with the time of its first reconciliation, and   *)
(* written back unchanged on every retry.                                        *)
Freeze ==
  /\ saRun.at = "freeze"
  /\ \E r \in IF saFrozen[saPointer] # {} THEN saFrozen[saPointer]
              ELSE {EscapeRecord(saPointer, saReceipt[saPointer], s) :
                      s \in {b.stamp : b \in FailBodies}} :
       \/ saFrozen' = [saFrozen EXCEPT ![saPointer] = {r}] /\ saRun' = GoTo("queue")
       \/ saFrozen' \in {saFrozen, [saFrozen EXCEPT ![saPointer] = {r}]} /\ saRun' = SaIdle
  /\ UNCHANGED <<saHost, saReceipt, saPointer, saSent>> /\ KeepQueue

(* queue.enqueue; a CONFLICT keeps the pointer. *)
QueueEscape ==
  /\ saRun.at = "queue" /\ failLock = "free"
  /\ \E r \in saFrozen[saPointer] :
       /\ \/ Enqueue(r)
             /\ saRun' = IF EnqueueAnswer(r) = "PENDING_SYNC" THEN GoTo("clear") ELSE SaIdle
          \/ UNCHANGED <<failFiles, failKnown>> /\ saRun' = SaIdle
  /\ UNCHANGED <<saHost, saReceipt, saFrozen, saPointer, saSent, failRegistry,
                 failLock, failJournal, failResolved, failCapture, failLaunch>>

(* Mutant: the pointer is cleared before the evidence is queued. *)
ClearPointerFirst ==
  /\ saRun.at \in {"clear", "queue"}
  /\ saPointer' = 0 /\ saRun' = GoTo(saRun.back)
  /\ UNCHANGED <<saHost, saReceipt, saFrozen, saSent>> /\ KeepQueue

ClearPointer ==
  /\ saRun.at = "clear"
  /\ \/ saPointer' = 0 /\ saRun' = GoTo(saRun.back)
     \/ saPointer' \in {saPointer, 0} /\ saRun' = SaIdle
  /\ UNCHANGED <<saHost, saReceipt, saFrozen, saSent>> /\ KeepQueue

-----------------------------------------------------------------------------
(* activate, once nothing is left to reconcile: receipt, then pointer. *)
ActivateReceipt ==
  /\ saRun.at = "start"
  /\ \E a \in Activations :
       /\ saReceipt[a].phase = "none" /\ \A b \in Activations : b < a => saReceipt[b].phase # "none"
       /\ LET r == [SaBlank EXCEPT !.phase = "PREFLIGHT"] IN
          WriteReceipt(a, r, [GoTo("pointer") EXCEPT !.a = a, !.mem = r, !.pre = saHost], SaIdle)
  /\ UNCHANGED <<saHost, saFrozen, saPointer, saSent>> /\ KeepQueue

ActivatePointer ==
  /\ saRun.at = "pointer"
  /\ \/ saPointer' = saRun.a /\ saRun' = GoTo("preflight")
     \/ saPointer' \in {saPointer, saRun.a} /\ saRun' = SaIdle
  /\ UNCHANGED <<saHost, saReceipt, saFrozen, saSent>> /\ KeepQueue

(* What the checks of the host establish: preflight finds exactly the combined    *)
(* site; the writers of the OAuth state are stopped; each half of the split runs.   *)
SiteIsCombined ==
  saHost = [SaHost0 EXCEPT !.grants = saHost.grants, !.migrated = saHost.migrated]
WritersStopped == ~saHost.combined /\ ~saHost.auth
SaPublicGated == saHost.gate
RunningSplit == saHost.auth /\ saHost.edge
AuthReady == saHost.auth /\ saHost.boot = "split"
EdgeReady == RunningSplit /\ saHost.boot = "split"
SplitIsPublic == EdgeReady /\ saHost.split = 1..SaProxies /\ ~saHost.gate

Preflight ==
  /\ saRun.at = "preflight"
  /\ \/ /\ SiteIsCombined
        /\ saRun' = [GoTo("gate") EXCEPT !.gated = TRUE]
     \/ saRun' \in {Raised("Failed", saRun), Raised("Unknown", saRun)}
  /\ UNCHANGED <<saHost, saReceipt, saFrozen, saPointer, saSent>> /\ KeepQueue

(* A host operation that begins with the check ready: its effect and success, or  *)
(* an exception of one of the given kinds with the effect done or not.             *)
SaOperation(from, ready, done, to, kinds) ==
  /\ saRun.at = from
  /\ \/ ready /\ saHost' = done /\ saRun' = GoTo(to)
     \/ /\ saHost' \in IF ready THEN {saHost, done} ELSE {saHost}
        /\ \E k \in kinds : saRun' = Raised(k, saRun)
  /\ UNCHANGED <<saReceipt, saFrozen, saPointer, saSent>> /\ KeepQueue

(* The phase is recorded after its operation; an OSError is a definite failure.   *)
SaRecord(from, phase, to) ==
  /\ saRun.at = from
  /\ LET r == [saRun.mem EXCEPT !.phase = phase]
         run == [saRun EXCEPT !.phase = phase, !.mem = r]
     IN WriteReceipt(saRun.a, r, [run EXCEPT !.at = to], Raised("Failed", run))
  /\ UNCHANGED <<saHost, saFrozen, saPointer, saSent>> /\ KeepQueue

GateSite == SaOperation("gate", TRUE, [saHost EXCEPT !.gate = TRUE], "gated", {"Unknown"})
GateRecorded == SaRecord("gated", "GATED", "stop")
StopCombined ==
  SaOperation("stop", SaPublicGated, [saHost EXCEPT !.combined = FALSE], "stopped", {"Unknown"})
StopRecorded == SaRecord("stopped", "STOPPED", "effects")
ProveNoUnknownEffects == SaOperation("effects", TRUE, saHost, "cleared", {"Failed", "Unknown"})
EffectsRecorded == SaRecord("cleared", "EFFECTS_CLEAR", "copy")
(* Mutant: what is copied was read when the attempt began. *)
CopyStateSnapshot ==
  SaOperation("copy", TRUE, [saHost EXCEPT !.migrated = saRun.pre.grants], "copied", {"Failed"})
CopyState ==
  SaOperation("copy", WritersStopped, [saHost EXCEPT !.migrated = saHost.grants], "copied",
              {"Failed"})
CopyRecorded == SaRecord("copied", "STATE_COPIED", "install")
InstallSplit == SaOperation("install", TRUE, [saHost EXCEPT !.boot = "split"], "installed",
                            {"Failed", "Unknown"})
InstallRecorded == SaRecord("installed", "SPLIT_INSTALLED", "startAuth")
StartAuth == SaOperation("startAuth", TRUE, [saHost EXCEPT !.auth = TRUE], "authUp",
                         {"Failed", "Unknown"})
AuthRecorded == SaRecord("authUp", "AUTH_STARTED", "startEdge")
StartEdge == SaOperation("startEdge", AuthReady, [saHost EXCEPT !.edge = TRUE], "edgeUp",
                         {"Failed", "Unknown"})
EdgeRecorded == SaRecord("edgeUp", "EDGE_STARTED", "route")

(* transition_proxies: one proxy at a time, each read back. *)
NextProxy(rest) == CHOOSE p \in rest : \A q \in rest : p <= q
RouteSplit ==
  IF saHost.split = 1..SaProxies
  THEN SaOperation("route", TRUE, saHost, "routed", {})
  ELSE SaOperation("route", EdgeReady,
                   [saHost EXCEPT !.split = @ \cup {NextProxy(1..SaProxies \ saHost.split)}],
                   "route", {"Failed", "Unknown"})
RouteRecorded == SaRecord("routed", "SPLIT_ROUTED", "boundary")

(* The boundary is recorded before the ungate is sent; when that write fails the  *)
(* receipt remembers that nothing was sent.                                       *)
Boundary ==
  /\ saRun.at = "boundary"
  /\ LET r == [saRun.mem EXCEPT !.exposed = TRUE]
     IN WriteReceipt(saRun.a, r,
          [GoTo("ungate") EXCEPT !.mem = r, !.exposed = TRUE],
          Raised("Failed", [saRun EXCEPT !.mem = [r EXCEPT !.notSent = TRUE]]))
  /\ UNCHANGED <<saHost, saFrozen, saPointer, saSent>> /\ KeepQueue

UngateSplit ==
  /\ saRun.at = "ungate"
  /\ saSent' = saSent \cup {saRun.a}
  /\ \/ saHost' = [saHost EXCEPT !.gate = FALSE] /\ saRun' = GoTo("ungated")
     \/ saHost' \in {saHost, [saHost EXCEPT !.gate = FALSE]} /\ saRun' = Raised("Unknown", saRun)
  /\ UNCHANGED <<saReceipt, saFrozen, saPointer>> /\ KeepQueue

UngateRecorded ==
  /\ saRun.at = "ungated"
  /\ LET r == [saRun.mem EXCEPT !.phase = "UNGATED", !.confirmed = TRUE]
         run == [saRun EXCEPT !.phase = "UNGATED", !.mem = r]
     IN WriteReceipt(saRun.a, r, [run EXCEPT !.at = "public"], Raised("Failed", run))
  /\ UNCHANGED <<saHost, saFrozen, saPointer, saSent>> /\ KeepQueue

PublicReady ==
  /\ saRun.at = "public"
  /\ (SplitIsPublic /\ saRun' = GoTo("complete")) \/ saRun' = Raised("Unknown", saRun)
  /\ UNCHANGED <<saHost, saReceipt, saFrozen, saPointer, saSent>> /\ KeepQueue

(* PASS is written, then the pointer cleared; an OSError answers UNKNOWN. *)
Complete ==
  /\ saRun.at = "complete"
  /\ LET r == [saRun.mem EXCEPT !.phase = "COMPLETE", !.status = "PASS"]
     IN WriteReceipt(saRun.a, r, [GoTo("clear") EXCEPT !.back = "idle"], SaIdle)
  /\ UNCHANGED <<saHost, saFrozen, saPointer, saSent>> /\ KeepQueue

-----------------------------------------------------------------------------
(* The gate is put back when it was ever asked for; then UNKNOWN is reported. *)
RetainGate ==
  /\ saRun.at = "retain"
  /\ saHost' \in IF saRun.gated THEN {saHost, [saHost EXCEPT !.gate = TRUE]} ELSE {saHost}
  /\ saRun' = Reporting(saRun, saRun.phase, "UNKNOWN")
  /\ UNCHANGED <<saReceipt, saFrozen, saPointer, saSent>> /\ KeepQueue

(* A step of rollback_pre_exposure; any failure of it keeps the gate. *)
SaUndo(from, done, to) ==
  /\ saRun.at = from
  /\ \/ saHost' = done /\ saRun' = GoTo(to)
     \/ saHost' \in {saHost, done} /\ saRun' = GoTo("retain")
  /\ UNCHANGED <<saReceipt, saFrozen, saPointer, saSent>> /\ KeepQueue

(* It begins only behind the exact gate. *)
RollbackGate ==
  IF saHost.gate THEN SaUndo("rbGate", saHost, "rbStop")
  ELSE /\ saRun.at = "rbGate" /\ saRun' = GoTo("retain")
       /\ UNCHANGED <<saHost, saReceipt, saFrozen, saPointer, saSent>> /\ KeepQueue
RollbackStop == SaUndo("rbStop", [saHost EXCEPT !.edge = FALSE, !.auth = FALSE], "rbRoutes")
RollbackRoutes ==
  IF saHost.split = {} THEN SaUndo("rbRoutes", saHost, "rbBoot")
  ELSE SaUndo("rbRoutes", [saHost EXCEPT !.split = @ \ {NextProxy(saHost.split)}], "rbRoutes")
RollbackBoot == SaUndo("rbBoot", [saHost EXCEPT !.boot = "combined"], "rbStart")
(* The combined service is started and checked locally, then the site reopened  *)
(* and checked from outside.                                                    *)
RollbackStart == SaUndo("rbStart", [saHost EXCEPT !.combined = TRUE], "rbUngate")
RollbackUngate == SaUndo("rbUngate", [saHost EXCEPT !.gate = FALSE], "rbPublic")
RollbackPublic == SaUndo("rbPublic", saHost, "rolledBack")
RolledBack ==
  /\ saRun.at = "rolledBack"
  /\ saRun' = Reporting(saRun, "ROLLED_BACK", "FAIL")
  /\ UNCHANGED <<saHost, saReceipt, saFrozen, saPointer, saSent>> /\ KeepQueue

(* _finish_attempt: an OSError of the receipt is passed over; reconcile follows. *)
FinishAttempt ==
  /\ saRun.at = "finish"
  /\ saReceipt' \in {saReceipt, [saReceipt EXCEPT ![saRun.a] = saRun.mem]}
  /\ saRun' = [SaIdle EXCEPT !.at = "reconcile"]
  /\ UNCHANGED <<saHost, saFrozen, saPointer, saSent>> /\ KeepQueue

(* The command is killed; what it held in memory is gone. *)
SaKilled ==
  /\ saRun.at # "idle"
  /\ saRun' = SaIdle
  /\ UNCHANGED <<saHost, saReceipt, saFrozen, saPointer, saSent>> /\ KeepQueue

SaForward ==
  \/ ActivateReceipt \/ ActivatePointer \/ Preflight \/ GateSite \/ GateRecorded
  \/ StopCombined \/ StopRecorded \/ ProveNoUnknownEffects \/ EffectsRecorded \/ CopyState
  \/ CopyRecorded \/ InstallSplit \/ InstallRecorded \/ StartAuth \/ AuthRecorded \/ StartEdge
  \/ EdgeRecorded \/ RouteSplit \/ RouteRecorded \/ Boundary \/ UngateSplit \/ UngateRecorded
  \/ PublicReady \/ Complete
SaBackward ==
  \/ RetainGate \/ RollbackGate \/ RollbackStop \/ RollbackRoutes \/ RollbackBoot
  \/ RollbackStart \/ RollbackUngate \/ RollbackPublic \/ RolledBack \/ FinishAttempt
SaReconcile ==
  \/ \E back \in {"idle", "start"} : SaBegin(back)
  \/ Reconcile \/ SettleReceipt \/ Freeze \/ QueueEscape \/ ClearPointer

SaCommand == GrantWritten \/ SaForward \/ SaBackward \/ SaReconcile \/ SaKilled
SaNext ==
  \/ SaCommand
  \/ (\E l \in FailLaunches : LaunchSteps(l)) /\ UNCHANGED saOwnVars

SaSpec == SaInit /\ [][SaNext]_saVars

-----------------------------------------------------------------------------
(* An attempt whose ungate was sent, so that the split service may have been       *)
(* public, and that has no durable PASS is never forgotten: once the pointer no     *)
(* longer names it, its failure record is queued or in the journal.  The command    *)
(* may be killed, or a write fail, between any two steps of activate and of          *)
(* reconcile_attempt.                                                                *)
EscapeIsRecorded ==
  \A a \in saSent :
    saPointer # a =>
      \/ PassIsDurable(saReceipt[a])
      \/ \E r \in failFiles \cup failJournal : r.attempt = a

(* Reconciling the same attempt again never contradicts itself: the record it is     *)
(* about to queue is the one already queued or journaled, so no retry ends in        *)
(* CONFLICT, which would refuse every later activation.                              *)
EscapeNeverConflicts ==
  saRun.at = "queue" =>
    \A r \in saFrozen[saPointer] : EnqueueAnswer(r) = "PENDING_SYNC" /\ Journaled(r)

(* Whenever the gate is open the routes lead to services that run: all to the         *)
(* combined one or all to the split pair, through every failed step, interrupt and     *)
(* rollback of activate.                                                               *)
PublicIsServed ==
  ~saHost.gate => \/ saHost.split = {} /\ saHost.combined
                  \/ saHost.split = 1..SaProxies /\ saHost.auth /\ saHost.edge

(* A FAIL promises that nothing happened: services, routes, gate and start-up          *)
(* ownership are what they were before the attempt.                                    *)
FailLeavesSiteAsFound ==
  saRun.at = "finish" /\ saRun.mem.status = "FAIL" =>
    saHost = [saRun.pre EXCEPT !.grants = saHost.grants, !.migrated = saHost.migrated]

(* The split service is never public without a grant the combined one had issued.      *)
SplitKnowsEveryGrant ==
  ~saHost.gate /\ saHost.split # {} => saHost.migrated = saHost.grants

\* The public site through activation, rollback and crashes of the run: an open gate has
\* a complete stack behind it, a failed run undid its changes, and no grant is left behind.
SiteStaysServed ==
  PublicIsServed /\ FailLeavesSiteAsFound /\ SplitKnowsEveryGrant

\* Every activation that escaped its run is on record, and recording it never meets a
\* different record of the same attempt.
EscapesAreOnRecord == EscapeIsRecorded /\ EscapeNeverConflicts
=============================================================================
