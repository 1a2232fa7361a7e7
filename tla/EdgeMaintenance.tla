--------------------------- MODULE EdgeMaintenance ---------------------------
(***************************************************************************)
(* The maintenance-window replacement of the edge (edge_maintenance.py): one *)
(* attempt that gates the public routes, stops the service, upgrades the      *)
(* shared state, swaps the launcher, starts and verifies the candidate and    *)
(* removes the gate.  The receipt on disk records the phase reached; an       *)
(* attempt may fail, lose track of an effect or die anywhere and be resumed.  *)
(*                                                                          *)
(* An operation on the host and the receipt written after it are one action   *)
(* with several outcomes (recorded; done but not recorded; refused; unknown;  *)
(* dead), since nothing else changes the host in between.                     *)
(***************************************************************************)
EXTENDS Naturals

VARIABLES
  edgeReceipt,   \* receipt.json, or NoReceipt
  edgeHost,      \* what the host is really like
  edgeProc       \* the running tool: where it is and its in-memory receipt

edgeVars == <<edgeReceipt, edgeHost, edgeProc>>

BeforeStop == {"PREFLIGHT", "PREPARED", "GATED"}
AfterSwap == {"SWAPPED", "STARTED", "UNGATED"}
EdgePhases == BeforeStop \cup AfterSwap \cup
  {"STOPPED", "UPGRADE_PENDING", "UPGRADED", "SNAPSHOTTED", "COMPLETE",
   "ROLLED_BACK", "NO_EFFECT"}
UpgradeStates == {"NOT_STARTED", "PENDING", "NO_EFFECT", "APPLIED"}
EdgeMemory == [phase: EdgePhases, upgrade: UpgradeStates, image: BOOLEAN,
               snap: BOOLEAN, probed: BOOLEAN]
EdgeReceipts == [phase: EdgePhases, status: {"none", "RUNNING", "UNKNOWN", "PASS", "FAIL"},
                 error: {"none", "GateAbortUnknown", "GateRetentionUnknown", "other"},
                 mem: EdgeMemory]
EdgeHosts == [gate: BOOLEAN, service: {"old", "new", "down"}, launcher: {"old", "new"},
              backup: BOOLEAN, snapshot: BOOLEAN, schema: {"before", "after"},
              upgrader: {"idle", "running"}, upgrades: 0..2]
EdgeSteps == {"idle", "preflight", "prepare", "deploy", "upgrade", "verify", "semantic",
              "ungate", "public", "abort", "unknown", "rollback", "rbStop", "rbRestore",
              "rbStart", "rbUngate", "rbSave", "rbUnknown"}

FreshMemory == [phase |-> "PREFLIGHT", upgrade |-> "NOT_STARTED", image |-> FALSE,
                snap |-> FALSE, probed |-> FALSE]
NoReceipt == [phase |-> "PREFLIGHT", status |-> "none", error |-> "none", mem |-> FreshMemory]
EdgeIdle == [at |-> "idle", mem |-> FreshMemory, attempted |-> FALSE,
             retained |-> FALSE, prepared |-> "PREPARED"]

(* Receipt.write: the in-memory value with its phase, status and error. *)
EdgeSave(mem, phase, status, error) ==
  edgeReceipt' = [phase |-> phase, status |-> status, error |-> error,
                  mem |-> [mem EXCEPT !.phase = phase]]

EdgeGoto(at) == [edgeProc EXCEPT !.at = at]
Reach(phase) == [edgeProc.mem EXCEPT !.phase = phase]

(* One operation of Operations followed by receipt.write of the phase in mem: *)
(* done and recorded; done and not recorded, by an error or an interrupt;     *)
(* raised Failed or an OSError, or Unknown; or the tool died.  left holds   *)
(* the hosts an operation that did not return may leave behind.               *)
Perform(at, mem, done, left) ==
  \/ /\ edgeHost' = done
     /\ edgeProc' = [edgeProc EXCEPT !.at = at, !.mem = mem]
     /\ EdgeSave(mem, mem.phase, "RUNNING", "none")
  \/ /\ edgeHost' = done
     /\ \E handler \in {"rollback", "unknown"} :
          edgeProc' = [edgeProc EXCEPT !.at = handler, !.mem = mem]
     /\ UNCHANGED edgeReceipt
  \/ /\ edgeHost' \in left
     /\ edgeProc' \in {EdgeGoto("rollback"), EdgeGoto("unknown")}
     /\ UNCHANGED edgeReceipt
  \/ /\ edgeHost' \in left \cup {done}
     /\ edgeProc' = EdgeIdle
     /\ UNCHANGED edgeReceipt

(* A readiness probe: it passes only when ok holds, and may fail at any time.  *)
Probe(ok, at, failed) ==
  /\ (ok /\ edgeProc' = EdgeGoto(at)) \/ edgeProc' = EdgeGoto(failed)
  /\ UNCHANGED <<edgeHost, edgeReceipt>>

-----------------------------------------------------------------------------
(* deploy without a receipt, preflight and the public readiness of the edge.  *)
EdgeBegin ==
  /\ edgeReceipt = NoReceipt /\ edgeProc.at = "idle"
  /\ EdgeSave(FreshMemory, "PREFLIGHT", "RUNNING", "none")
  /\ edgeProc' = [EdgeIdle EXCEPT !.at = "preflight"]
  /\ UNCHANGED edgeHost

(* What each check of the host establishes when it succeeds. *)
GateExact == edgeHost.gate
PublicGated == edgeHost.gate
RunningExact(runtime) == edgeHost.service = runtime
CurrentPublicReady == RunningExact("old") /\ ~GateExact
OldRuntimeReady == RunningExact("old") /\ edgeHost.launcher = "old"
LocalReady == RunningExact("new") /\ edgeHost.launcher = "new"
PublicReadyEdge == LocalReady /\ ~edgeHost.gate

EdgePreflight ==
  /\ edgeProc.at = "preflight"
  /\ \E failed \in {"rollback", "unknown"} : Probe(CurrentPublicReady, "deploy", failed)

(* prepare_state: the migration image is built while the old edge serves; a    *)
(* resumed PREPARED attempt builds it again before it goes on.                 *)
EdgePrepare ==
  /\ \/ edgeProc.at = "deploy" /\ edgeProc.mem.phase = "PREFLIGHT"
     \/ edgeProc.at = "prepare"
  /\ LET phase == IF edgeProc.at = "prepare" THEN edgeProc.prepared ELSE "PREPARED"
     IN  Perform("deploy", [Reach(phase) EXCEPT !.image = TRUE], edgeHost, {edgeHost})

(* gate: PUT of the route and its readback. *)
EdgeGate ==
  /\ edgeProc.at = "deploy" /\ edgeProc.mem.phase = "PREPARED"
  /\ LET gated == [edgeHost EXCEPT !.gate = TRUE]
         tried == [edgeProc EXCEPT !.attempted = TRUE]
     IN  \/ /\ edgeHost' = gated
            /\ \/ /\ edgeProc' = [tried EXCEPT !.mem.phase = "GATED"]
                  /\ EdgeSave(edgeProc.mem, "GATED", "RUNNING", "none")
               \/ /\ edgeProc' = [tried EXCEPT !.mem.phase = "GATED", !.at = "rollback"]
                  /\ UNCHANGED edgeReceipt
         \/ /\ edgeHost' \in {edgeHost, gated}
            /\ edgeProc' \in {[tried EXCEPT !.at = "unknown"], EdgeIdle}
            /\ UNCHANGED edgeReceipt
         \/ /\ edgeProc' = [tried EXCEPT !.at = "rollback"]
            /\ UNCHANGED <<edgeHost, edgeReceipt>>

(* The gate is proven from outside before the service is stopped; otherwise, or *)
(* without a prepared image, the gate is taken away again.                      *)
EdgeStop ==
  /\ edgeProc.at = "deploy" /\ edgeProc.mem.phase = "GATED"
  /\ \/ /\ edgeProc' = EdgeGoto("abort")
        /\ UNCHANGED <<edgeHost, edgeReceipt>>
     \/ /\ edgeProc.mem.image /\ PublicGated
        /\ LET down == [edgeHost EXCEPT !.service = "down"]
           IN  Perform("deploy", Reach("STOPPED"), down, {edgeHost, down})

(* UPGRADE_PENDING is on disk before the command that cannot be undone runs.   *)
EdgeAnnounceUpgrade ==
  /\ edgeProc.at = "deploy" /\ edgeProc.mem.phase = "STOPPED"
  /\ Perform("upgrade", [Reach("UPGRADE_PENDING") EXCEPT !.upgrade = "PENDING"],
             edgeHost, {})

(* The one line of output that upgrade_state accepts. *)
UpgradeResult(h) == IF h.schema = "after" THEN "NO_EFFECT" ELSE "APPLIED"

(* The service is stopped behind the gate. *)
Offline == GateExact /\ edgeHost.service = "down"

(* upgrade_state: the boundary is proven again and the upgrader is started.  It *)
(* reports whether it changed anything; if the tool dies or gives up, the       *)
(* upgrader may be still at work, holding its own lock.                         *)
EdgeUpgrade ==
  /\ edgeProc.at = "upgrade"
  /\ LET ran == [edgeHost EXCEPT !.upgrades = @ + 1]
         after == [ran EXCEPT !.schema = "after"]
     IN  \/ /\ Offline
            /\ Perform("deploy", [Reach("UPGRADED") EXCEPT !.upgrade = UpgradeResult(edgeHost)],
                       after, {ran, after, [ran EXCEPT !.upgrader = "running"]})
         \/ /\ edgeProc' = EdgeGoto("unknown")
            /\ UNCHANGED <<edgeHost, edgeReceipt>>

EdgeUpgraderEnds ==   \* the upgrader that outlived the tool
  /\ edgeHost.upgrader = "running"
  /\ \E s \in {edgeHost.schema, "after"} :
       edgeHost' = [edgeHost EXCEPT !.upgrader = "idle", !.schema = s]
  /\ UNCHANGED <<edgeReceipt, edgeProc>>

EdgeSnapshot ==
  /\ edgeProc.at = "deploy" /\ edgeProc.mem.phase = "UPGRADED"
  /\ LET taken == [edgeHost EXCEPT !.snapshot = TRUE]
     IN  Perform("deploy", [Reach("SNAPSHOTTED") EXCEPT !.snap = TRUE], taken,
                 {edgeHost, taken})

(* swap: the launcher is copied aside and then replaced. *)
EdgeSwap ==
  /\ edgeProc.at = "deploy" /\ edgeProc.mem.phase = "SNAPSHOTTED"
  /\ LET aside == [edgeHost EXCEPT !.backup = TRUE]
         swapped == [aside EXCEPT !.launcher = "new"]
     IN  Perform("deploy", Reach("SWAPPED"), swapped, {edgeHost, aside, swapped})

EdgeStart ==
  /\ edgeProc.at = "deploy" /\ edgeProc.mem.phase = "SWAPPED"
  /\ LET up == [edgeHost EXCEPT !.service = edgeHost.launcher]
     IN  Perform("verify", Reach("STARTED"), up, {edgeHost, up})

(* local_ready, for the attempt that has started the candidate and for the one  *)
(* that is resumed past it.                                                    *)
EdgeVerify ==
  /\ \/ edgeProc.at = "verify"
     \/ edgeProc.at = "deploy" /\ edgeProc.mem.phase \in {"STARTED", "UNGATED"}
  /\ \E failed \in {"rollback", "unknown"} :
       Probe(LocalReady, IF edgeProc.mem.upgrade = "NO_EFFECT" THEN "semantic" ELSE "ungate",
             failed)

SemanticBoundary == GateExact /\ PublicGated

(* semantic_ready: only behind the gate; its digest is bound to the receipt, and *)
(* a later proof must have the same one.                                         *)
EdgeSemantic ==
  /\ edgeProc.at = "semantic"
  /\ \/ /\ SemanticBoundary /\ ~edgeProc.mem.probed
        /\ Perform("ungate", [edgeProc.mem EXCEPT !.probed = TRUE], edgeHost, {edgeHost})
     \/ SemanticBoundary /\ edgeProc.mem.probed /\ Probe(TRUE, "ungate", "rollback")
     \/ Probe(FALSE, "ungate", "unknown")

EdgeUngate ==
  /\ edgeProc.at = "ungate"
  /\ LET open == [edgeHost EXCEPT !.gate = FALSE]
     IN  \/ /\ edgeProc.mem.phase = "STARTED" \/ edgeProc.retained
            /\ \/ SemanticBoundary /\ Perform("public", Reach("UNGATED"), open, {edgeHost, open})
               \/ Probe(FALSE, "public", "unknown")
         \/ /\ edgeProc.mem.phase # "STARTED" /\ ~edgeProc.retained
            /\ Probe(TRUE, "public", "unknown")

EdgePublic ==
  /\ edgeProc.at = "public"
  /\ \/ /\ PublicReadyEdge
        /\ EdgeSave(edgeProc.mem, "COMPLETE", "PASS", "none")
        /\ edgeProc' = EdgeIdle
     \/ /\ edgeProc' \in {EdgeGoto("rollback"), EdgeGoto("unknown"), EdgeIdle}
        /\ UNCHANGED edgeReceipt
  /\ UNCHANGED edgeHost

-----------------------------------------------------------------------------
(* abort_unproved_gate: the old service was never stopped, so the gate is taken *)
(* away once the old runtime is proven; what cannot be proven is left alone.    *)
EdgeAbort ==
  /\ edgeProc.at = "abort"
  /\ LET open == [edgeHost EXCEPT !.gate = FALSE]
         ready == edgeProc.mem.upgrade = "NOT_STARTED" /\ OldRuntimeReady
     IN  \/ /\ ready /\ edgeHost' = open
            /\ EdgeSave(edgeProc.mem, "ROLLED_BACK", "FAIL", "other")
         \/ /\ edgeHost' \in IF ready THEN {edgeHost, open} ELSE {edgeHost}
            /\ EdgeSave(edgeProc.mem, "GATED", "UNKNOWN", "GateAbortUnknown")
         \/ /\ edgeHost' \in IF ready THEN {edgeHost, open} ELSE {edgeHost}
            /\ UNCHANGED edgeReceipt
  /\ edgeProc' = EdgeIdle

(* retain_gate, and the receipt that says whether the gate could be proven. *)
EdgeRetainGate(error) ==
  LET gated == [edgeHost EXCEPT !.gate = TRUE]
  IN  \/ edgeHost' = gated /\ EdgeSave(edgeProc.mem, edgeProc.mem.phase, "UNKNOWN", error)
      \/ /\ edgeHost' \in {edgeHost, gated}
         /\ EdgeSave(edgeProc.mem, edgeProc.mem.phase, "UNKNOWN", "GateRetentionUnknown")
      \/ edgeHost' \in {edgeHost, gated} /\ UNCHANGED edgeReceipt

(* deploy's handlers of Unknown and of a rollback that could not be proven.    *)
EdgeUnknown ==
  /\ edgeProc.at \in {"unknown", "rbUnknown"}
  /\ edgeProc' = EdgeIdle
  /\ IF edgeProc.attempted \/ edgeProc.at = "rbUnknown"
     THEN EdgeRetainGate("other")
     ELSE /\ UNCHANGED edgeHost
          /\ \/ EdgeSave(edgeProc.mem, edgeProc.mem.phase, "UNKNOWN", "other")
             \/ UNCHANGED edgeReceipt

(* One operation of the rollback: done, unproven, or the tool died. *)
Undo(done, proven, at) ==
  /\ \/ edgeHost' = done /\ proven /\ edgeProc' = EdgeGoto(at)
     \/ edgeHost' \in {edgeHost, done} /\ edgeProc' \in {EdgeGoto("rbUnknown"), EdgeIdle}
  /\ UNCHANGED edgeReceipt

(* deploy's handler of a definite failure: nothing is undone once the upgrade    *)
(* may have run without its result; a public candidate is gated first.          *)
EdgeRollback ==
  /\ edgeProc.at = "rollback"
  /\ LET phase == edgeProc.mem.phase
         next == CASE phase \in AfterSwap -> "rbStop"
                   [] phase \in {"STOPPED", "UPGRADED", "SNAPSHOTTED"} -> "rbStart"
                   [] phase = "PREFLIGHT" -> "rbSave"
                   [] OTHER -> "rbUngate"
     IN  IF edgeProc.mem.upgrade = "PENDING"
         THEN edgeProc' = EdgeGoto("rbUnknown") /\ UNCHANGED <<edgeHost, edgeReceipt>>
         ELSE IF phase = "UNGATED" THEN Undo([edgeHost EXCEPT !.gate = TRUE], TRUE, next)
         ELSE edgeProc' = EdgeGoto(next) /\ UNCHANGED <<edgeHost, edgeReceipt>>

EdgeRollbackStop ==
  edgeProc.at = "rbStop" /\ Undo([edgeHost EXCEPT !.service = "down"], TRUE, "rbRestore")

EdgeRestoreLauncher ==
  edgeProc.at = "rbRestore" /\ Undo([edgeHost EXCEPT !.launcher = "old"], TRUE, "rbStart")

EdgeRollbackStart ==
  /\ edgeProc.at = "rbStart"
  /\ LET up == [edgeHost EXCEPT !.service = edgeHost.launcher]
     IN  Undo(up, up.service = "old", "rbUngate")

EdgeRollbackUngate ==
  /\ edgeProc.at = "rbUngate"
  /\ Undo([edgeHost EXCEPT !.gate = FALSE], OldRuntimeReady, "rbSave")

EdgeRollbackSave ==
  /\ edgeProc.at = "rbSave"
  /\ \/ EdgeSave(edgeProc.mem, "ROLLED_BACK", "FAIL", "other")
     \/ UNCHANGED edgeReceipt
  /\ edgeProc' = EdgeIdle
  /\ UNCHANGED edgeHost

-----------------------------------------------------------------------------
(* Mutant: an interrupted upgrade is taken for one that has not run. *)
ReconciledRerun(r) ==
  LET h == edgeHost IN
  IF r.phase \in {"STOPPED", "UPGRADE_PENDING"} /\ h.gate /\ h.service = "down"
  THEN {"STOPPED"} ELSE {}

(* reconcile_phase: the phase the host shows, which is the recorded one or the   *)
(* next; the empty set when neither can be proven.                               *)
Reconciled(r) ==
  LET h == edgeHost
      untouched == h.launcher = "old" /\ ~h.backup
      candidate == h.launcher = "new" /\ h.backup
  IN  CASE r.phase \in {"PREFLIGHT", "PREPARED"} ->
             IF untouched /\ ~h.snapshot /\ h.service # "down"
             THEN {IF h.gate THEN "GATED" ELSE r.phase} ELSE {}
        [] r.phase = "GATED" ->
             IF untouched /\ h.gate THEN {IF h.service = "down" THEN "STOPPED" ELSE "GATED"}
             ELSE {}
        [] r.phase = "STOPPED" ->
             IF untouched /\ Offline /\ ~h.snapshot THEN {"STOPPED"} ELSE {}
        [] r.phase = "UPGRADED" ->
             IF Offline THEN {IF h.snapshot THEN "SNAPSHOTTED" ELSE "UPGRADED"} ELSE {}
        [] r.phase = "SNAPSHOTTED" ->
             IF ~Offline THEN {}
             ELSE IF candidate THEN {"SWAPPED"}
             ELSE IF untouched THEN {"SNAPSHOTTED"} ELSE {}
        [] r.phase = "SWAPPED" ->
             IF ~(h.gate /\ candidate) THEN {}
             ELSE IF h.service = "down" THEN {"SWAPPED"}
             ELSE IF h.service = "new" THEN {"STARTED"} ELSE {}
        [] r.phase \in {"STARTED", "UNGATED"} ->
             IF candidate /\ h.service = "new"
             THEN {IF r.phase = "STARTED" /\ ~h.gate THEN "UNGATED" ELSE r.phase} ELSE {}
        [] OTHER -> {}

(* validate_resume refuses what the receipt's digests do not vouch for, and an     *)
(* observation may fail: the attempt stays UNKNOWN.                                 *)
ResumeUntrusted(resumed) ==
  edgeProc' = [resumed EXCEPT !.at = "unknown"] /\ UNCHANGED edgeReceipt

(* --resume: the receipt is read back, reconciled with the host and gone on from. *)
EdgeResume ==
  /\ edgeProc.at = "idle"
  /\ edgeReceipt.status \in {"RUNNING", "UNKNOWN"}
  /\ LET r == edgeReceipt
         resumed == [EdgeIdle EXCEPT !.mem = r.mem,
                                     !.attempted = r.phase \notin {"PREFLIGHT", "PREPARED"}]
     IN  IF r.phase = "GATED" /\ r.error = "GateAbortUnknown"
         THEN edgeProc' = [resumed EXCEPT !.at = "abort"] /\ UNCHANGED edgeReceipt
         ELSE \/ ResumeUntrusted(resumed)
              \/ \E seen \in Reconciled(r) :
                   LET p == [resumed EXCEPT
                               !.at = "deploy",
                               !.mem.phase = seen,
                               !.mem.snap = @ \/ seen = "SNAPSHOTTED",
                               !.attempted = seen \notin {"PREFLIGHT", "PREPARED"},
                               !.retained = r.phase = "UNGATED" /\ edgeHost.gate]
                   IN  IF r.phase = "PREPARED"
                       THEN /\ edgeProc' = [p EXCEPT !.at = "prepare", !.prepared = seen,
                                                     !.mem.phase = "PREPARED"]
                            /\ UNCHANGED edgeReceipt
                       ELSE IF seen = r.phase THEN edgeProc' = p /\ UNCHANGED edgeReceipt
                       ELSE /\ edgeProc' = p
                            /\ EdgeSave(p.mem, seen, "RUNNING", "none")
  /\ UNCHANGED edgeHost

(* After an ambiguous upgrade the operator brings the old edge back by hand. *)
EdgeOperatorRestores ==
  /\ edgeProc.at = "idle"
  /\ edgeReceipt.phase = "UPGRADE_PENDING" /\ edgeReceipt.status = "UNKNOWN"
  /\ edgeHost.service = "down"
  /\ edgeHost' = [edgeHost EXCEPT !.gate = FALSE, !.service = edgeHost.launcher]
  /\ UNCHANGED <<edgeReceipt, edgeProc>>

(* prove_upgrade_no_effect, with the upgrader's lock held: everything is as the   *)
(* attempt found it.                                                             *)
NoEffectProven ==
  /\ edgeHost.upgrader = "idle"
  /\ edgeHost.launcher = "old" /\ ~edgeHost.backup /\ ~edgeHost.snapshot
  /\ CurrentPublicReady /\ edgeHost.schema = "before"

(* recover_upgrade_no_effect, with prove_upgrade_no_effect, under both locks.  *)
EdgeRecoverNoEffect ==
  /\ edgeProc.at = "idle"
  /\ edgeReceipt.phase = "UPGRADE_PENDING" /\ edgeReceipt.status = "UNKNOWN"
  /\ NoEffectProven
  /\ EdgeSave([edgeReceipt.mem EXCEPT !.upgrade = "NOT_STARTED"], "NO_EFFECT", "FAIL", "other")
  /\ UNCHANGED <<edgeHost, edgeProc>>

-----------------------------------------------------------------------------
EdgeInit ==
  /\ edgeReceipt = NoReceipt
  /\ edgeProc = EdgeIdle
  /\ edgeHost \in {h \in EdgeHosts :
       /\ ~h.gate /\ h.service = "old" /\ h.launcher = "old" /\ ~h.backup /\ ~h.snapshot
       /\ h.upgrader = "idle" /\ h.upgrades = 0}

EdgeNext ==
  \/ EdgeBegin \/ EdgePreflight \/ EdgePrepare \/ EdgeGate \/ EdgeStop
  \/ EdgeAnnounceUpgrade \/ EdgeUpgrade \/ EdgeUpgraderEnds \/ EdgeSnapshot
  \/ EdgeSwap \/ EdgeStart \/ EdgeVerify \/ EdgeSemantic \/ EdgeUngate \/ EdgePublic
  \/ EdgeAbort \/ EdgeUnknown \/ EdgeRollback \/ EdgeRollbackStop \/ EdgeRestoreLauncher
  \/ EdgeRollbackStart \/ EdgeRollbackUngate \/ EdgeRollbackSave
  \/ EdgeResume \/ EdgeOperatorRestores \/ EdgeRecoverNoEffect

EdgeSpec == EdgeInit /\ [][EdgeNext]_edgeVars

-----------------------------------------------------------------------------
(* The receipt, the host and the tool hold values of their types. *)
EdgeTypeOK ==
  /\ edgeReceipt \in EdgeReceipts
  /\ edgeHost \in EdgeHosts
  /\ edgeProc \in [at: EdgeSteps, mem: EdgeMemory, attempted: BOOLEAN,
                   retained: BOOLEAN, prepared: EdgePhases]

(* The forward-only state upgrade is started at most once in an attempt, however *)
(* often the attempt dies and is resumed, and its effect is never written off: a *)
(* NO_EFFECT receipt stays true when an upgrader outlived the tool.              *)
UpgradeIsNeverRepeated ==
  /\ edgeHost.upgrades <= 1
  /\ edgeReceipt.phase = "NO_EFFECT" =>
       edgeHost.upgrader = "idle" /\ edgeHost.schema = "before"

(* What a terminal receipt says is what the host serves: PASS is the candidate,  *)
(* public, with the old launcher and state kept aside; FAIL is the old edge,     *)
(* public, with its own launcher.                                               *)
VerdictMatchesHost ==
  /\ edgeReceipt.status = "PASS" =>
       /\ edgeHost.service = "new" /\ edgeHost.launcher = "new" /\ ~edgeHost.gate
       /\ edgeHost.backup /\ edgeHost.snapshot
  /\ edgeReceipt.status = "FAIL" =>
       edgeHost.service = "old" /\ edgeHost.launcher = "old" /\ ~edgeHost.gate

(* The candidate is never public before it was started, verified and, when the   *)
(* schema was current, probed, whatever died, was undone or was resumed before.    *)
CandidateIsPublicOnlyWhenProven ==
  (edgeHost.service = "new" /\ ~edgeHost.gate) =>
     /\ edgeReceipt.phase \in {"STARTED", "UNGATED", "COMPLETE"}
     /\ edgeReceipt.mem.upgrade = "NO_EFFECT" => edgeReceipt.mem.probed
     /\ edgeHost.launcher = "new" /\ edgeHost.backup /\ edgeHost.snapshot

\* What a maintenance run may come to wherever it is killed, resumed or rolled back.
MaintenanceIsSound ==
  EdgeTypeOK /\ UpgradeIsNeverRepeated /\ VerdictMatchesHost /\ CandidateIsPublicOnlyWhenProven
=============================================================================
