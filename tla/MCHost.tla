------------------------------- MODULE MCHost -------------------------------
(***************************************************************************)
(* What runs on the host beside the edge: the three ways of changing it    *)
(* (the maintenance-window replacement, the one-command deployment, the    *)
(* split of the authorization service), the health monitor, the broker of  *)
(* agent leases, the Coordinator's workers and its checkout, the managed   *)
(* runs of a writer, the retirement of worktrees and what the product says *)
(* of its own currentness.  They share no variable: focus picks, in the    *)
(* initial state, the one that runs, so that the behaviours are those of   *)
(* the component specifications.                                           *)
(***************************************************************************)
EXTENDS EdgeMaintenance, EdgeDeploy, StableAuth, EdgeMonitor, AgentLeases,
        CoordinatorWorkers, CheckoutSync, WorktreeRetirement, WriterRuns,
        ProductCurrentness

VARIABLE focus

\* Workers and launchers are interchangeable and begin once each: one of them is the first.
FirstWorker == CHOOSE w \in Workers : TRUE
FirstLauncher == CHOOSE l \in WrLaunchers : TRUE

MCBodies == [proven: BOOLEAN, stamp: 1..2]
Up == [active |-> TRUE, http |-> "challenge", ingress |-> "challenge", canary |-> "ok"]
Selected == [selected |-> TRUE, enabled |-> TRUE, expected |-> TRUE]
MCServers ==
  {Selected, [Selected EXCEPT !.selected = FALSE], [Selected EXCEPT !.enabled = FALSE]}
MCObservations == {Up, [Up EXCEPT !.active = FALSE]}

Init ==
  /\ focus \in {"maintenance", "deploy", "auth", "escapes", "monitor", "leases", "workers", 
               "checkout", "worktrees", "runs", "currentness"}
  /\ EdgeInit /\ DeployInit /\ SaInit /\ MonInit /\ AlInit
  /\ CwInit /\ (focus = "workers" \/ cwWork = [s \in CwSpawns |-> CHOOSE w \in CwWorks : TRUE])
  /\ CsInit /\ (focus = "checkout" \/ csRemote = 1)
  /\ WtInit
  /\ WrInit /\ (focus = "runs" \/ wrStop = NotStopping)
  /\ CkInit
  /\ focus = "currentness" \/ (ckWho = "edge" /\ ckServer = Selected /\ ckStore \in CkReady)
  /\ focus = "maintenance" \/ edgeHost.schema = "before"

Maintenance ==
  /\ focus = "maintenance" /\ EdgeNext
  /\ UNCHANGED <<deployVars, saVars, monVars, alVars, cwVars, csVars, wtVars,
                 wrVars, ckVars>>

Deployment ==
  /\ focus = "deploy" /\ DeployNext
  /\ UNCHANGED <<edgeVars, saVars, monVars, alVars, cwVars, csVars, wtVars,
                 wrVars, ckVars>>

\* Two attempts of the command alone, and one attempt beside a launch that replays the queue.
Authentication ==
  /\ \/ focus = "auth" /\ SaCommand
     \/ focus = "escapes" /\ SaNext /\ \A a \in Activations \ {1} : saReceipt'[a] = SaBlank
  /\ UNCHANGED <<edgeVars, deployVars, monVars, alVars, cwVars, csVars, wtVars,
                 wrVars, ckVars>>

Monitoring ==
  /\ focus = "monitor" /\ MonNext
  /\ UNCHANGED <<edgeVars, deployVars, saVars, alVars, cwVars, csVars, wtVars,
                 wrVars, ckVars>>

Leasing ==
  /\ focus = "leases" /\ AlNext
  /\ alLeases'[FirstWorker] = NoLease => \A w \in Workers : alLeases'[w] = NoLease
  /\ UNCHANGED <<edgeVars, deployVars, saVars, monVars, cwVars, csVars, wtVars,
                 wrVars, ckVars>>

Working ==
  /\ focus = "workers" /\ CwNext
  /\ UNCHANGED <<edgeVars, deployVars, saVars, monVars, alVars, csVars, wtVars,
                 wrVars, ckVars>>

Synchronizing ==
  /\ focus = "checkout" /\ CsNext
  /\ UNCHANGED <<edgeVars, deployVars, saVars, monVars, alVars, cwVars, wtVars,
                 wrVars, ckVars>>

Retiring ==
  /\ focus = "worktrees" /\ WtNext
  /\ UNCHANGED <<edgeVars, deployVars, saVars, monVars, alVars, cwVars, csVars,
                 wrVars, ckVars>>

Launching ==
  /\ focus = "runs" /\ WrNext
  /\ wrProc'[FirstLauncher].at = "new" => \A l \in WrLaunchers : wrProc'[l].at = "new"
  /\ UNCHANGED <<edgeVars, deployVars, saVars, monVars, alVars, cwVars, csVars, wtVars,
                 ckVars>>

Reconciling ==
  /\ focus = "currentness" /\ CkNext
  /\ UNCHANGED <<edgeVars, deployVars, saVars, monVars, alVars, cwVars, csVars, wtVars,
                 wrVars>>

Next ==
  /\ Maintenance \/ Deployment \/ Authentication \/ Monitoring \/ Leasing \/ Working
     \/ Synchronizing \/ Retiring \/ Launching \/ Reconciling
  /\ UNCHANGED focus

Spec == Init /\ [][Next]_<<focus, edgeVars, deployVars, saVars, monVars, alVars, cwVars, csVars,
                           wtVars, wrVars, ckVars>>
=============================================================================
