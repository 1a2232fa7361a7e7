----------------------------- MODULE AgentLeases -----------------------------
(***************************************************************************)
(* Leases of agent workers (agent_broker.py), their launches              *)
(* (managed_launch.py) and their execution as systemd units               *)
(* (agent_executor.py).  A launcher reserves budget, seals a manifest,    *)
(* attaches the attempt to the reservation and starts a unit; it can die, *)
(* time out, or fail to stop the unit at every step.  Recovery reads the  *)
(* receipt and the runtime first and releases the lease later.  Workers   *)
(* with a child budget reserve leases below their own.                    *)
(***************************************************************************)
EXTENDS Naturals, FiniteSets

CONSTANTS
  Workers,        \* worker ids, each requested once
  RootBudget,     \* budget of the root
  Shares,         \* budgets a worker may ask for on behalf of its children
  MaxBoots        \* bound on reboots

VARIABLES
  alLeases,       \* state.json: worker -> state, parent, children, boot, expired
  alManifests,    \* prepared-launches: workers with a sealed manifest
  alReceipts,     \* executions/*/status.json
  alUnits,        \* systemd units
  alLaunchers,    \* worker -> step of the process that launches it
  alRecovery,     \* the recovery under way and what it read
  alBoot          \* boot id

alVars == <<alLeases, alManifests, alReceipts, alUnits, alLaunchers, alRecovery, alBoot>>

TheRoot == "root"
Own == 1          \* what a worker of the class uses itself
NoRecovery == [kind |-> "none"]
NoLease == [state |-> "none", parent |-> TheRoot, children |-> 0, boot |-> 0, expired |-> FALSE]

ASSUME LeaseConstants ==
  /\ RootBudget \in Nat /\ MaxBoots \in Nat /\ Shares \subseteq Nat
  /\ TheRoot \notin Workers

AlInit ==
  /\ alLeases = [w \in Workers |-> NoLease]
  /\ alManifests = {}
  /\ alReceipts = [w \in Workers |-> "none"]
  /\ alUnits = [w \in Workers |-> "absent"]
  /\ alLaunchers = [w \in Workers |-> "idle"]
  /\ alRecovery = NoRecovery
  /\ alBoot = 1

-----------------------------------------------------------------------------
(* The broker.  Every operation holds the broker lock.                    *)

Active(w) == alLeases[w].state \in {"reserved", "execution_active"}
Total(w) == Own + alLeases[w].children
ChildrenOf(p) == {w \in Workers : Active(w) /\ alLeases[w].parent = p}
UnitsOf(p) == UNION {{w} \X (1..Total(w)) : w \in ChildrenOf(p)}   \* unit by unit
UsedBy(p) == Cardinality(UnitsOf(p))
Limit(p) == IF p = TheRoot THEN RootBudget ELSE alLeases[p].children

\* Admission by pressure: memory free now must cover what the root leases
\* reserved and, for a root lease, what this one asks for.
Refusal(p, share, free) == free < UsedBy(TheRoot) + (IF p = TheRoot THEN Own + share ELSE 0)

\* _reserve: the parent's active leases and this one fit its budget.
Fits(p, share) == UsedBy(p) + Own + share <= Limit(p)

\* reserve: the answer to a request id, refusals too, is recorded for good.
AlReserve(w, p, share, free) ==
  /\ alLeases[w].state = "none" /\ alLaunchers[w] = "idle"
  /\ p \in {TheRoot} \cup {q \in Workers : Active(q)}
  /\ alLeases' = [alLeases EXCEPT ![w] =
       [state |-> IF Refusal(p, share, free) \/ ~Fits(p, share) THEN "refused" ELSE "reserved",
        parent |-> p, children |-> share, boot |-> alBoot, expired |-> FALSE]]
  /\ alLaunchers' = [alLaunchers EXCEPT ![w] =
       IF alLeases'[w].state = "reserved" THEN "reserved" ELSE "done"]
  /\ UNCHANGED <<alManifests, alReceipts, alUnits, alRecovery, alBoot>>

\* The time to live of a reservation or of a claim passes.
AlExpire(w) ==
  /\ Active(w) /\ ~alLeases[w].expired
  /\ alLeases' = [alLeases EXCEPT ![w].expired = TRUE]
  /\ UNCHANGED <<alManifests, alReceipts, alUnits, alLaunchers, alRecovery, alBoot>>

SameBoot(w) == alLeases[w].boot = alBoot
Childless(w) == ChildrenOf(w) = {}
ReleaseTo(w, state) == alLeases' = [alLeases EXCEPT ![w].state = state]

TerminalIsEnough(terminal, empty) == terminal

\* Positive proof that nothing of the attempt is left.
Proven(terminal, empty) == terminal /\ empty

\* reconcile_execution.
Releasable(w, started, proof, mustExpire) ==
  /\ alLeases[w].state = "execution_active" /\ SameBoot(w)
  /\ \/ ~started /\ alLeases[w].expired
     \/ Proven(proof.terminal, proof.empty) /\ (mustExpire => alLeases[w].expired)
  /\ Childless(w)

\* reconcile_reservation.
ReservationReleasable(w, absent, mustExpire) ==
  /\ alLeases[w].state = "reserved" /\ SameBoot(w)
  /\ absent /\ (mustExpire => alLeases[w].expired)
  /\ Childless(w)

-----------------------------------------------------------------------------
(* systemd.                                                               *)

\* runtime_proof: a unit whose control group is gone, or that never was,
\* proves nothing.
RuntimeProof(w) ==
  [terminal |-> alUnits[w] \in {"absent", "lingering", "ended", "gone"},
   empty |-> alUnits[w] = "ended"]

UnitSteps ==
  {<<"starting", "running">>, <<"starting", "gone">>, <<"running", "ended">>,
   <<"running", "lingering">>, <<"lingering", "ended">>, <<"ended", "gone">>}

AlUnit(w) ==
  \E step \in UnitSteps :
    /\ alUnits[w] = step[1] /\ alUnits' = [alUnits EXCEPT ![w] = step[2]]
    /\ UNCHANGED <<alLeases, alManifests, alReceipts, alLaunchers, alRecovery, alBoot>>

-----------------------------------------------------------------------------
(* The launcher and its executor.                                         *)

Goes(w, step) == alLaunchers' = [alLaunchers EXCEPT ![w] = step]
Receipt(w, state) == alReceipts' = [alReceipts EXCEPT ![w] = state]

\* PreparedLaunchStore.prepare for a managed parent; a leaf needs none.
AlPrepare(w) ==
  /\ alLaunchers[w] = "reserved" /\ alLeases[w].state = "reserved"
  /\ alManifests' = IF alLeases[w].parent = TheRoot THEN alManifests \cup {w} ELSE alManifests
  /\ Goes(w, "prepared")
  /\ UNCHANGED <<alLeases, alReceipts, alUnits, alRecovery, alBoot>>

\* prepare fails, before or after the manifest is on disk; the launcher
\* gives the reservation back only when the store shows no manifest.
AlPrepareFails(w) ==
  \E written \in BOOLEAN :
    /\ alLaunchers[w] = "reserved" /\ alLeases[w].parent = TheRoot
    /\ alManifests' = IF written THEN alManifests \cup {w} ELSE alManifests
    /\ IF ReservationReleasable(w, ~written, FALSE)
       THEN ReleaseTo(w, "abandoned") ELSE UNCHANGED alLeases
    /\ Goes(w, "done")
    /\ UNCHANGED <<alReceipts, alUnits, alRecovery, alBoot>>

\* Only a reservation nobody attached to or gave up can be attached.
Attachable(w) == alLaunchers[w] = "prepared" /\ alLeases[w].state = "reserved"

\* attach_execution: the state first, then the receipt.  Below the root only
\* leaves are executed.
AlAttach(w) ==
  /\ Attachable(w)
  /\ alLeases[w].parent # TheRoot => alLeases[w].children = 0
  /\ alLeases' = [alLeases EXCEPT ![w].state = "execution_active", ![w].expired = FALSE,
                                  ![w].boot = alBoot]
  /\ Goes(w, "attached")
  /\ UNCHANGED <<alManifests, alReceipts, alUnits, alRecovery, alBoot>>

AlWriteReceipt(w) ==
  /\ alLaunchers[w] = "attached"
  /\ Receipt(w, "starting") /\ Goes(w, "claimed")
  /\ UNCHANGED <<alLeases, alManifests, alUnits, alRecovery, alBoot>>

\* systemd-run, or an OSError before it.
AlStart(w) ==
  /\ alLaunchers[w] = "claimed"
  /\ \/ alUnits' = [alUnits EXCEPT ![w] = "starting"] /\ Goes(w, "waiting") /\ UNCHANGED alReceipts
     \/ Receipt(w, "not_started") /\ Goes(w, "done") /\ UNCHANGED alUnits
  /\ UNCHANGED <<alLeases, alManifests, alRecovery, alBoot>>

\* The client returns once the unit is over.
AlWaited(w) ==
  /\ alLaunchers[w] = "waiting" /\ alUnits[w] \in {"lingering", "ended", "gone"}
  /\ Goes(w, "finished")
  /\ UNCHANGED <<alLeases, alManifests, alReceipts, alUnits, alRecovery, alBoot>>

\* Timeout or interrupt: stop the unit, which may fail.
AlStop(w) ==
  /\ alLaunchers[w] = "waiting"
  /\ \/ /\ alUnits' = [alUnits EXCEPT ![w] = IF @ = "starting" THEN "gone"
                                             ELSE IF @ = "running" THEN "ended" ELSE @]
        /\ Goes(w, "finished") /\ UNCHANGED alReceipts
     \/ Receipt(w, "unknown") /\ Goes(w, "done") /\ UNCHANGED alUnits
  /\ UNCHANGED <<alLeases, alManifests, alRecovery, alBoot>>

\* _finish_and_reconcile: prove, release, record.
AlFinish(w) ==
  /\ alLaunchers[w] = "finished"
  /\ IF Releasable(w, TRUE, RuntimeProof(w), FALSE)
     THEN \E state \in {"completed", "cancelled"} : ReleaseTo(w, state) /\ Goes(w, "recording")
     ELSE UNCHANGED alLeases /\ Goes(w, "unproven")
  /\ UNCHANGED <<alManifests, alReceipts, alUnits, alRecovery, alBoot>>

AlRecord(w) ==
  /\ alLaunchers[w] \in {"recording", "unproven"}
  /\ Receipt(w, IF alLaunchers[w] = "recording" THEN "ended" ELSE "unknown") /\ Goes(w, "done")
  /\ UNCHANGED <<alLeases, alManifests, alUnits, alRecovery, alBoot>>

AlDie(w) ==
  /\ alLaunchers[w] \notin {"idle", "done"} /\ Goes(w, "done")
  /\ UNCHANGED <<alLeases, alManifests, alReceipts, alUnits, alRecovery, alBoot>>

-----------------------------------------------------------------------------
(* Recovery by somebody else: read first, act later.                      *)

\* reconcile_unlaunched lists the manifests.
AlSearchManifest(w) ==
  /\ alRecovery = NoRecovery /\ alLeases[w].state = "reserved"
  /\ alRecovery' = [kind |-> "reservation", worker |-> w, absent |-> w \notin alManifests]
  /\ UNCHANGED <<alLeases, alManifests, alReceipts, alUnits, alLaunchers, alBoot>>

\* recover_execution reads the receipt, then the runtime.
AlReadReceipt(w) ==
  /\ alRecovery = NoRecovery /\ Active(w) /\ w \in alManifests
  /\ alReceipts[w] \in {"starting", "not_started"}
  /\ alRecovery' = [kind |-> "execution", worker |-> w, receipt |-> alReceipts[w],
                    proof |-> RuntimeProof(w)]
  /\ UNCHANGED <<alLeases, alManifests, alReceipts, alUnits, alLaunchers, alBoot>>

AlRecover ==
  LET w == alRecovery.worker IN
  /\ alRecovery # NoRecovery
  /\ IF alRecovery.kind = "reservation"
     THEN IF ReservationReleasable(w, alRecovery.absent, TRUE)
          THEN ReleaseTo(w, "abandoned") ELSE UNCHANGED alLeases
     ELSE LET begun == alRecovery.receipt = "starting" IN
          IF Releasable(w, begun, alRecovery.proof, begun)
          THEN ReleaseTo(w, IF begun THEN "cancelled" ELSE "abandoned") ELSE UNCHANGED alLeases
  /\ alRecovery' = NoRecovery
  /\ UNCHANGED <<alManifests, alReceipts, alUnits, alLaunchers, alBoot>>

AlReboot ==
  /\ alBoot < MaxBoots /\ alBoot' = alBoot + 1
  /\ alUnits' = [w \in Workers |-> "absent"]
  /\ alLaunchers' = [w \in Workers |-> IF alLaunchers[w] = "idle" THEN "idle" ELSE "done"]
  /\ alRecovery' = NoRecovery
  /\ UNCHANGED <<alLeases, alManifests, alReceipts>>

AlNext ==
  \/ AlRecover \/ AlReboot
  \/ \E w \in Workers :
       \/ \E p \in (Workers \ {w}) \cup {TheRoot}, share \in Shares, free \in 0..RootBudget :
            AlReserve(w, p, share, free)
       \/ AlExpire(w) \/ AlUnit(w) \/ AlPrepare(w) \/ AlPrepareFails(w) \/ AlAttach(w)
       \/ AlWriteReceipt(w) \/ AlStart(w) \/ AlWaited(w) \/ AlStop(w) \/ AlFinish(w)
       \/ AlRecord(w) \/ AlDie(w) \/ AlSearchManifest(w) \/ AlReadReceipt(w)

AlSpec == AlInit /\ [][AlNext]_alVars

-----------------------------------------------------------------------------
(* Properties.                                                            *)

\* A unit that may still use the machine is covered by a lease: however the
\* launcher ended and whatever recovery read, the budget is not given away
\* while a process of the attempt is left.
RunningUnitHoldsLease ==
  \A w \in Workers : alUnits[w] \in {"starting", "running", "lingering"}
                       => alLeases[w].state = "execution_active"

\* No parent hands out more than it has, reservations that have not started
\* included.
NoOvercommit == \A p \in Workers \cup {TheRoot} : (p = TheRoot \/ Active(p)) => UsedBy(p) <= Limit(p)

\* A lease is released only after every lease below it, so a child always
\* finds its parent's budget in force.
ChildrenHaveActiveParents ==
  \A w \in Workers : Active(w) => alLeases[w].parent = TheRoot \/ Active(alLeases[w].parent)

\* A released lease never comes back, not even for a launcher that was slow
\* to attach while its reservation was abandoned.
ReleaseIsFinal ==
  \A w \in Workers : alLeases[w].state \in {"refused", "abandoned", "completed", "cancelled"}
    => alLeases'[w] = alLeases[w]

\* Launching, finishing, recovery and reboots keep the budget honest: what runs holds a
\* lease, leases fit in their parent's, and a released one stays released.
LeasesAreSound ==
  [][RunningUnitHoldsLease' /\ NoOvercommit' /\ ChildrenHaveActiveParents' /\ ReleaseIsFinal]_alVars
=============================================================================
