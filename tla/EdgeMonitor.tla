----------------------------- MODULE EdgeMonitor -----------------------------
(***************************************************************************)
(* The health monitor of the edge (edge_monitor.py, edge_monitor_host.py) over  *)
(* its store (wakeful.py): a cycle takes the lease, reads the journal after the  *)
(* stored cursor, classifies what it observes, and in one transaction moves the   *)
(* cursor, the confirmed condition and the outbox.  Timers may start cycles that  *)
(* overlap; a cycle may be slow, outlive its lease, fail or die.                  *)
(***************************************************************************)
EXTENDS Naturals, Sequences

CONSTANTS Monitors,          \* processes that run a cycle
          MonObservations,   \* what the probes may see (a subset of Observation)
          MonLease,          \* lease_seconds, in ticks of the clock
          MaxLog,            \* bound: lines in the service's journal
          MaxCycles,         \* bound: leases taken
          MaxTicks           \* bound: the clock

\* What each probe may answer.
HostSystemd == BOOLEAN                         \* active with a main pid
HostHttp == {"down", "challenge", "other"}     \* on the local URL
ExternalIngress == {"unconfigured", "challenge", "other"}
HostFunctional == {"unconfigured", "ok", "provider_error", "failed"}

Observation ==
  [active: HostSystemd, http: HostHttp, ingress: ExternalIngress, canary: HostFunctional]

ASSUME MonitorConstants ==
  /\ MonObservations \subseteq Observation
  /\ MonLease \in Nat \ {0} /\ {MaxLog, MaxCycles, MaxTicks} \subseteq Nat

VARIABLES
  monClock,
  monLog,      \* the journal: whether a line carries an OAuth failure marker
  monStore,    \* cursor (0: none), condition, healthy_streak and the lease
  monOutbox,   \* wake_outbox in the order of insertion
  monRun,      \* process -> its cycle
  monTaken,    \* number of leases taken so far: the owner of the next one
  monHistory   \* history: conditions of the cycles completed, latest last

monVars == <<monClock, monLog, monStore, monOutbox, monRun, monTaken, monHistory>>

NoMonLease == [owner |-> 0, expires |-> 0]
NoCycle == [at |-> "idle", owner |-> 0, cursor |-> 0, next |-> 0, condition |-> "none",
            observed |-> 0]

MonInit ==
  /\ monClock = 0 /\ monTaken = 0
  /\ monLog = <<>> /\ monOutbox = <<>> /\ monHistory = <<>>
  /\ monStore = [cursor |-> 0, condition |-> "none", streak |-> 0, lease |-> NoMonLease]
  /\ monRun = [p \in Monitors |-> NoCycle]

Tick ==
  /\ monClock < MaxTicks
  /\ monClock' = monClock + 1
  /\ UNCHANGED <<monLog, monStore, monOutbox, monRun, monTaken, monHistory>>

ServiceLogs(marker) ==
  /\ Len(monLog) < MaxLog
  /\ monLog' = Append(monLog, marker)
  /\ UNCHANGED <<monClock, monStore, monOutbox, monRun, monTaken, monHistory>>

-----------------------------------------------------------------------------
(* run_once reads the clock that dates its event before it asks for the lease. *)
CycleBegin(p) ==
  /\ monRun[p].at = "idle" /\ monTaken < MaxCycles
  /\ monRun' = [monRun EXCEPT ![p] = [NoCycle EXCEPT !.at = "acquire", !.observed = monClock]]
  /\ UNCHANGED <<monClock, monLog, monStore, monOutbox, monTaken, monHistory>>

(* acquire_cycle: an unexpired lease means that another cycle is busy. *)
LeaseBusy == monStore.lease # NoMonLease /\ monStore.lease.expires > monClock
CycleAcquire(p) ==
  /\ monRun[p].at = "acquire"
  /\ IF LeaseBusy \/ monTaken = MaxCycles
     THEN /\ monRun' = [monRun EXCEPT ![p] = NoCycle]
          /\ UNCHANGED <<monStore, monTaken>>
     ELSE /\ monTaken' = monTaken + 1
          /\ monStore' = [monStore EXCEPT !.lease = [owner |-> monTaken + 1,
                                                     expires |-> monClock + MonLease]]
          /\ monRun' = [monRun EXCEPT ![p].at = "observe", ![p].owner = monTaken + 1,
                                      ![p].cursor = monStore.cursor]
  /\ UNCHANGED <<monClock, monLog, monOutbox, monHistory>>

(* HostJournal.read_after: without a cursor, only the end of the journal. *)
Batch(cursor) ==
  IF cursor = 0 THEN <<>> ELSE SubSeq(monLog, cursor + 1, Len(monLog))

(* EdgeMonitor._classify, in the order of its tests. *)
Classify(batch, o) ==
  IF ~o.active \/ o.http = "down" THEN "transport"
  ELSE IF \E i \in DOMAIN batch : batch[i] THEN "oauth"
  ELSE IF o.http = "other" THEN "functional"
  ELSE IF o.ingress = "other" THEN "shared_ingress"
  ELSE CASE o.canary = "unconfigured" -> "missing_capability"
         [] o.canary = "provider_error" -> "provider"
         [] o.canary = "failed" -> "functional"
         [] OTHER -> "healthy"

CycleObserve(p, o) ==
  /\ monRun[p].at = "observe" /\ Len(monLog) > 0
  /\ monRun' = [monRun EXCEPT ![p].at = "complete", ![p].next = Len(monLog),
                              ![p].condition = Classify(Batch(monRun[p].cursor), o)]
  /\ UNCHANGED <<monClock, monLog, monStore, monOutbox, monTaken, monHistory>>

(* Mutant: the end of the lease is looked at, but not who holds it. *)
LeaseHeldByAnyone(c) == monStore.lease.expires > monClock
LeaseHeld(c) == monStore.lease.owner = c.owner /\ monStore.lease.expires > monClock

(* What complete_cycle makes of the condition: the stored one, the streak, and    *)
(* whether the transition is announced.                                           *)
Confirmed(s, condition) ==
  IF condition # "healthy"
  THEN [condition |-> condition, streak |-> 0, emit |-> condition # s.condition]
  ELSE IF s.condition \in {"none", "healthy"}
  THEN [condition |-> "healthy", streak |-> 0, emit |-> FALSE]
  ELSE IF s.streak + 1 >= 2
  THEN [condition |-> "healthy", streak |-> 0, emit |-> TRUE]
  ELSE [condition |-> s.condition, streak |-> s.streak + 1, emit |-> FALSE]

NewState(s, condition) == Confirmed(s, condition)

CycleComplete(p) ==
  /\ monRun[p].at = "complete"
  /\ LET c == monRun[p]
         new == NewState(monStore, c.condition)
     IN  /\ LeaseHeld(c)
         /\ monStore' = [cursor |-> c.next, condition |-> new.condition, streak |-> new.streak,
                         lease |-> IF monStore.lease.owner = c.owner THEN NoMonLease
                                   ELSE monStore.lease]
         /\ monOutbox' = IF new.emit
                         THEN Append(monOutbox, [kind |-> c.condition, created |-> c.observed,
                                                 delivered |-> FALSE])
                         ELSE monOutbox
         /\ monHistory' = Append(monHistory, c.condition)
  /\ monRun' = [monRun EXCEPT ![p] = NoCycle]
  /\ UNCHANGED <<monClock, monLog, monTaken>>

(* A probe or the transaction failed, or the lease was lost: abandon_cycle drops  *)
(* only the lease of its own cycle.                                               *)
CycleAbandon(p) ==
  /\ monRun[p].at \in {"observe", "complete"}
  /\ monStore' = [monStore EXCEPT !.lease = IF @.owner = monRun[p].owner THEN NoMonLease ELSE @]
  /\ monRun' = [monRun EXCEPT ![p] = NoCycle]
  /\ UNCHANGED <<monClock, monLog, monOutbox, monTaken, monHistory>>

CycleDies(p) ==
  /\ monRun[p].at # "idle"
  /\ monRun' = [monRun EXCEPT ![p] = NoCycle]
  /\ UNCHANGED <<monClock, monLog, monStore, monOutbox, monTaken, monHistory>>

(* pending and mark_delivered: the oldest undelivered event by its date. *)
Deliver(i) ==
  /\ i \in DOMAIN monOutbox /\ ~monOutbox[i].delivered
  /\ \A j \in DOMAIN monOutbox :
       ~monOutbox[j].delivered => monOutbox[i].created <= monOutbox[j].created
  /\ monOutbox' = [monOutbox EXCEPT ![i].delivered = TRUE]
  /\ UNCHANGED <<monClock, monLog, monStore, monRun, monTaken, monHistory>>

MonNext ==
  \/ Tick
  \/ \E marker \in BOOLEAN : ServiceLogs(marker)
  \/ \E p \in Monitors :
       \/ CycleBegin(p) \/ CycleAcquire(p) \/ CycleComplete(p) \/ CycleAbandon(p) \/ CycleDies(p)
       \/ \E o \in MonObservations : CycleObserve(p, o)
  \/ \E i \in 1..MaxCycles : Deliver(i)

MonSpec == MonInit /\ [][MonNext]_monVars

-----------------------------------------------------------------------------
(* A slow cycle never takes the journal back behind what a later cycle has        *)
(* already consumed: the lease it lost fences its complete_cycle.                  *)
CursorNeverGoesBack == monStore'.cursor >= monStore.cursor

(* The outbox tells the whole story: no two neighbouring events say the same, and   *)
(* the last one is the stored condition (none yet means healthy, or nothing         *)
(* known), however cycles overlapped, failed or lost their lease.                   *)
EventsAreTransitions ==
  /\ \A i \in 1..(Len(monOutbox) - 1) : monOutbox[i].kind # monOutbox[i + 1].kind
  /\ IF monOutbox = <<>> THEN monStore.condition \in {"none", "healthy"}
     ELSE monOutbox[Len(monOutbox)].kind = monStore.condition

(* edge.recovered is announced only by the second of two healthy cycles that        *)
(* completed one after the other, nothing unhealthy between them.                   *)
RecoveryIsConfirmed ==
  (Len(monOutbox') > Len(monOutbox) /\ monOutbox'[Len(monOutbox')].kind = "healthy") =>
    Len(monHistory) > 0 /\ monHistory[Len(monHistory)] = "healthy"

\* Overlapping, slow and dying monitor cycles never tell a wrong story: each step keeps
\* the outbox a list of transitions, the cursor forward and recovery confirmed.
MonitorIsSound ==
  [][EventsAreTransitions' /\ CursorNeverGoesBack /\ RecoveryIsConfirmed]_monVars
=============================================================================
