------------------------- MODULE CoordinatorWorkers -------------------------
(***************************************************************************)
(* Workers the Coordinator starts in units of the host's service manager   *)
(* (coordinator_workers.py over coordinator_worker_state.py).  spawn writes *)
(* a PREPARED record and asks for the unit under one file lock; the unit's *)
(* wrapper (execute) and cancel take the same lock for each write and run  *)
(* between them without it.  status only reads.                            *)
(***************************************************************************)
EXTENDS Naturals

CONSTANTS
  CwSpawns,   \* spawn ids: the operation ids of the requests
  CwWorks,    \* works they are for
  CwCancels   \* concurrent cancellations

VARIABLES
  cwWork,      \* the work each spawn id is requested for
  cwRecords,   \* spawn -> phase and outcome of the durable record
  cwSpawner,   \* the spawn that holds the lock between its record and its unit
  cwUnits,     \* spawn -> absent, late, queued, active, gone
  cwWrapper,   \* spawn -> where execute stands: none, enter, launch, run, leave
  cwStarts,    \* spawn -> times its launcher was started (observer)
  cwCalls      \* cancellations in progress

cwVars == <<cwWork, cwRecords, cwSpawner, cwUnits, cwWrapper, cwStarts, cwCalls>>

NoRecord == [phase |-> "none"]
NoSpawn == "nobody"

ASSUME WorkerConstants == NoSpawn \notin CwSpawns

CwInit ==
  /\ cwWork \in [CwSpawns -> CwWorks]
  /\ cwRecords = [s \in CwSpawns |-> NoRecord]
  /\ cwSpawner = NoSpawn
  /\ cwUnits = [s \in CwSpawns |-> "absent"]
  /\ cwWrapper = [s \in CwSpawns |-> "none"]
  /\ cwStarts = [s \in CwSpawns |-> 0]
  /\ cwCalls = [c \in CwCancels |-> [at |-> "idle"]]

LockFree == cwSpawner = NoSpawn

Running(s) == cwWrapper[s] = "run"

-----------------------------------------------------------------------------
(* spawn.                                                                   *)

\* A record of the same work that makes the request ambiguous.  A unit that is
\* still queued counts as inactive, as does one the manager does not know.
ActiveWorker(s) ==
  /\ cwRecords[s].phase \in {"PREPARED", "RUNNING"}
  /\ cwUnits[s] = "active" \/ cwRecords[s].phase = "RUNNING"

\* A repeated request finds the record and changes nothing: no action.
SpawnAdmit(s) ==
  /\ LockFree
  /\ cwRecords[s].phase = "none"
  /\ \A t \in CwSpawns : cwWork[t] = cwWork[s] => ~ActiveWorker(t)
  /\ cwRecords' = [cwRecords EXCEPT ![s] = [phase |-> "PREPARED", cancelled |-> FALSE]]
  /\ cwSpawner' = s
  /\ UNCHANGED <<cwWork, cwUnits, cwWrapper, cwStarts, cwCalls>>

\* systemd-run --no-block: queued, refused, or no answer in time, in which case the
\* manager may still act on it.  A spawn that dies here has asked for nothing.
RequestUnit ==
  /\ ~LockFree
  /\ \E unit \in {"queued", "absent", "late"} :
       cwUnits' = [cwUnits EXCEPT ![cwSpawner] = unit]
  /\ cwSpawner' = NoSpawn
  /\ UNCHANGED <<cwWork, cwRecords, cwWrapper, cwStarts, cwCalls>>

-----------------------------------------------------------------------------
(* The service manager and the launched worker.                             *)

UnitMoves(s) ==
  /\ \/ cwUnits[s] = "late" /\ cwUnits' = [cwUnits EXCEPT ![s] = "queued"] /\ UNCHANGED cwWrapper
     \/ /\ cwUnits[s] = "queued" /\ cwUnits' = [cwUnits EXCEPT ![s] = "active"]
        /\ cwWrapper' = [cwWrapper EXCEPT ![s] = "enter"]
  /\ UNCHANGED <<cwWork, cwRecords, cwSpawner, cwStarts, cwCalls>>

\* RuntimeMaxSec, a kill, or the host going down ends every process of the unit.
UnitDies(s) ==
  /\ cwUnits[s] \in {"queued", "active"}
  /\ cwUnits' = [cwUnits EXCEPT ![s] = "gone"]
  /\ cwWrapper' = [cwWrapper EXCEPT ![s] = "none"]
  /\ UNCHANGED <<cwWork, cwRecords, cwSpawner, cwStarts, cwCalls>>

LauncherExits(s) ==
  /\ Running(s)
  /\ cwWrapper' = [cwWrapper EXCEPT ![s] = "leave"]
  /\ UNCHANGED <<cwWork, cwRecords, cwSpawner, cwUnits, cwStarts, cwCalls>>

-----------------------------------------------------------------------------
(* execute: RUNNING under the lock, the launcher without it, TERMINAL under *)
(* the lock again.                                                          *)

ExecuteEnter(s) ==
  /\ cwWrapper[s] = "enter" /\ LockFree
  /\ IF cwRecords[s].phase = "TERMINAL"
     THEN /\ cwUnits' = [cwUnits EXCEPT ![s] = "gone"]
          /\ cwWrapper' = [cwWrapper EXCEPT ![s] = "none"]
          /\ UNCHANGED cwRecords
     ELSE /\ cwRecords' = [cwRecords EXCEPT ![s].phase = "RUNNING"]
          /\ cwWrapper' = [cwWrapper EXCEPT ![s] = "launch"]
          /\ UNCHANGED cwUnits
  /\ UNCHANGED <<cwWork, cwSpawner, cwStarts, cwCalls>>

ExecuteLaunch(s) ==
  /\ cwWrapper[s] = "launch"
  /\ cwWrapper' = [cwWrapper EXCEPT ![s] = "run"]
  /\ cwStarts' = [cwStarts EXCEPT ![s] = @ + 1]
  /\ UNCHANGED <<cwWork, cwRecords, cwSpawner, cwUnits, cwCalls>>

\* Mutant: the record read before the launch is the one written back.
LeaveBlind(s) ==
  /\ cwWrapper[s] = "leave" /\ LockFree
  /\ cwRecords' = [cwRecords EXCEPT ![s] = [phase |-> "TERMINAL", cancelled |-> FALSE]]
  /\ cwUnits' = [cwUnits EXCEPT ![s] = "gone"]
  /\ cwWrapper' = [cwWrapper EXCEPT ![s] = "none"]
  /\ UNCHANGED <<cwWork, cwSpawner, cwStarts, cwCalls>>

ExecuteLeave(s) ==
  /\ cwWrapper[s] = "leave" /\ LockFree
  /\ cwRecords' = [cwRecords EXCEPT ![s].phase = "TERMINAL"]
  /\ cwUnits' = [cwUnits EXCEPT ![s] = "gone"]
  /\ cwWrapper' = [cwWrapper EXCEPT ![s] = "none"]
  /\ UNCHANGED <<cwWork, cwSpawner, cwStarts, cwCalls>>

-----------------------------------------------------------------------------
(* cancel: the unit's state is read without the lock; a unit seen inactive is *)
(* not stopped.                                                              *)

SetCall(c, value) == cwCalls' = [cwCalls EXCEPT ![c] = value]

\* A call that finds nothing to cancel, or cannot see the unit, ends at once.  The
\* managed run it stops first is the launcher's: LauncherExits.
CancelLook(c) ==
  /\ cwCalls[c].at = "idle"
  /\ \E s \in CwSpawns :
       /\ cwRecords[s].phase \in {"PREPARED", "RUNNING"}
       /\ SetCall(c, [at |-> IF cwUnits[s] = "active" THEN "stop" ELSE "mark", spawn |-> s])
  /\ UNCHANGED <<cwWork, cwRecords, cwSpawner, cwUnits, cwWrapper, cwStarts>>

\* systemctl stop and the readback.
CancelStop(c) ==
  /\ cwCalls[c].at = "stop"
  /\ LET s == cwCalls[c].spawn IN
     \/ /\ cwUnits' = [cwUnits EXCEPT ![s] = IF @ = "active" THEN "gone" ELSE @]
        /\ cwWrapper' = [cwWrapper EXCEPT ![s] = "none"]
        /\ SetCall(c, [at |-> "mark", spawn |-> s])
     \/ /\ SetCall(c, [at |-> "idle"])                 \* stop failed or unconfirmed
        /\ UNCHANGED <<cwUnits, cwWrapper>>
  /\ UNCHANGED <<cwWork, cwRecords, cwSpawner, cwStarts>>

\* _mark_cancelled: the record is read again under the lock, the unit is not.
CancelMark(c) ==
  /\ cwCalls[c].at = "mark" /\ LockFree
  /\ LET s == cwCalls[c].spawn IN
     cwRecords' = [cwRecords EXCEPT ![s] = IF @.phase = "TERMINAL" THEN @
                                           ELSE [phase |-> "TERMINAL", cancelled |-> TRUE]]
  /\ SetCall(c, [at |-> "idle"])
  /\ UNCHANGED <<cwWork, cwSpawner, cwUnits, cwWrapper, cwStarts>>

CwNext ==
  \/ \E s \in CwSpawns :
       \/ SpawnAdmit(s) \/ UnitMoves(s) \/ UnitDies(s) \/ LauncherExits(s)
       \/ ExecuteEnter(s) \/ ExecuteLaunch(s) \/ ExecuteLeave(s)
  \/ RequestUnit
  \/ \E c \in CwCancels : CancelLook(c) \/ CancelStop(c) \/ CancelMark(c)

CwSpec == CwInit /\ [][CwNext]_cwVars

-----------------------------------------------------------------------------
\* A spawn starts its launcher at most once, through repeated requests, answers of
\* the service manager that come too late, and units that die: the objective is never
\* carried out twice under one operation.
LauncherStartsOnce == \A s \in CwSpawns : cwStarts[s] <= 1

\* What a worker came to is written once: the exit of a worker and its cancellation
\* race for the record, and whichever comes second leaves it as it is.
WorkerOutcomeStands ==
  \A s \in CwSpawns : cwRecords[s].phase = "TERMINAL" => cwRecords'[s] = cwRecords[s]

\* No spawn is admitted beside a launcher that runs for the same work, unless that one
\* was marked cancelled: a worker whose unit was seen inactive may start all the same.
AdmittedBesideNoWorker ==
  \A s, t \in CwSpawns :
    /\ cwRecords[s].phase = "none" /\ cwRecords'[s].phase = "PREPARED"
    /\ cwWork[t] = cwWork[s] /\ Running(t)
    => cwRecords[t].phase = "TERMINAL" /\ cwRecords[t].cancelled

\* Spawns, cancellations and late units: the launcher of an operation starts once, a spawn
\* is admitted beside no running launcher of its work that was not cancelled, and the
\* outcome on record stands.
WorkersAreSound ==
  [][LauncherStartsOnce' /\ WorkerOutcomeStands /\ AdmittedBesideNoWorker]_cwVars
=============================================================================
