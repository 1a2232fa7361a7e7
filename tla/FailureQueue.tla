----------------------------- MODULE FailureQueue -----------------------------
(***************************************************************************)
(* Failure evidence on its way to the database: capture_failure puts a record   *)
(* in a directory of the host (PendingFailureQueue) under a registry of known    *)
(* attempts (PendingFailureRegistry); a later launch shows the queued records     *)
(* to the controller, which records them in the FailureJournal and acknowledges   *)
(* each one it read back; only then the host drops its copy.  Captures and        *)
(* launches are processes of their own and may die at any step.                  *)
(***************************************************************************)
EXTENDS Naturals, FiniteSets, Sequences

CONSTANTS FailAttempts,   \* attempt identities
          FailBodies,     \* contents of a record, its operation id included
          FailCaptures,   \* processes running capture_failure
          FailLaunches    \* processes running provision_output

VARIABLES
  failFiles,      \* records in the queue directory, one file per attempt
  failRegistry,   \* attempt -> its disposition in registry.json
  failLock,       \* holder of the queue's lock
  failJournal,    \* rows of failure_records
  failResolved,   \* attempts with a row in failure_resolutions
  failCapture,    \* capture -> where it is and its record
  failLaunch,     \* launch -> where it is, its frames and its acknowledgements
  failKnown       \* history: records whose enqueue answered PENDING_SYNC

failVars == <<failFiles, failRegistry, failLock, failJournal, failResolved, failCapture,
              failLaunch, failKnown>>

ASSUME FailureConstants == FailAttempts \subseteq Nat /\ "free" \notin FailLaunches

FailRecords == [attempt: FailAttempts, body: FailBodies]
AnyFailRecord == CHOOSE r \in FailRecords : TRUE

(* No capture, no launch and nothing recorded. *)
FailInit ==
  /\ failFiles = {} /\ failJournal = {} /\ failResolved = {} /\ failKnown = {}
  /\ failRegistry = [a \in FailAttempts |-> "absent"]
  /\ failLock = "free"
  /\ failCapture = [c \in FailCaptures |-> [at |-> "idle", rec |-> AnyFailRecord]]
  /\ failLaunch = [l \in FailLaunches |->
                     [at |-> "idle", frames |-> <<>>, acks |-> <<>>, failed |-> FALSE]]

-----------------------------------------------------------------------------
(* PendingFailureQueue.enqueue, with its answer.                              *)
EnqueueAnswer(r) ==
  IF \A f \in failFiles : f.attempt = r.attempt => f = r THEN "PENDING_SYNC" ELSE "CONFLICT"
Enqueue(r) ==
  /\ failFiles' = IF EnqueueAnswer(r) = "PENDING_SYNC" THEN failFiles \cup {r} ELSE failFiles
  /\ failKnown' = IF EnqueueAnswer(r) = "PENDING_SYNC" THEN failKnown \cup {r} ELSE failKnown

(* register and mark of the registry; closure_gate also adopts queued records. *)
Registered(reg, a) == IF reg[a] = "absent" THEN [reg EXCEPT ![a] = "UNRECORDED"] ELSE reg
Adopted(reg) ==
  [a \in FailAttempts |->
     IF reg[a] = "absent" /\ \E f \in failFiles : f.attempt = a THEN "PENDING_SYNC" ELSE reg[a]]

CaptureAt(c, at) == failCapture' = [failCapture EXCEPT ![c].at = at]

CaptureBegin(c, r) ==
  /\ failCapture[c].at = "idle"
  /\ failCapture' = [failCapture EXCEPT ![c] = [at |-> "enqueue", rec |-> r]]
  /\ failRegistry' = Registered(failRegistry, r.attempt)
  /\ UNCHANGED <<failFiles, failLock, failJournal, failResolved, failLaunch, failKnown>>

CaptureEnqueue(c) ==
  /\ failCapture[c].at = "enqueue" /\ failLock = "free"
  /\ Enqueue(failCapture[c].rec)
  /\ CaptureAt(c, IF EnqueueAnswer(failCapture[c].rec) = "PENDING_SYNC" THEN "mark" ELSE "gate")
  /\ UNCHANGED <<failRegistry, failLock, failJournal, failResolved, failLaunch>>

(* mark, which is skipped after a CONFLICT. *)
CaptureMark(c) ==
  /\ failCapture[c].at = "mark"
  /\ failRegistry' = [failRegistry EXCEPT ![failCapture[c].rec.attempt] = "PENDING_SYNC"]
  /\ CaptureAt(c, "gate")
  /\ UNCHANGED <<failFiles, failLock, failJournal, failResolved, failLaunch, failKnown>>

(* closure_gate, here and at the end of a managed launch. *)
CaptureGate(c) ==
  /\ failCapture[c].at = "gate"
  /\ failRegistry' = Adopted(failRegistry)
  /\ CaptureAt(c, "done")
  /\ UNCHANGED <<failFiles, failLock, failJournal, failResolved, failLaunch, failKnown>>

(* A capture dies, or gives up on an OSError. *)
CaptureDies(c) ==
  /\ failCapture[c].at \in {"enqueue", "mark", "gate"}
  /\ CaptureAt(c, "done")
  /\ UNCHANGED <<failFiles, failRegistry, failLock, failJournal, failResolved, failLaunch,
                 failKnown>>

-----------------------------------------------------------------------------
(* provision_output: the frames are the queued records in the order of their     *)
(* attempts, taken under the queue's lock.                                      *)
QueueFrames ==
  {s \in [1..Cardinality(failFiles) -> failFiles] :
     \A i, j \in DOMAIN s : i < j => s[i].attempt < s[j].attempt}

LaunchFrames(l) ==
  /\ failLaunch[l].at = "idle" /\ failLock = "free"
  /\ \E frames \in QueueFrames :
       failLaunch' = [failLaunch EXCEPT ![l].at = "replay", ![l].frames = frames]
  /\ UNCHANGED <<failFiles, failRegistry, failLock, failJournal, failResolved, failCapture,
                 failKnown>>

(* FailureJournal.record followed by get: whether the controller may            *)
(* acknowledge the record.                                                      *)
Journaled(r) == \A j \in failJournal : j.attempt = r.attempt => j = r

(* provision, in the controller: the first frame that cannot be recorded exactly *)
(* ends the replay and the launch; the acknowledgements before it stand.         *)
LaunchReplay(l) ==
  /\ failLaunch[l].at = "replay"
  /\ IF failLaunch[l].frames = <<>>
     THEN /\ failLaunch' = [failLaunch EXCEPT ![l].at = "ack"]
          /\ UNCHANGED failJournal
     ELSE LET r == Head(failLaunch[l].frames) IN
          IF Journaled(r)
          THEN /\ failJournal' = failJournal \cup {r}
               /\ failLaunch' = [failLaunch EXCEPT ![l].frames = Tail(@),
                                                   ![l].acks = Append(@, r)]
          ELSE /\ failLaunch' = [failLaunch EXCEPT ![l].at = "ack", ![l].failed = TRUE]
               /\ UNCHANGED failJournal
  /\ UNCHANGED <<failFiles, failRegistry, failLock, failResolved, failCapture, failKnown>>

(* Mutant: an acknowledgement names the attempt but not the content. *)
AckAccepted(r) == \E f \in failFiles : f.attempt = r.attempt
(* acknowledge accepts only the exact queued record. *)
Acknowledged(r) == r \in failFiles

(* acknowledge, first half: under the lock the exact record is marked STORED.    *)
(* An acknowledgement that does not match ends the launch.                       *)
LaunchAck(l) ==
  /\ failLaunch[l].at = "ack" /\ failLock = "free"
  /\ IF failLaunch[l].acks = <<>>
     THEN /\ failLaunch' = [failLaunch EXCEPT ![l].at = "done"]
          /\ UNCHANGED <<failRegistry, failLock>>
     ELSE LET r == Head(failLaunch[l].acks) IN
          IF Acknowledged(r)
          THEN /\ failRegistry' = [failRegistry EXCEPT ![r.attempt] = "STORED"]
               /\ failLock' = l
               /\ failLaunch' = [failLaunch EXCEPT ![l].at = "unlink"]
          ELSE /\ failLaunch' = [failLaunch EXCEPT ![l].at = "done", ![l].failed = TRUE]
               /\ UNCHANGED <<failRegistry, failLock>>
  /\ UNCHANGED <<failFiles, failJournal, failResolved, failCapture, failKnown>>

(* acknowledge, second half: the file of the attempt is removed. *)
LaunchUnlink(l) ==
  /\ failLaunch[l].at = "unlink"
  /\ failFiles' = {f \in failFiles : f.attempt # Head(failLaunch[l].acks).attempt}
  /\ failLock' = "free"
  /\ failLaunch' = [failLaunch EXCEPT ![l].at = "ack", ![l].acks = Tail(@)]
  /\ UNCHANGED <<failRegistry, failJournal, failResolved, failCapture, failKnown>>

(* A launch dies; the kernel drops its lock.  Launches come again. *)
LaunchDies(l) ==
  /\ failLaunch[l].at # "idle"
  /\ failLaunch' = [failLaunch EXCEPT
                      ![l] = [at |-> "idle", frames |-> <<>>, acks |-> <<>>, failed |-> FALSE]]
  /\ failLock' = IF failLock = l THEN "free" ELSE failLock
  /\ UNCHANGED <<failFiles, failRegistry, failJournal, failResolved, failCapture, failKnown>>

(* FailureJournal.resolve: one resolution of a recorded failure. *)
Resolve(a) ==
  /\ a \notin failResolved /\ \E j \in failJournal : j.attempt = a
  /\ failResolved' = failResolved \cup {a}
  /\ UNCHANGED <<failFiles, failRegistry, failLock, failJournal, failCapture, failLaunch,
                 failKnown>>

LaunchSteps(l) ==
  LaunchFrames(l) \/ LaunchReplay(l) \/ LaunchAck(l) \/ LaunchUnlink(l) \/ LaunchDies(l)

FailNext ==
  \/ \E c \in FailCaptures :
       \/ \E r \in FailRecords : CaptureBegin(c, r)
       \/ CaptureEnqueue(c) \/ CaptureMark(c) \/ CaptureGate(c) \/ CaptureDies(c)
  \/ \E l \in FailLaunches : LaunchSteps(l)
  \/ \E a \in FailAttempts : Resolve(a)

FailSpec == FailInit /\ [][FailNext]_failVars

-----------------------------------------------------------------------------
(* Evidence that was accepted into the queue is in the queue or, exactly, in the *)
(* journal: no death of a capture or a launch, and no acknowledgement answered     *)
(* for an earlier content of the attempt, loses it (acknowledge, LaunchUnlink).   *)
NoEvidenceLost ==
  \A r \in failKnown : r \in failFiles \/ r \in failJournal

(* What the closure gate relies on: an attempt the registry no longer calls        *)
(* UNRECORDED has its evidence in the queue or in the journal, and one it calls    *)
(* STORED has a journal row, whatever order captures and launches touch the        *)
(* registry in.                                                                    *)
DispositionHasEvidence ==
  \A a \in FailAttempts :
    /\ failRegistry[a] \in {"PENDING_SYNC", "STORED"} =>
         \E r \in failFiles \cup failJournal : r.attempt = a
    /\ failRegistry[a] = "STORED" => \E r \in failJournal : r.attempt = a

\* Captures and launches that overlap or die leave the evidence of every failure in the
\* queue or in the journal, and the registry never claims more.
EvidenceReachesTheJournal ==
  NoEvidenceLost /\ DispositionHasEvidence
=============================================================================
