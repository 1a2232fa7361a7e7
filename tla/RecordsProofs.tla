---------------------------- MODULE RecordsProofs ----------------------------
(***************************************************************************)
(* Theorems about the records kept in the database beside work and mail:   *)
(* failure evidence, priority claims, activation continuity and outcomes,   *)
(* task runs, implementation requests, pull requests, required results and   *)
(* reviews, and about the policy on what a work may be changed into.          *)
(* Each section names the state its argument is about, the inductive           *)
(* invariant, and the steps that keep it.                                     *)
(***************************************************************************)
EXTENDS FailureQueue, PriorityClaims, ActivationContinuity, TaskRuns, ImplementationRuns,
        PullRequests, RequiredResult, ReviewOccurrences, WorkPolicy, FiniteSetTheorems, TLAPS

-----------------------------------------------------------------------------
(* FailureQueue.                                                           *)

CapturePlaces == {"idle", "enqueue", "mark", "gate", "done"}
LaunchPlaces == {"idle", "replay", "ack", "unlink", "done"}
QueueLaunches(F, J) == [at : LaunchPlaces, frames : F, acks : Seq(J), failed : BOOLEAN]

\* The part of the state the argument is about.  The frames a launch shows are left
\* open: every record is journaled before it is acknowledged, wherever it came from.
QueueTyped ==
  /\ failFiles \subseteq FailRecords
  /\ failRegistry \in [FailAttempts -> {"absent", "UNRECORDED", "PENDING_SYNC", "STORED"}]
  /\ failCapture \in [FailCaptures -> [at : CapturePlaces, rec : FailRecords \cup {AnyFailRecord}]]
  /\ \E F : failLaunch \in [FailLaunches -> QueueLaunches(F, failJournal)]

\* One file per attempt.
OneFilePerAttempt == \A f, g \in failFiles : f.attempt = g.attempt => f = g

\* A capture enqueues what it was called with, and marks only what was accepted.
CapturesCarryEvidence ==
  \A c \in FailCaptures :
    /\ failCapture[c].at \in {"enqueue", "mark"} => failCapture[c].rec \in FailRecords
    /\ failCapture[c].at = "mark" => failCapture[c].rec \in failKnown

\* Between its two halves acknowledge holds the lock, and the file it is about to
\* remove is still the record it was told of.
AcknowledgeIsLocked ==
  \A l \in FailLaunches : failLaunch[l].at = "unlink" =>
    /\ failLock = l /\ failLaunch[l].acks # <<>>
    /\ Head(failLaunch[l].acks) \in failFiles

QueueInv ==
  QueueTyped /\ OneFilePerAttempt /\ CapturesCarryEvidence /\ AcknowledgeIsLocked
    /\ EvidenceReachesTheJournal

\* Nothing is queued, journaled or under way at first.
LEMMA QueueStarts == FailInit => QueueInv
<1> SUFFICES ASSUME FailInit PROVE QueueInv
  OBVIOUS
<1> USE DEF FailInit
<1>1. QueueTyped
  <2>1. failCapture \in [FailCaptures -> [at : CapturePlaces, rec : FailRecords \cup {AnyFailRecord}]]
    BY DEF CapturePlaces
  <2>2. failLaunch \in [FailLaunches -> QueueLaunches({<<>>}, failJournal)]
    <3>1. <<>> \in Seq(failJournal)
      OBVIOUS
    <3> QED BY <3>1 DEF QueueLaunches, LaunchPlaces
  <2> QED BY <2>1, <2>2 DEF QueueTyped
<1>2. OneFilePerAttempt /\ CapturesCarryEvidence /\ AcknowledgeIsLocked
  BY DEF OneFilePerAttempt, CapturesCarryEvidence, AcknowledgeIsLocked
<1>3. EvidenceReachesTheJournal
  BY DEF EvidenceReachesTheJournal, NoEvidenceLost, DispositionHasEvidence
<1> QED BY <1>1, <1>2, <1>3 DEF QueueInv

\* Every step of a capture, a launch or the journal keeps the invariant.
LEMMA QueueStep == QueueInv /\ [FailNext]_failVars => QueueInv'
<1> SUFFICES ASSUME QueueInv, [FailNext]_failVars PROVE QueueInv'
  OBVIOUS
<1> USE FailureConstants
<1>t. /\ failFiles \subseteq FailRecords
      /\ failRegistry \in [FailAttempts -> {"absent", "UNRECORDED", "PENDING_SYNC", "STORED"}]
      /\ failCapture \in [FailCaptures -> [at : CapturePlaces, rec : FailRecords \cup {AnyFailRecord}]]
  BY DEF QueueInv, QueueTyped
<1>l. PICK F : failLaunch \in [FailLaunches -> QueueLaunches(F, failJournal)]
  BY DEF QueueInv, QueueTyped
<1>a. \A l \in FailLaunches : failLaunch[l].acks \in Seq(failJournal)
  BY <1>l DEF QueueLaunches
<1>i. OneFilePerAttempt /\ CapturesCarryEvidence /\ AcknowledgeIsLocked /\ NoEvidenceLost
      /\ DispositionHasEvidence
  BY DEF QueueInv, EvidenceReachesTheJournal
<1>1. CASE UNCHANGED failVars
  BY <1>1 DEF failVars, QueueInv, QueueTyped, OneFilePerAttempt, CapturesCarryEvidence,
     AcknowledgeIsLocked, EvidenceReachesTheJournal, NoEvidenceLost, DispositionHasEvidence
<1>2. ASSUME NEW c \in FailCaptures, NEW r \in FailRecords, CaptureBegin(c, r) PROVE QueueInv'
  <2> USE <1>2 DEF CaptureBegin
  <2>0. r.attempt \in FailAttempts BY DEF FailRecords
  <2>1. /\ failCapture' \in [FailCaptures -> [at : CapturePlaces, rec : FailRecords \cup {AnyFailRecord}]]
        /\ CapturesCarryEvidence'
    BY <1>t, <1>i DEF CapturesCarryEvidence, CapturePlaces
  <2>2. /\ failRegistry' \in [FailAttempts -> {"absent", "UNRECORDED", "PENDING_SYNC", "STORED"}]
        /\ \A a \in FailAttempts :
             failRegistry'[a] = failRegistry[a] \/ failRegistry'[a] = "UNRECORDED"
    BY <2>0, <1>t DEF Registered
  <2>3. EvidenceReachesTheJournal'
    BY <2>2, <1>i DEF EvidenceReachesTheJournal, NoEvidenceLost, DispositionHasEvidence
  <2> QED BY <1>t, <1>i, <2>1, <2>2, <2>3
       DEF QueueInv, QueueTyped, OneFilePerAttempt, AcknowledgeIsLocked
<1>3. ASSUME NEW c \in FailCaptures, CaptureEnqueue(c) PROVE QueueInv'
  <2> USE <1>3 DEF CaptureEnqueue, CaptureAt, Enqueue
  <2>0. failCapture[c].rec \in FailRecords
    BY <1>i DEF CapturesCarryEvidence
  <2>1. /\ failCapture' \in [FailCaptures -> [at : CapturePlaces, rec : FailRecords \cup {AnyFailRecord}]]
        /\ CapturesCarryEvidence'
    BY <1>t, <1>i DEF CapturesCarryEvidence, CapturePlaces
  <2>2. failFiles' \subseteq FailRecords /\ OneFilePerAttempt'
    BY <2>0, <1>t, <1>i DEF OneFilePerAttempt, EnqueueAnswer
  <2>3. EvidenceReachesTheJournal'
    BY <1>i DEF EvidenceReachesTheJournal, NoEvidenceLost, DispositionHasEvidence
  <2>4. AcknowledgeIsLocked'
    BY <1>i DEF AcknowledgeIsLocked
  <2> QED BY <1>t, <2>1, <2>2, <2>3, <2>4 DEF QueueInv, QueueTyped
<1>4. ASSUME NEW c \in FailCaptures, CaptureMark(c) PROVE QueueInv'
  <2> USE <1>4 DEF CaptureMark, CaptureAt
  <2>0. failCapture[c].rec \in FailRecords /\ failCapture[c].rec \in failKnown
    BY <1>i DEF CapturesCarryEvidence
  <2>a. failCapture[c].rec.attempt \in FailAttempts
    BY <2>0 DEF FailRecords
  <2>1. /\ failCapture' \in [FailCaptures -> [at : CapturePlaces, rec : FailRecords \cup {AnyFailRecord}]]
        /\ CapturesCarryEvidence'
    BY <1>t, <1>i DEF CapturesCarryEvidence, CapturePlaces
  <2>2. /\ failRegistry' \in [FailAttempts -> {"absent", "UNRECORDED", "PENDING_SYNC", "STORED"}]
        /\ \A a \in FailAttempts :
             failRegistry'[a] = IF a = failCapture[c].rec.attempt THEN "PENDING_SYNC" ELSE failRegistry[a]
    BY <1>t, <2>a
  <2>3. EvidenceReachesTheJournal'
    BY <2>0, <2>2, <1>i DEF EvidenceReachesTheJournal, NoEvidenceLost, DispositionHasEvidence
  <2> QED BY <1>t, <1>i, <2>1, <2>2, <2>3
       DEF QueueInv, QueueTyped, OneFilePerAttempt, AcknowledgeIsLocked
<1>5. ASSUME NEW c \in FailCaptures, CaptureGate(c) PROVE QueueInv'
  <2> USE <1>5 DEF CaptureGate, CaptureAt
  <2>1. /\ failCapture' \in [FailCaptures -> [at : CapturePlaces, rec : FailRecords \cup {AnyFailRecord}]]
        /\ CapturesCarryEvidence'
    BY <1>t, <1>i DEF CapturesCarryEvidence, CapturePlaces
  <2>2. /\ failRegistry' \in [FailAttempts -> {"absent", "UNRECORDED", "PENDING_SYNC", "STORED"}]
        /\ EvidenceReachesTheJournal'
    BY <1>t, <1>i DEF EvidenceReachesTheJournal, NoEvidenceLost, DispositionHasEvidence, Adopted
  <2> QED BY <1>t, <1>i, <2>1, <2>2
       DEF QueueInv, QueueTyped, OneFilePerAttempt, AcknowledgeIsLocked
<1>6. ASSUME NEW c \in FailCaptures, CaptureDies(c) PROVE QueueInv'
  <2> USE <1>6 DEF CaptureDies, CaptureAt
  <2>1. /\ failCapture' \in [FailCaptures -> [at : CapturePlaces, rec : FailRecords \cup {AnyFailRecord}]]
        /\ CapturesCarryEvidence'
    BY <1>t, <1>i DEF CapturesCarryEvidence, CapturePlaces
  <2> QED BY <1>t, <1>i, <2>1
       DEF QueueInv, QueueTyped, OneFilePerAttempt, AcknowledgeIsLocked,
           EvidenceReachesTheJournal, NoEvidenceLost, DispositionHasEvidence
<1>7. ASSUME NEW l \in FailLaunches, LaunchFrames(l) PROVE QueueInv'
  <2>0. PICK s \in QueueFrames :
          failLaunch' = [failLaunch EXCEPT ![l].at = "replay", ![l].frames = s]
    BY <1>7 DEF LaunchFrames
  <2>f. /\ UNCHANGED <<failFiles, failRegistry, failLock, failJournal, failResolved, failCapture,
                       failKnown>>
        /\ failLaunch[l].at = "idle"
    BY <1>7 DEF LaunchFrames
  <2>1. failLaunch' \in [FailLaunches -> QueueLaunches(F \cup {s}, failJournal')]
    <3>1. \A x \in QueueLaunches(F, failJournal) : x \in QueueLaunches(F \cup {s}, failJournal)
      BY DEF QueueLaunches
    <3>2. PICK x : x = [failLaunch[l] EXCEPT !.at = "replay", !.frames = s]
      OBVIOUS
    <3>3. x \in QueueLaunches(F \cup {s}, failJournal)
      BY <1>l, <3>2 DEF QueueLaunches, LaunchPlaces
    <3>4. failLaunch' = [failLaunch EXCEPT ![l] = x]
      BY <1>l, <2>0, <3>2
    <3> QED
      BY <1>l, <2>f, <3>1, <3>3, <3>4
  <2>2. AcknowledgeIsLocked'
    BY <1>l, <1>i, <2>0, <2>f DEF QueueLaunches, AcknowledgeIsLocked
  <2> QED BY <1>t, <1>i, <2>f, <2>1, <2>2
       DEF QueueInv, QueueTyped, OneFilePerAttempt, CapturesCarryEvidence,
           EvidenceReachesTheJournal, NoEvidenceLost, DispositionHasEvidence
<1>8. ASSUME NEW l \in FailLaunches, LaunchReplay(l) PROVE QueueInv'
  <2> USE <1>8 DEF LaunchReplay
  <2>1. failJournal \subseteq failJournal'
    OBVIOUS
  <2>2. failLaunch \in [FailLaunches -> QueueLaunches(F, failJournal')]
    <3>1. \A s \in Seq(failJournal) : s \in Seq(failJournal')
      BY <2>1
    <3>2. \A x \in QueueLaunches(F, failJournal) : x \in QueueLaunches(F, failJournal')
      BY <3>1 DEF QueueLaunches
    <3> QED BY <1>l, <3>2
  <2>3. \E G : failLaunch' \in [FailLaunches -> QueueLaunches(G, failJournal')]
    <3>1. CASE failLaunch[l].frames = <<>> \/ ~Journaled(Head(failLaunch[l].frames))
      <4>0. \/ failLaunch' = [failLaunch EXCEPT ![l].at = "ack"]
            \/ failLaunch' = [failLaunch EXCEPT ![l].at = "ack", ![l].failed = TRUE]
        BY <3>1
      <4> HIDE <1>8
      <4>1. failLaunch' \in [FailLaunches -> QueueLaunches(F, failJournal')]
        BY <4>0, <2>2 DEF QueueLaunches, LaunchPlaces
      <4> QED BY <4>1
    <3>2. CASE failLaunch[l].frames # <<>> /\ Journaled(Head(failLaunch[l].frames))
      <4>1. PICK r, t : r = Head(failLaunch[l].frames) /\ t = Tail(failLaunch[l].frames)
        OBVIOUS
      <4>2. Append(failLaunch[l].acks, r) \in Seq(failJournal')
        BY <3>2, <4>1, <2>2 DEF QueueLaunches
      <4>3. failLaunch' = [failLaunch EXCEPT ![l].frames = t, ![l].acks = Append(@, r)]
        BY <3>2, <4>1
      <4>4. failLaunch' \in [FailLaunches -> QueueLaunches(F \cup {t}, failJournal')]
        BY <4>2, <4>3, <2>2 DEF QueueLaunches
      <4> QED BY <4>4
    <3> QED BY <3>1, <3>2
  <2>4. failLaunch'[l].at # "unlink" /\ \A m \in FailLaunches : m # l => failLaunch'[m] = failLaunch[m]
    <3>1. \A m \in FailLaunches : m # l => failLaunch'[m] = failLaunch[m]
      BY <1>l
    <3>2. failLaunch'[l].at \in {"ack", "replay"}
      BY <1>l DEF QueueLaunches
    <3> QED BY <3>1, <3>2
  <2>6. AcknowledgeIsLocked'
    BY <2>4, <1>i DEF AcknowledgeIsLocked
  <2>7. EvidenceReachesTheJournal'
    BY <2>1, <1>i DEF EvidenceReachesTheJournal, NoEvidenceLost, DispositionHasEvidence
  <2> QED BY <1>t, <1>i, <2>3, <2>6, <2>7
       DEF QueueInv, QueueTyped, OneFilePerAttempt, CapturesCarryEvidence
<1>9. ASSUME NEW l \in FailLaunches, LaunchAck(l) PROVE QueueInv'
  <2> USE <1>9 DEF LaunchAck
  <2>0. \/ failLaunch' = [failLaunch EXCEPT ![l].at = "done"]
        \/ failLaunch' = [failLaunch EXCEPT ![l].at = "unlink"]
        \/ failLaunch' = [failLaunch EXCEPT ![l].at = "done", ![l].failed = TRUE]
    OBVIOUS
  <2>1. failLaunch' \in [FailLaunches -> QueueLaunches(F, failJournal')]
    <3>1. failJournal' = failJournal
      OBVIOUS
    <3>2. PICK x, y, z : /\ x = [failLaunch[l] EXCEPT !.at = "done"]
                         /\ y = [failLaunch[l] EXCEPT !.at = "unlink"]
                         /\ z = [failLaunch[l] EXCEPT !.at = "done", !.failed = TRUE]
      OBVIOUS
    <3>3. {x, y, z} \subseteq QueueLaunches(F, failJournal)
      <4> HIDE <1>9
      <4>1. failLaunch[l] \in QueueLaunches(F, failJournal)
        BY <1>l
      <4>2. x \in QueueLaunches(F, failJournal)
        BY <3>2, <4>1 DEF QueueLaunches, LaunchPlaces
      <4>3. y \in QueueLaunches(F, failJournal)
        BY <3>2, <4>1 DEF QueueLaunches, LaunchPlaces
      <4>4. z \in QueueLaunches(F, failJournal)
        BY <3>2, <4>1 DEF QueueLaunches, LaunchPlaces
      <4> QED BY <4>2, <4>3, <4>4
    <3>4. \E w \in {x, y, z} : failLaunch' = [failLaunch EXCEPT ![l] = w]
      <4> HIDE <1>9
      <4> QED BY <1>l, <2>0, <3>2
    <3> HIDE <1>9
    <3> QED BY <1>l, <3>1, <3>3, <3>4
  <2>2. /\ \A m \in FailLaunches : m # l => failLaunch'[m] = failLaunch[m]
        /\ failLaunch'[l].acks = failLaunch[l].acks
    BY <1>l DEF QueueLaunches
  <2>4. CASE failLaunch[l].acks # <<>> /\ Acknowledged(Head(failLaunch[l].acks))
    <3>1. PICK r : r = Head(failLaunch[l].acks)
      OBVIOUS
    <3>2. r \in failFiles /\ r \in failJournal /\ r.attempt \in FailAttempts
      BY <2>4, <3>1, <1>t, <1>a DEF Acknowledged, FailRecords
    <3>3. /\ failRegistry' \in [FailAttempts -> {"absent", "UNRECORDED", "PENDING_SYNC", "STORED"}]
          /\ \A a \in FailAttempts :
               failRegistry'[a] = IF a = r.attempt THEN "STORED" ELSE failRegistry[a]
      BY <2>4, <3>1, <3>2, <1>t
    <3>4. EvidenceReachesTheJournal'
      BY <3>2, <3>3, <1>i DEF EvidenceReachesTheJournal, NoEvidenceLost, DispositionHasEvidence
    <3>5. AcknowledgeIsLocked'
      BY <2>2, <2>4, <3>1, <3>2, <1>i DEF AcknowledgeIsLocked
    <3> QED BY <1>t, <1>i, <2>1, <3>3, <3>4, <3>5
         DEF QueueInv, QueueTyped, OneFilePerAttempt, CapturesCarryEvidence
  <2>5. CASE ~(failLaunch[l].acks # <<>> /\ Acknowledged(Head(failLaunch[l].acks)))
    <3>1. failLaunch'[l].at = "done" /\ UNCHANGED <<failRegistry, failLock>>
      BY <2>5, <1>l DEF QueueLaunches
    <3>2. AcknowledgeIsLocked'
      BY <2>2, <3>1, <1>i DEF AcknowledgeIsLocked
    <3> QED BY <1>t, <1>i, <2>1, <3>1, <3>2
         DEF QueueInv, QueueTyped, OneFilePerAttempt, CapturesCarryEvidence,
             EvidenceReachesTheJournal, NoEvidenceLost, DispositionHasEvidence
  <2> QED BY <2>4, <2>5
<1>10. ASSUME NEW l \in FailLaunches, LaunchUnlink(l) PROVE QueueInv'
  <2> USE <1>10 DEF LaunchUnlink
  <2>0. PICK r : r = Head(failLaunch[l].acks)
    OBVIOUS
  <2>1. r \in failFiles /\ r \in failJournal /\ failLock = l /\ failLaunch[l].acks # <<>>
    BY <2>0, <1>a, <1>i DEF AcknowledgeIsLocked
  <2>2. failFiles' = failFiles \ {r}
    BY <2>0, <2>1, <1>i DEF OneFilePerAttempt
  <2>3. Tail(failLaunch[l].acks) \in Seq(failJournal)
    BY <2>1, <1>a
  <2>4. failLaunch' \in [FailLaunches -> QueueLaunches(F, failJournal')]
    BY <2>3, <1>l DEF QueueLaunches, LaunchPlaces
  <2>5. failLaunch'[l].at = "ack" /\ \A m \in FailLaunches : m # l => failLaunch'[m] = failLaunch[m]
    BY <1>l DEF QueueLaunches
  <2>7. AcknowledgeIsLocked'
    BY <2>1, <2>5, <1>i DEF AcknowledgeIsLocked
  <2>8. EvidenceReachesTheJournal'
    BY <2>1, <2>2, <1>i DEF EvidenceReachesTheJournal, NoEvidenceLost, DispositionHasEvidence
  <2> QED BY <1>t, <1>i, <2>2, <2>4, <2>7, <2>8
       DEF QueueInv, QueueTyped, OneFilePerAttempt, CapturesCarryEvidence
<1>11. ASSUME NEW l \in FailLaunches, LaunchDies(l) PROVE QueueInv'
  <2> USE <1>11 DEF LaunchDies
  <2>0. <<>> \in Seq(failJournal)
    OBVIOUS
  <2>1. failLaunch' \in [FailLaunches -> QueueLaunches(F \cup {<<>>}, failJournal')]
    BY <2>0, <1>l DEF QueueLaunches, LaunchPlaces
  <2>2. failLaunch'[l].at = "idle" /\ \A m \in FailLaunches : m # l => failLaunch'[m] = failLaunch[m]
    BY <1>l
  <2>3. AcknowledgeIsLocked'
    BY <2>2, <1>i DEF AcknowledgeIsLocked
  <2> QED BY <1>t, <1>i, <2>1, <2>3
       DEF QueueInv, QueueTyped, OneFilePerAttempt, CapturesCarryEvidence,
           EvidenceReachesTheJournal, NoEvidenceLost, DispositionHasEvidence
<1>12. ASSUME NEW a \in FailAttempts, Resolve(a) PROVE QueueInv'
  BY <1>12, <1>t, <1>i DEF Resolve, QueueInv, QueueTyped, OneFilePerAttempt, CapturesCarryEvidence,
     AcknowledgeIsLocked, EvidenceReachesTheJournal, NoEvidenceLost, DispositionHasEvidence
<1> QED BY <1>1, <1>2, <1>3, <1>4, <1>5, <1>6, <1>7, <1>8, <1>9, <1>10, <1>11, <1>12
     DEF FailNext, LaunchSteps

\* Evidence that was accepted into the queue is never lost, and the registry never claims
\* more than the queue and the journal hold, for any number of captures and launches that
\* overlap and die anywhere (failure_queue.py, acknowledge and closure_gate).
THEOREM EvidenceIsNeverLost == FailSpec => []EvidenceReachesTheJournal
<1>1. QueueInv => EvidenceReachesTheJournal
  BY DEF QueueInv
<1> QED BY <1>1, QueueStarts, QueueStep, PTL DEF FailSpec

-----------------------------------------------------------------------------
(* PriorityClaims.                                                         *)

ClaimFields == {"kind", "subject", "supersedes", "relation", "rev", "source", "state"}

\* A row is the one its source asked for, and its revision is one the work had.
RowsFit ==
  \A i \in Stored :
    /\ DOMAIN pcClaims[i] = ClaimFields
    /\ pcClaims[i].source.call \in {"set", "clear", "agent"}
    /\ i = ClaimId(pcClaims[i].source)
    /\ pcClaims[i].rev \in Nat /\ pcClaims[i].rev <= pcRev

\* Every row of the agent has its intent in the journal.
AgentRowsJournaled == \A i \in Stored : i[1] = "agent" => i[2] \in AgentEffects

\* What a person's call carries to its transaction.
PeopleFit ==
  /\ DOMAIN pcPerson = PcPeople
  /\ \A p \in PcPeople : pcPerson[p].at = "write" =>
       pcPerson[p].r.call \in {"set", "clear"} /\ pcPerson[p].r.rev \in Nat

\* The agent's call holds its locks over one intent that nobody else can settle, and
\* knows whether its row is in the table.
AgentFits ==
  pcAgent.at \in {"send", "finish"} =>
    /\ pcAgent.r.call = "agent" /\ pcAgent.r.rev \in Nat /\ pcAgent.r.rev <= pcRev
    /\ pcAgent.r.op \in AgentEffects /\ pcEffects[pcAgent.r.op].effect = "unknown"
    /\ pcAgent.at = "send" => ClaimId(pcAgent.r) \notin Stored
    /\ pcAgent.at = "finish" =>
         \/ pcAgent.outcome = "applied" /\ ClaimId(pcAgent.r) \in Stored
         \/ pcAgent.outcome = "not_sent" /\ ClaimId(pcAgent.r) \notin Stored

\* The claims a reader holds were made for revisions up to the one it read them at.
ReadFits ==
  /\ pcRev \in Nat
  /\ pcRead.at = "revision" =>
       /\ pcRead.rev \in Nat /\ pcRead.rev <= pcRev
       /\ \A c \in pcRead.claims : c.rev \in Nat /\ c.rev <= pcRead.rev

\* A claim has at most one successor (ClaimsAreChains without counting).
OneSuccessor ==
  \A i, j \in Stored :
    pcClaims[i].supersedes = pcClaims[j].supersedes /\ pcClaims[i].supersedes # NoClaim => i = j

\* The rest of ClaimsAreChains.
ChainsHold ==
  \A i \in Stored :
    /\ pcClaims[i].state = "CURRENT" <=>
         i[1] # "clear" /\ \A j \in Stored : pcClaims[j].supersedes # i
    /\ pcClaims[i].supersedes # NoClaim =>
         /\ pcClaims[i].supersedes \in Stored
         /\ pcClaims[pcClaims[i].supersedes].kind = pcClaims[i].kind
         /\ pcClaims[pcClaims[i].supersedes].subject = pcClaims[i].subject

ClaimsInv ==
  RowsFit /\ AgentRowsJournaled /\ PeopleFit /\ AgentFits /\ ReadFits /\ OneSuccessor /\ ChainsHold
    /\ AnsweredClaimIsStored /\ JournalMatchesClaims /\ KnowledgeWasTrue

\* No claim and no call at first.
LEMMA ClaimsStart == PcInit => ClaimsInv
<1> SUFFICES ASSUME PcInit PROVE ClaimsInv
  OBVIOUS
<1>1. Stored = {} /\ AgentEffects = {}
  BY DEF PcInit, Stored, AgentEffects
<1>2. RowsFit /\ AgentRowsJournaled /\ OneSuccessor /\ ChainsHold /\ JournalMatchesClaims
  BY <1>1 DEF RowsFit, AgentRowsJournaled, OneSuccessor, ChainsHold, JournalMatchesClaims
<1>3. PeopleFit /\ AgentFits /\ ReadFits /\ AnsweredClaimIsStored /\ KnowledgeWasTrue
  BY DEF PcInit, PeopleFit, AgentFits, ReadFits, AnsweredClaimIsStored, KnowledgeWasTrue
<1> QED BY <1>2, <1>3 DEF ClaimsInv

\* What an insert does to the table: one row more, and the state of the predecessor.
LEMMA InsertedRows ==
  ASSUME NEW r, RowsFit, Insertable(r), Insert(r)
  PROVE  /\ Stored' = Stored \cup {ClaimId(r)} /\ ClaimId(r) \notin Stored
         /\ DOMAIN pcClaims'[ClaimId(r)] = ClaimFields
         /\ pcClaims'[ClaimId(r)].source = r
         /\ pcClaims'[ClaimId(r)].supersedes = r.target
         /\ pcClaims'[ClaimId(r)].subject = r.subject
         /\ pcClaims'[ClaimId(r)].kind = KindOf(r)
         /\ pcClaims'[ClaimId(r)].rev = IF r.call = "agent" THEN r.rev ELSE 0
         /\ pcClaims'[ClaimId(r)].state = IF r.call = "clear" THEN "SUPERSEDED" ELSE "CURRENT"
         /\ \A i \in Stored :
              /\ DOMAIN pcClaims'[i] = ClaimFields
              /\ \A f \in ClaimFields \ {"state"} : pcClaims'[i][f] = pcClaims[i][f]
              /\ pcClaims'[i].state = IF i = r.target THEN "SUPERSEDED" ELSE pcClaims[i].state
<1> DEFINE entry == [f \in DOMAIN NewClaim(r) \cup {"state"} |->
                     IF f = "state" THEN IF r.call = "clear" THEN "SUPERSEDED" ELSE "CURRENT"
                     ELSE NewClaim(r)[f]]
<1>1. ClaimId(r) \notin Stored /\ (r.target = NoClaim \/ r.target \in Stored)
  BY DEF Insertable, KeysFree, InScope
<1>2. pcClaims' = [i \in Stored \cup {ClaimId(r)} |->
                    CASE i = ClaimId(r) -> entry
                      [] i = r.target -> [pcClaims[i] EXCEPT !.state = "SUPERSEDED"]
                      [] OTHER -> pcClaims[i]]
  BY DEF Insert
<1>3. DOMAIN NewClaim(r) = ClaimFields \ {"state"}
  BY DEF NewClaim, ClaimFields
<1>4. DOMAIN entry = ClaimFields
  BY <1>3 DEF ClaimFields
<1>5. /\ entry.source = r /\ entry.supersedes = r.target /\ entry.subject = r.subject
      /\ entry.kind = KindOf(r) /\ entry.rev = (IF r.call = "agent" THEN r.rev ELSE 0)
      /\ entry.state = IF r.call = "clear" THEN "SUPERSEDED" ELSE "CURRENT"
  BY <1>3 DEF NewClaim, ClaimFields
<1> HIDE DEF entry
<1>6. Stored' = Stored \cup {ClaimId(r)} /\ pcClaims'[ClaimId(r)] = entry
  <2>1. PICK d : d = ClaimId(r)
    OBVIOUS
  <2>2. \A i \in Stored \cup {d} : pcClaims'[i] =
          CASE i = d -> entry
            [] i = r.target -> [pcClaims[i] EXCEPT !.state = "SUPERSEDED"]
            [] OTHER -> pcClaims[i]
    BY <2>1, <1>2
  <2>3. d # r.target
    BY <2>1, <1>1 DEF ClaimId, NoClaim
  <2>4. pcClaims'[d] = entry
    BY <2>2, <2>3
  <2>5. DOMAIN pcClaims' = Stored \cup {d}
    BY <2>1, <1>2
  <2> QED BY <2>1, <2>4, <2>5 DEF Stored
<1>7. ASSUME NEW i \in Stored
      PROVE /\ DOMAIN pcClaims'[i] = ClaimFields
            /\ \A f \in ClaimFields \ {"state"} : pcClaims'[i][f] = pcClaims[i][f]
            /\ pcClaims'[i].state = IF i = r.target THEN "SUPERSEDED" ELSE pcClaims[i].state
  <2>1. pcClaims'[i] = IF i = r.target THEN [pcClaims[i] EXCEPT !.state = "SUPERSEDED"] ELSE pcClaims[i]
    BY <1>1, <1>2
  <2>2. DOMAIN pcClaims[i] = ClaimFields
    BY DEF RowsFit
  <2> QED BY <2>1, <2>2 DEF ClaimFields
<1> QED BY <1>1, <1>4, <1>5, <1>6, <1>7

\* An insert keeps the table a set of chains.
LEMMA InsertKeepsChains ==
  ASSUME NEW r, r.call \in {"set", "clear", "agent"}, ReadFits, pcRev' = pcRev,
         r.call = "agent" => r.rev \in Nat /\ r.rev <= pcRev,
         RowsFit, OneSuccessor, ChainsHold, Insertable(r), Insert(r)
  PROVE  RowsFit' /\ OneSuccessor' /\ ChainsHold'
<1> DEFINE id == ClaimId(r)
<1>0. id[1] = r.call /\ id # NoClaim /\ \A i \in Stored : i # NoClaim
  <2>1. \A a, b : <<a, b>> # <<>>
    OBVIOUS
  <2> QED BY <2>1 DEF ClaimId, NoClaim, RowsFit
<1>1. /\ Stored' = Stored \cup {id} /\ id \notin Stored
      /\ DOMAIN pcClaims'[id] = ClaimFields
      /\ pcClaims'[id].source = r
      /\ pcClaims'[id].supersedes = r.target
      /\ pcClaims'[id].subject = r.subject
      /\ pcClaims'[id].kind = KindOf(r)
      /\ pcClaims'[id].rev = (IF r.call = "agent" THEN r.rev ELSE 0)
      /\ pcClaims'[id].state = IF r.call = "clear" THEN "SUPERSEDED" ELSE "CURRENT"
  BY InsertedRows
<1>2. ASSUME NEW i \in Stored
      PROVE /\ DOMAIN pcClaims'[i] = ClaimFields
            /\ pcClaims'[i].source = pcClaims[i].source /\ pcClaims'[i].rev = pcClaims[i].rev
            /\ pcClaims'[i].supersedes = pcClaims[i].supersedes
            /\ pcClaims'[i].kind = pcClaims[i].kind /\ pcClaims'[i].subject = pcClaims[i].subject
            /\ pcClaims'[i].state = IF i = r.target THEN "SUPERSEDED" ELSE pcClaims[i].state
  BY InsertedRows DEF ClaimFields
<1>3. /\ \/ r.target = NoClaim /\ r.call # "clear"
         \/ /\ r.target \in Stored /\ pcClaims[r.target].state = "CURRENT"
            /\ pcClaims[r.target].kind = KindOf(r) /\ pcClaims[r.target].subject = r.subject
      /\ r.target = NoClaim \/ \A i \in Stored : pcClaims[i].supersedes # r.target
  BY DEF Insertable, InScope, KeysFree
<1>4. id = ClaimId(pcClaims'[id].source)
  BY <1>1
<1> HIDE DEF id
<1>5. RowsFit'
  <2>1. \A i \in Stored' :
          /\ DOMAIN pcClaims'[i] = ClaimFields
          /\ pcClaims'[i].source.call \in {"set", "clear", "agent"}
          /\ i = ClaimId(pcClaims'[i].source)
    BY <1>1, <1>2, <1>4 DEF RowsFit
  <2>2. \A i \in Stored' : pcClaims'[i].rev \in Nat /\ pcClaims'[i].rev <= pcRev'
    BY <1>1, <1>2 DEF RowsFit, ReadFits
  <2>3. \A x : ClaimId(x)' = ClaimId(x)
    BY DEF ClaimId
  <2> QED BY <2>1, <2>2, <2>3 DEF RowsFit, ClaimId
<1>6. OneSuccessor'
  BY <1>1, <1>2, <1>3 DEF OneSuccessor, NoClaim
<1>7. ASSUME NEW i \in Stored'
      PROVE pcClaims'[i].supersedes # NoClaim =>
         /\ pcClaims'[i].supersedes \in Stored'
         /\ pcClaims'[pcClaims'[i].supersedes].kind = pcClaims'[i].kind
         /\ pcClaims'[pcClaims'[i].supersedes].subject = pcClaims'[i].subject
  <2>1. CASE i = id
    BY <2>1, <1>1, <1>2, <1>3
  <2>2. CASE i \in Stored
    BY <2>2, <1>1, <1>2 DEF ChainsHold
  <2> QED BY <2>1, <2>2, <1>1
<1>8. ASSUME NEW i \in Stored'
      PROVE pcClaims'[i].state = "CURRENT" <=>
              i[1] # "clear" /\ \A j \in Stored' : pcClaims'[j].supersedes # i
  <2>1. CASE i = id
    <3>1. \A j \in Stored' : pcClaims'[j].supersedes # id
      BY <1>0, <1>1, <1>2, <1>3 DEF ChainsHold
    <3> QED BY <2>1, <3>1, <1>0, <1>1
  <2>2. CASE i \in Stored /\ i = r.target
    BY <2>2, <1>1, <1>2
  <2>3. CASE i \in Stored /\ i # r.target
    <3>1. pcClaims'[i].state = pcClaims[i].state
      BY <2>3, <1>2
    <3>2. (\A j \in Stored' : pcClaims'[j].supersedes # i) <=> (\A j \in Stored : pcClaims[j].supersedes # i)
      BY <2>3, <1>1, <1>2
    <3> QED BY <2>3, <3>1, <3>2 DEF ChainsHold
  <2> QED BY <2>1, <2>2, <2>3, <1>1
<1> QED BY <1>5, <1>6, <1>7, <1>8 DEF ChainsHold, NoClaim

\* Steps that leave the table, the revision, the journal and the agent alone.
LEMMA TableUntouched ==
  ASSUME ClaimsInv, UNCHANGED <<pcRev, pcClaims, pcEffects, pcAgent>>
  PROVE  (RowsFit /\ AgentRowsJournaled /\ AgentFits /\ OneSuccessor /\ ChainsHold
            /\ JournalMatchesClaims)'
BY DEF ClaimsInv, RowsFit, AgentRowsJournaled, AgentFits, OneSuccessor, ChainsHold,
   JournalMatchesClaims, Stored, AgentEffects, ClaimId, NoClaim

\* An insert keeps what was answered and what is true of the agent's own intents, as
\* long as it is not the agent's row that comes.
LEMMA InsertKeepsAnswers ==
  ASSUME NEW r, RowsFit, Insertable(r), Insert(r), AnsweredClaimIsStored
  PROVE  /\ \A a \in pcAnswers : a[1] \in Stored' /\ pcClaims'[a[1]].source = a[2]
         /\ ClaimId(r) \in Stored' /\ pcClaims'[ClaimId(r)].source = r
BY InsertedRows DEF AnsweredClaimIsStored, ClaimFields

\* Every step of a claim's transaction, and every change around it, keeps the invariant.
LEMMA ClaimsStep == ClaimsInv /\ [PcNext]_pcVars => ClaimsInv'
<1> SUFFICES ASSUME ClaimsInv, [PcNext]_pcVars PROVE ClaimsInv'
  OBVIOUS
<1>i. RowsFit /\ AgentRowsJournaled /\ PeopleFit /\ AgentFits /\ ReadFits /\ OneSuccessor /\ ChainsHold
      /\ AnsweredClaimIsStored /\ JournalMatchesClaims /\ KnowledgeWasTrue
  BY DEF ClaimsInv
<1>1. CASE UNCHANGED pcVars
  <2>1. (PeopleFit /\ ReadFits /\ AnsweredClaimIsStored /\ KnowledgeWasTrue)'
    BY <1>1, <1>i DEF pcVars, PeopleFit, ReadFits, AnsweredClaimIsStored, KnowledgeWasTrue, Stored
  <2> QED BY <1>1, <2>1, TableUntouched DEF pcVars, ClaimsInv
<1>2. ASSUME NEW p \in PcPeople, PersonBegins(p) PROVE ClaimsInv'
  <2> USE <1>2 DEF PersonBegins
  <2>1. PICK r \in PcRequests :
          /\ r.call # "agent" /\ WellFormed(r)
          /\ IF ClaimId(r) \in Stored
             THEN /\ Same(pcClaims[ClaimId(r)], NewClaim(r))
                  /\ pcAnswers' = pcAnswers \cup {<<ClaimId(r), r>>}
                  /\ UNCHANGED pcPerson
             ELSE /\ r.subject = "WORK" => r.rev = pcRev
                  /\ pcPerson' = [pcPerson EXCEPT ![p] = [at |-> "write", r |-> r]]
                  /\ UNCHANGED pcAnswers
    OBVIOUS
  <2>2. r.call \in {"set", "clear"} /\ r.rev \in Nat
    BY <2>1, PriorityConstants DEF PcRequests
  <2>3. PeopleFit'
    BY <2>1, <2>2, <1>i DEF PeopleFit
  <2>4. AnsweredClaimIsStored'
    <3>1. CASE ClaimId(r) \in Stored
      <4>1. pcClaims[ClaimId(r)].source = r
        BY <3>1, <2>1 DEF Same, NewClaim
      <4> QED BY <3>1, <4>1, <2>1, <1>i DEF AnsweredClaimIsStored, Stored
    <3>2. CASE ClaimId(r) \notin Stored
      BY <3>2, <2>1, <1>i DEF AnsweredClaimIsStored, Stored
    <3> QED BY <3>1, <3>2
  <2>5. (ReadFits /\ KnowledgeWasTrue)'
    BY <1>i DEF ReadFits, KnowledgeWasTrue
  <2> QED BY <2>3, <2>4, <2>5, TableUntouched DEF ClaimsInv
<1>3. ASSUME NEW p \in PcPeople, PersonWrites(p) PROVE ClaimsInv'
  <2> USE <1>3 DEF PersonWrites
  <2>1. PICK r : r = pcPerson[p].r
    OBVIOUS
  <2>2. r.call \in {"set", "clear"} /\ r.rev \in Nat
    BY <2>1, <1>i DEF PeopleFit
  <2>3. (PeopleFit /\ ReadFits /\ KnowledgeWasTrue)'
    BY <1>i DEF PeopleFit, ReadFits, KnowledgeWasTrue
  <2>4. CASE UNCHANGED pcClaims
    <3>1. \/ pcAnswers' = pcAnswers
          \/ /\ ClaimId(r) \in Stored /\ pcClaims[ClaimId(r)].source = r
             /\ pcAnswers' = pcAnswers \cup {<<ClaimId(r), r>>}
          \/ Insertable(r) /\ Insert(r)
      BY <2>1 DEF Same, NewClaim
    <3>2. ~(Insertable(r) /\ Insert(r))
      <4>1. SUFFICES ASSUME Insertable(r), Insert(r) PROVE FALSE
        OBVIOUS
      <4> QED BY <4>1, <2>4, <1>i, InsertedRows DEF Stored
    <3>3. AnsweredClaimIsStored'
      BY <3>1, <3>2, <2>4, <1>i DEF AnsweredClaimIsStored, Stored
    <3> QED BY <2>3, <2>4, <3>3, TableUntouched DEF ClaimsInv
  <2>5. CASE ~UNCHANGED pcClaims
    <3>1. /\ Insertable(r) /\ Insert(r)
          /\ pcAnswers' = pcAnswers \/ pcAnswers' = pcAnswers \cup {<<ClaimId(r), r>>}
      BY <2>1, <2>5
    <3>2. RowsFit' /\ OneSuccessor' /\ ChainsHold'
      BY <3>1, <2>2, <1>i, InsertKeepsChains
    <3>3. AnsweredClaimIsStored'
      BY <3>1, <1>i, InsertKeepsAnswers DEF AnsweredClaimIsStored
    <3>4. Stored' = Stored \cup {ClaimId(r)} /\ AgentEffects' = AgentEffects
      BY <3>1, <1>i, InsertedRows DEF AgentEffects
    <3>5. ClaimId(r)[1] # "agent" /\ \A o : <<"agent", o>> # ClaimId(r)
      BY <2>2 DEF ClaimId
    <3>6. AgentRowsJournaled'
      BY <3>4, <3>5, <1>i DEF AgentRowsJournaled
    <3>7. JournalMatchesClaims'
      BY <3>4, <3>5, <1>i DEF JournalMatchesClaims
    <3>8. AgentFits'
      BY <3>4, <3>5, <1>i DEF AgentFits, ClaimId
    <3> QED BY <2>3, <3>2, <3>3, <3>6, <3>7, <3>8 DEF ClaimsInv
  <2> QED BY <2>4, <2>5
<1>4. ASSUME AgentBegins PROVE ClaimsInv'
  <2> USE <1>4 DEF AgentBegins
  <2>1. PICK r \in PcRequests :
          /\ r.call = "agent"
          /\ IF r.op \in AgentEffects
             THEN /\ pcEffects[r.op].r = r /\ pcEffects[r.op].effect = "unknown"
                  /\ SetEffect(r.op, [r |-> r, effect |-> Reconciled(r)])
                  /\ UNCHANGED pcAgent
             ELSE /\ pcGranted
                  /\ \A o \in AgentEffects : pcEffects[o].effect # "unknown"
                  /\ r.rev = pcRev
                  /\ SetEffect(r.op, [r |-> r, effect |-> "unknown"])
                  /\ pcAgent' = [at |-> "send", r |-> r]
    OBVIOUS
  <2>2. Stored' = Stored
    BY DEF Stored
  <2>3. (RowsFit /\ PeopleFit /\ ReadFits /\ OneSuccessor /\ ChainsHold /\ AnsweredClaimIsStored
           /\ KnowledgeWasTrue)'
    BY <2>2, <1>i DEF RowsFit, PeopleFit, ReadFits, OneSuccessor, ChainsHold, AnsweredClaimIsStored,
       KnowledgeWasTrue, ClaimId, NoClaim
  <2>4. PICK e : e = IF r.op \in AgentEffects THEN Reconciled(r) ELSE "unknown"
    OBVIOUS
  <2>5. /\ AgentEffects' = AgentEffects \cup {r.op} /\ pcEffects'[r.op].effect = e
        /\ \A o \in AgentEffects : o # r.op => pcEffects'[o] = pcEffects[o]
    BY <2>1, <2>4 DEF SetEffect, AgentEffects
  <2>6. ClaimId(r) = <<"agent", r.op>>
    BY <2>1 DEF ClaimId
  <2>7. AgentRowsJournaled'
    BY <2>2, <2>5, <1>i DEF AgentRowsJournaled
  <2>8. JournalMatchesClaims'
    <3>1. (e = "applied" => ClaimId(r) \in Stored) /\ (e = "not_sent" => ClaimId(r) \notin Stored)
      BY <2>4 DEF Reconciled
    <3> QED BY <3>1, <2>2, <2>5, <2>6, <1>i DEF JournalMatchesClaims
  <2>9. AgentFits'
    <3>1. CASE r.op \in AgentEffects
      BY <3>1, <2>1 DEF AgentFits
    <3>2. CASE r.op \notin AgentEffects
      <4>1. pcAgent' = [at |-> "send", r |-> r] /\ r.rev = pcRev /\ e = "unknown"
        BY <3>2, <2>1, <2>4
      <4>2. ClaimId(r) \notin Stored
        <5>1. <<"agent", r.op>>[1] = "agent" /\ <<"agent", r.op>>[2] = r.op
          OBVIOUS
        <5> QED BY <5>1, <3>2, <2>6, <1>i DEF AgentRowsJournaled
      <4>3. pcRev \in Nat /\ pcRev' = pcRev
        BY <1>i DEF ReadFits
      <4> QED BY <4>1, <4>2, <4>3, <2>1, <2>2, <2>5 DEF AgentFits, ClaimId
    <3> QED BY <3>1, <3>2
  <2> QED BY <2>3, <2>7, <2>8, <2>9 DEF ClaimsInv
<1>5. ASSUME AgentSends PROVE ClaimsInv'
  <2> USE <1>5 DEF AgentSends
  <2>1. PICK r : r = pcAgent.r
    OBVIOUS
  <2>2. /\ r.call = "agent" /\ r.rev \in Nat /\ r.rev <= pcRev
        /\ r.op \in AgentEffects /\ pcEffects[r.op].effect = "unknown" /\ ClaimId(r) \notin Stored
    BY <2>1, <1>i DEF AgentFits
  <2>3. (PeopleFit /\ ReadFits /\ KnowledgeWasTrue)'
    BY <1>i DEF PeopleFit, ReadFits, KnowledgeWasTrue
  <2>4. AgentEffects' = AgentEffects
    BY DEF AgentEffects
  <2>5. CASE Insertable(r) /\ Insert(r) /\ pcAgent' \in {[at |-> "finish", r |-> r, outcome |-> "applied"],
                                                         [at |-> "idle"]}
    <3>1. RowsFit' /\ OneSuccessor' /\ ChainsHold'
      BY <2>2, <2>5, <1>i, InsertKeepsChains
    <3>2. AnsweredClaimIsStored'
      BY <2>5, <1>i, InsertKeepsAnswers DEF AnsweredClaimIsStored
    <3>3. Stored' = Stored \cup {ClaimId(r)}
      BY <2>5, <1>i, InsertedRows
    <3>4. ClaimId(r) = <<"agent", r.op>>
      BY <2>2 DEF ClaimId
    <3>5. AgentRowsJournaled'
      BY <3>3, <3>4, <2>2, <2>4, <1>i DEF AgentRowsJournaled
    <3>6. JournalMatchesClaims'
      <4>1. \A o \in AgentEffects' : pcEffects'[o].effect = "applied" => <<"agent", o>> \in Stored'
        BY <3>3, <2>4, <1>i DEF JournalMatchesClaims
      <4>2. \A o \in AgentEffects' : pcEffects'[o].effect = "not_sent" => <<"agent", o>> \notin Stored'
        <5>1. \A o : <<"agent", o>> = <<"agent", r.op>> => o = r.op
          OBVIOUS
        <5> QED BY <5>1, <3>3, <3>4, <2>2, <2>4, <1>i DEF JournalMatchesClaims
      <4> QED BY <4>1, <4>2 DEF JournalMatchesClaims
    <3>7. AgentFits'
      BY <3>3, <2>2, <2>4, <2>5 DEF AgentFits, ClaimId
    <3> QED BY <2>3, <3>1, <3>2, <3>5, <3>6, <3>7 DEF ClaimsInv
  <2>6. CASE /\ UNCHANGED pcClaims
             /\ pcAgent' \in {[at |-> "finish", r |-> r, outcome |-> "not_sent"], [at |-> "idle"]}
    <3>1. Stored' = Stored
      BY <2>6 DEF Stored
    <3>2. (RowsFit /\ AgentRowsJournaled /\ OneSuccessor /\ ChainsHold /\ AnsweredClaimIsStored
             /\ JournalMatchesClaims)'
      BY <2>4, <2>6, <3>1, <1>i DEF RowsFit, AgentRowsJournaled, OneSuccessor, ChainsHold,
         AnsweredClaimIsStored, JournalMatchesClaims, ClaimId, NoClaim
    <3>3. AgentFits'
      BY <3>1, <2>2, <2>4, <2>6 DEF AgentFits, ClaimId
    <3> QED BY <2>3, <3>2, <3>3 DEF ClaimsInv
  <2> QED BY <2>1, <2>5, <2>6
<1>6. ASSUME AgentFinishes PROVE ClaimsInv'
  <2> USE <1>6 DEF AgentFinishes
  <2>1. PICK r, e : r = pcAgent.r /\ e = pcAgent.outcome
    OBVIOUS
  <2>2. /\ r.op \in AgentEffects /\ pcEffects[r.op].effect = "unknown" /\ ClaimId(r) = <<"agent", r.op>>
        /\ \/ e = "applied" /\ ClaimId(r) \in Stored
           \/ e = "not_sent" /\ ClaimId(r) \notin Stored
    <3>1. r.call = "agent" /\ r.op \in AgentEffects /\ pcEffects[r.op].effect = "unknown"
      BY <2>1, <1>i DEF AgentFits
    <3>3. \/ e = "applied" /\ ClaimId(r) \in Stored
          \/ e = "not_sent" /\ ClaimId(r) \notin Stored
      BY <2>1, <1>i DEF AgentFits
    <3> QED BY <3>1, <3>3 DEF ClaimId
  <2>3. Stored' = Stored
    BY DEF Stored
  <2>4. (RowsFit /\ PeopleFit /\ ReadFits /\ OneSuccessor /\ ChainsHold /\ AnsweredClaimIsStored
           /\ KnowledgeWasTrue /\ AgentFits)'
    BY <2>3, <1>i DEF RowsFit, PeopleFit, ReadFits, OneSuccessor, ChainsHold, AnsweredClaimIsStored,
       KnowledgeWasTrue, AgentFits, ClaimId, NoClaim
  <2>5. /\ AgentEffects' = AgentEffects
        /\ pcEffects'[r.op].effect \in {e, "unknown"}
        /\ \A o \in AgentEffects : o # r.op => pcEffects'[o] = pcEffects[o]
    BY <2>1, <2>2 DEF SetEffect, AgentEffects
  <2>6. AgentRowsJournaled' /\ JournalMatchesClaims'
    BY <2>2, <2>3, <2>5, <1>i DEF AgentRowsJournaled, JournalMatchesClaims
  <2> QED BY <2>4, <2>6 DEF ClaimsInv
<1>7. ASSUME ReadClaims PROVE ClaimsInv'
  <2> USE <1>7 DEF ReadClaims
  <2>1. ReadFits'
    <3>1. \A c \in CurrentClaims : c.rev \in Nat /\ c.rev <= pcRev
      BY <1>i DEF CurrentClaims, RowsFit
    <3>2. pcRead'.rev = pcRev /\ pcRead'.claims = CurrentClaims
      OBVIOUS
    <3> QED BY <3>1, <3>2, <1>i DEF ReadFits
  <2>2. (PeopleFit /\ AnsweredClaimIsStored /\ KnowledgeWasTrue)'
    BY <1>i DEF PeopleFit, AnsweredClaimIsStored, KnowledgeWasTrue, Stored
  <2> QED BY <2>1, <2>2, TableUntouched DEF ClaimsInv
<1>8. ASSUME ReadRevision PROVE ClaimsInv'
  <2> USE <1>8 DEF ReadRevision
  <2>1. PICK k \in {Classification(pcRead.claims, pcRev), "UNKNOWN_UNRANKED"} :
          pcRead' = [at |-> "answered", knowledge |-> k,
                     then |-> Classification(pcRead.claims, pcRead.rev)]
    OBVIOUS
  <2>2. KnowledgeWasTrue'
    <3>1. SUFFICES ASSUME k \in {"DIRECT_CURRENT", "DERIVED_CURRENT"}
                   PROVE Classification(pcRead.claims, pcRead.rev) = k
      BY <2>1 DEF KnowledgeWasTrue
    <3>2. k = Classification(pcRead.claims, pcRev)
      BY <2>1, <3>1
    <3>3. ~ConflictingBands(pcRead.claims) /\ ~StaleAt(pcRead.claims, pcRev)
      BY <3>1, <3>2 DEF Classification
    <3>4. ~StaleAt(pcRead.claims, pcRead.rev)
      BY <3>3, <1>i DEF StaleAt, ReadFits
    <3> QED BY <3>2, <3>3, <3>4 DEF Classification
  <2>3. (PeopleFit /\ AnsweredClaimIsStored /\ ReadFits)'
    BY <2>1, <1>i DEF PeopleFit, AnsweredClaimIsStored, ReadFits, Stored
  <2> QED BY <2>2, <2>3, TableUntouched DEF ClaimsInv
<1>9. ASSUME WorkMoves PROVE ClaimsInv'
  <2> USE <1>9 DEF WorkMoves
  <2>1. pcRev \in Nat /\ pcRev' = pcRev + 1
    BY <1>i DEF ReadFits
  <2>2. Stored' = Stored /\ AgentEffects' = AgentEffects
    BY DEF Stored, AgentEffects
  <2>3. RowsFit'
    BY <2>1, <2>2, <1>i DEF RowsFit, ClaimId
  <2>4. ReadFits' /\ AgentFits'
    BY <2>1, <2>2, <1>i DEF ReadFits, AgentFits, ClaimId
  <2>5. (PeopleFit /\ AnsweredClaimIsStored /\ KnowledgeWasTrue /\ AgentRowsJournaled /\ OneSuccessor
           /\ ChainsHold /\ JournalMatchesClaims)'
    BY <2>2, <1>i DEF PeopleFit, AnsweredClaimIsStored, KnowledgeWasTrue, AgentRowsJournaled,
       OneSuccessor, ChainsHold, JournalMatchesClaims, NoClaim
  <2> QED BY <2>3, <2>4, <2>5 DEF ClaimsInv
<1>10. ASSUME GrantEnds PROVE ClaimsInv'
  <2> USE <1>10 DEF GrantEnds
  <2>1. (PeopleFit /\ ReadFits /\ AnsweredClaimIsStored /\ KnowledgeWasTrue)'
    BY <1>i DEF PeopleFit, ReadFits, AnsweredClaimIsStored, KnowledgeWasTrue, Stored
  <2> QED BY <2>1, TableUntouched DEF ClaimsInv
<1> QED BY <1>1, <1>2, <1>3, <1>4, <1>5, <1>6, <1>7, <1>8, <1>9, <1>10 DEF PcNext

\* A set without two different members has at most one.
LEMMA AtMostOne ==
  ASSUME NEW S, \A x, y \in S : x = y
  PROVE  Cardinality(S) <= 1
<1>1. CASE S = {}
  BY <1>1, FS_EmptySet
<1>2. CASE S # {}
  <2>1. PICK x : x \in S
    BY <1>2
  <2>2. S = {x}
    BY <2>1
  <2> QED BY <2>2, FS_Singleton
<1> QED BY <1>1, <1>2

\* Claims written, cleared, retried and read at once by any number of people and the agent
\* (priority_claims.py): the chains of the table never fork, every "ok" is backed by its
\* row, the journal of the agent's intents agrees with the table, and a reader that is
\* told of a current priority is told what was true when the claims were read.
THEOREM ClaimsStaySound == PcSpec => []ClaimsAreSound
<1>1. ClaimsInv => ClaimsAreSound
  <2> SUFFICES ASSUME ClaimsInv PROVE ClaimsAreSound
    OBVIOUS
  <2>1. OneSuccessor /\ ChainsHold /\ RowsFit /\ AnsweredClaimIsStored /\ JournalMatchesClaims /\ KnowledgeWasTrue
    BY DEF ClaimsInv
  <2>2. \A i \in Stored : Cardinality({j \in Stored : pcClaims[j].supersedes = i}) <= 1
    <3> TAKE i \in Stored
    <3>1. i # NoClaim
      <4>1. \A a, b : <<a, b>> # <<>>
        OBVIOUS
      <4> QED BY <4>1, <2>1 DEF RowsFit, ClaimId, NoClaim
    <3> QED BY <3>1, <2>1, AtMostOne DEF OneSuccessor
  <2> QED BY <2>1, <2>2 DEF ClaimsAreSound, ClaimsAreChains, ChainsHold
<1> QED BY <1>1, ClaimsStart, ClaimsStep, PTL DEF PcSpec

-----------------------------------------------------------------------------
(* ActivationContinuity.                                                   *)

AcPhases == {NoPhase, "VERIFY_NOW", "VERIFYING", "ACCEPTED"}
AcStates == {"VERIFY_NOW", "VERIFYING", "ACCEPTED", "BLOCKED"} \cup AcTerminal
AcRecords ==
  [state : AcStates, phase : AcPhases, acceptance : {"NOT_RUN", "PASS", "FAIL"},
   adoption : {"NOT_REQUIRED", "PENDING", "ADOPTED"}, technical : BOOLEAN]
AcIntents == [op : AcOps, transition : AcTransitions, seen : Nat]
AcRevisions ==
  [state : AcStates, phase : AcPhases, acceptance : {"NOT_RUN", "PASS", "FAIL"},
   adoption : {"NOT_REQUIRED", "PENDING", "ADOPTED"}, technical : BOOLEAN,
   op : AcOps, intent : AcIntents]
AcInserts == [at : {"insert"}, intent : AcIntents, generation : Nat, record : AcRecords]

AcTyped ==
  /\ acContract \in AcAdoption /\ acTrue \in BOOLEAN
  /\ acChain \in Seq(AcRevisions)
  /\ acCalls \in [AcClients -> {AcIdle} \cup AcInserts]

\* A revision that follows no other opens the obligation.
Opens(r, t) == t = "ACTIVATED" /\ r = Opened(TRUE)

\* A revision that follows one: decided on it, as the policy says.
FollowsFrom(last, r, t) ==
  /\ Applicable(last, t) /\ WellSealed(last)
  /\ \E technical \in BOOLEAN : r = Delivered(Advanced(Record(last), t), technical)

\* What a transition in flight has decided stays right for the generation it was decided for.
DecisionsFit ==
  \A c \in AcClients : acCalls[c].at = "insert" =>
    /\ acCalls[c].generation \in 1..(Len(acChain) + 1)
    /\ acCalls[c].intent.seen = acCalls[c].generation - 1
    /\ IF acCalls[c].generation = 1
       THEN Opens(acCalls[c].record, acCalls[c].intent.transition)
       ELSE FollowsFrom(acChain[acCalls[c].generation - 1], acCalls[c].record,
                        acCalls[c].intent.transition)

\* What the fields of a revision say about the transitions up to it.
FieldsAreEarned ==
  \A i \in DOMAIN acChain :
    /\ acChain[i].acceptance = "PASS" =>
         \E j \in 1..i : /\ acChain[j].intent.transition = "ACCEPTANCE_PASS"
                         /\ \A k \in j..i : acChain[k].intent.transition # "ACCEPTANCE_FAIL"
    /\ acChain[i].adoption = "ADOPTED" =>
         \E j \in 1..i : acChain[j].intent.transition = "ADOPTION_ADOPTED"
    /\ acChain[i].adoption \in {acContract, "ADOPTED"}
    /\ acChain[i].state = "DELIVERED" => Due(acChain[i]) /\ acChain[i].technical

\* A snapshot in flight: at least as new as every snapshot its caller named or saw.
SnapshotsFit ==
  /\ acRev \in Nat /\ acOutcomes \in Seq([op : AcOps, seen : Nat, token : Nat])
  /\ acUpdates \in [AcClients -> {AcIdle} \cup [at : {"record"}, op : AcOps, seen : Nat, token : Nat]]
  /\ \A i \in DOMAIN acOutcomes : acOutcomes[i].token <= acRev
  /\ \A c \in AcClients : acUpdates[c].at = "record" =>
       /\ acUpdates[c].seen <= Len(acOutcomes) /\ acUpdates[c].token <= acRev
       /\ \A i \in 1..acUpdates[c].seen : acOutcomes[i].token <= acUpdates[c].token

ContinuityInv ==
  AcTyped /\ DecisionsFit /\ FieldsAreEarned /\ SnapshotsFit
    /\ DecidedOnTheLatest /\ AnsweredTransitionStands /\ OutcomesFollowTheWork

\* A stored revision read back as a record keeps every field a transition decides on.
LEMMA RecordOfRevision ==
  ASSUME NEW last \in AcRevisions
  PROVE  /\ Record(last) \in AcRecords
         /\ Record(last).state = last.state /\ Record(last).phase = last.phase
         /\ Record(last).acceptance = last.acceptance /\ Record(last).adoption = last.adoption
         /\ Record(last).technical = last.technical
BY DEF Record, AcRecords, AcRevisions

\* What a transition makes of a revision, field by field (advance_obligation).
LEMMA AdvancedFields ==
  ASSUME NEW m \in AcRecords, NEW t \in AcTransitions, Applicable(m, t), WellSealed(m)
  PROVE  /\ Advanced(m, t) \in AcRecords
         /\ Advanced(m, t).acceptance = "PASS" =>
              t # "ACCEPTANCE_FAIL" /\ (t = "ACCEPTANCE_PASS" \/ m.acceptance = "PASS")
         /\ Advanced(m, t).adoption = "ADOPTED" => t = "ADOPTION_ADOPTED" \/ m.adoption = "ADOPTED"
         /\ Advanced(m, t).adoption \in {m.adoption, "ADOPTED"}
         /\ Advanced(m, t).state # "DELIVERED"
<1> USE DEF AcRecords
<1>0. /\ m.state \in AcStates \ AcTerminal /\ m.phase \in AcPhases
      /\ m.state = "BLOCKED" => m.phase # NoPhase
  BY DEF Applicable, WellSealed, AcStates, AcTerminal
<1>1. CASE t = "ACKNOWLEDGED"
  BY <1>1 DEF Advanced, AcStates
<1>2. CASE t = "BLOCK"
  <2>1. m.state \in AcPhases
    BY <1>0, <1>2 DEF Applicable, AcStates, AcTerminal, AcPhases
  <2> QED BY <1>2, <2>1 DEF Advanced, AcStates
<1>3. CASE t = "CLEAR_BLOCKER"
  <2>1. m.phase \in {"VERIFY_NOW", "VERIFYING", "ACCEPTED"}
    BY <1>0, <1>3 DEF Applicable, AcPhases
  <2> QED BY <1>3, <2>1 DEF Advanced, AcStates, AcPhases
<1>4. CASE t = "ACCEPTANCE_PASS"
  BY <1>4 DEF Advanced, AcStates
<1>5. CASE t = "ACCEPTANCE_FAIL"
  BY <1>5 DEF Advanced, AcStates
<1>6. CASE t = "ADOPTION_ADOPTED"
  BY <1>0, <1>6 DEF Advanced, AcTerminal
<1>7. CASE t = "FINALIZE_DELIVERY"
  BY <1>0, <1>7 DEF Advanced, AcTerminal
<1>8. CASE t = "DEFER"
  BY <1>8 DEF Advanced, AcStates, AcTerminal, AcPhases
<1>9. CASE t = "RETIRE"
  BY <1>9 DEF Advanced, AcStates, AcTerminal, AcPhases
<1>10. t # "ACTIVATED"
  BY DEF Applicable
<1> QED BY <1>1, <1>2, <1>3, <1>4, <1>5, <1>6, <1>7, <1>8, <1>9, <1>10 DEF AcTransitions

\* A revision decided on a readable one.
LEMMA FollowingFields ==
  ASSUME NEW last \in AcRevisions, NEW t \in AcTransitions, NEW r,
         FollowsFrom(last, r, t)
  PROVE  /\ r \in AcRecords /\ last.state \notin AcTerminal
         /\ r.acceptance = "PASS" =>
              t # "ACCEPTANCE_FAIL" /\ (t = "ACCEPTANCE_PASS" \/ last.acceptance = "PASS")
         /\ r.adoption = "ADOPTED" => t = "ADOPTION_ADOPTED" \/ last.adoption = "ADOPTED"
         /\ r.adoption \in {last.adoption, "ADOPTED"}
         /\ r.state = "DELIVERED" => Due(r) /\ r.technical
<1>1. PICK technical \in BOOLEAN : r = Delivered(Advanced(Record(last), t), technical)
  BY DEF FollowsFrom
<1>2. PICK m \in AcRecords :
        /\ m = Record(last) /\ m.state = last.state /\ m.phase = last.phase
        /\ m.acceptance = last.acceptance /\ m.adoption = last.adoption
  BY RecordOfRevision
<1>3. Applicable(m, t) /\ WellSealed(m) /\ last.state \notin AcTerminal
  BY <1>2 DEF FollowsFrom, Applicable, WellSealed
<1>4. PICK a : a = Advanced(m, t)
  OBVIOUS
<1>5. /\ a \in AcRecords
      /\ a.acceptance = "PASS" =>
           t # "ACCEPTANCE_FAIL" /\ (t = "ACCEPTANCE_PASS" \/ last.acceptance = "PASS")
      /\ a.adoption = "ADOPTED" => t = "ADOPTION_ADOPTED" \/ last.adoption = "ADOPTED"
      /\ a.adoption \in {last.adoption, "ADOPTED"}
      /\ a.state # "DELIVERED"
  BY <1>2, <1>3, <1>4, AdvancedFields
<1>6. r = IF Due(a) /\ technical THEN [a EXCEPT !.state = "DELIVERED", !.technical = TRUE] ELSE a
  BY <1>1, <1>2, <1>4 DEF Delivered
<1>7. CASE Due(a) /\ technical
  BY <1>3, <1>5, <1>6, <1>7 DEF Due, AcRecords, AcStates, AcTerminal
<1>8. CASE ~(Due(a) /\ technical)
  BY <1>3, <1>5, <1>6, <1>8
<1> QED BY <1>7, <1>8

\* No obligation, outcome or call at first.
LEMMA ContinuityStarts == AcInit => ContinuityInv
<1> SUFFICES ASSUME AcInit PROVE ContinuityInv
  OBVIOUS
<1> USE DEF AcInit
<1>1. AcTyped
  BY DEF AcTyped
<1>2. DecisionsFit /\ FieldsAreEarned /\ DecidedOnTheLatest /\ AnsweredTransitionStands
  BY DEF DecisionsFit, FieldsAreEarned, DecidedOnTheLatest, AnsweredTransitionStands, AcIdle
<1>3. SnapshotsFit /\ OutcomesFollowTheWork
  BY DEF SnapshotsFit, OutcomesFollowTheWork, AcIdle
<1> QED BY <1>1, <1>2, <1>3 DEF ContinuityInv

\* Outcomes and obligations do not touch each other.
LEMMA OutcomesUntouched ==
  ASSUME ContinuityInv, UNCHANGED <<acRev, acOutcomes, acUpdates>>
  PROVE  SnapshotsFit' /\ OutcomesFollowTheWork'
BY DEF ContinuityInv, SnapshotsFit, OutcomesFollowTheWork

\* A step that leaves the obligation and its calls alone keeps what is said of them.
LEMMA ObligationUntouched ==
  ASSUME ContinuityInv, UNCHANGED <<acContract, acChain, acCalls, acAnswers>>, acTrue' \in BOOLEAN
  PROVE  (AcTyped /\ DecisionsFit /\ FieldsAreEarned /\ DecidedOnTheLatest /\ AnsweredTransitionStands)'
<1>1. (AcTyped /\ FieldsAreEarned /\ DecidedOnTheLatest /\ AnsweredTransitionStands)'
  <2>1. AcTyped'
    BY DEF ContinuityInv, AcTyped
  <2>2. FieldsAreEarned'
    BY DEF ContinuityInv, FieldsAreEarned
  <2>3. DecidedOnTheLatest' /\ AnsweredTransitionStands'
    BY DEF ContinuityInv, DecidedOnTheLatest, AnsweredTransitionStands, Due
  <2> QED BY <2>1, <2>2, <2>3
<1>2. DecisionsFit'
  BY DEF ContinuityInv, DecisionsFit, Opens, Opened
<1> QED BY <1>1, <1>2

\* A call that ends without an insert keeps the obligation.
LEMMA CallEnds ==
  ASSUME ContinuityInv, NEW c \in AcClients, acCalls' = [acCalls EXCEPT ![c] = AcIdle],
         UNCHANGED <<acContract, acTrue, acChain>>
  PROVE  (AcTyped /\ DecisionsFit /\ FieldsAreEarned /\ DecidedOnTheLatest)'
<1>1. (AcTyped /\ FieldsAreEarned /\ DecidedOnTheLatest)'
  <2>1. AcTyped'
    BY DEF ContinuityInv, AcTyped
  <2>2. FieldsAreEarned'
    BY DEF ContinuityInv, FieldsAreEarned
  <2>3. DecidedOnTheLatest'
    BY DEF ContinuityInv, DecidedOnTheLatest, Due
  <2> QED BY <2>1, <2>2, <2>3
<1>2. ASSUME NEW d \in AcClients, acCalls'[d].at = "insert" PROVE acCalls'[d] = acCalls[d]
  BY <1>2 DEF AcIdle, ContinuityInv, AcTyped
<1>3. DecisionsFit'
  BY <1>2 DEF ContinuityInv, DecisionsFit, Opens, Opened
<1> QED BY <1>1, <1>3

\* AcDecide: the insert it prepares is right for the generation it saw.
LEMMA DecideKeeps ==
  ASSUME ContinuityInv, NEW c \in AcClients, AcDecide(c)
  PROVE  ContinuityInv'
<1> USE DEF AcDecide, Unchanging
<1>i. AcTyped /\ DecisionsFit /\ FieldsAreEarned /\ DecidedOnTheLatest /\ AnsweredTransitionStands
  BY DEF ContinuityInv
<1>o. SnapshotsFit' /\ OutcomesFollowTheWork'
  BY OutcomesUntouched
<1>n. PICK n \in Nat : n = Len(acChain) /\ DOMAIN acChain = 1..n
  BY <1>i DEF AcTyped
<1>0. PICK op \in NextOps, t \in AcTransitions :
        LET intent == [op |-> op, transition |-> t, seen |-> SeenBy(op)] IN
        /\ Readable
        /\ \/ /\ n = 0 /\ t = "ACTIVATED"
              /\ AcGo(c, [at |-> "insert", intent |-> intent, generation |-> n + 1,
                          record |-> Opened(TRUE)])
              /\ acAnswers' = {}
           \/ n > 0 /\ acChain[n].op = op /\ Replayed(c, acChain[n], intent)
           \/ /\ n > 0 /\ intent.seen = n /\ Applicable(acChain[n], t)
              /\ AcGo(c, [at |-> "insert", intent |-> intent, generation |-> n + 1,
                          record |-> Delivered(Advanced(Record(acChain[n]), t), acTrue)])
              /\ acAnswers' = {}
  BY <1>n
<1>1. PICK intent : intent = [op |-> op, transition |-> t, seen |-> SeenBy(op)]
  OBVIOUS
<1>2. op \in AcOps
  BY DEF NextOps
<1>3. ASSUME NEW r, r \in AcRecords, intent.seen = n,
             AcGo(c, [at |-> "insert", intent |-> intent, generation |-> n + 1, record |-> r]),
             acAnswers' = {},
             IF n = 0 THEN Opens(r, t) ELSE FollowsFrom(acChain[n], r, t)
      PROVE ContinuityInv'
  <2>1. PICK y : y = [at |-> "insert", intent |-> intent, generation |-> n + 1, record |-> r]
    OBVIOUS
  <2>2. intent \in AcIntents /\ intent.transition = t
    BY <1>1, <1>2, <1>3 DEF AcIntents
  <2>3. y \in AcInserts
    BY <2>1, <2>2, <1>3 DEF AcInserts
  <2>4. acCalls' = [acCalls EXCEPT ![c] = y]
    BY <2>1, <1>3 DEF AcGo
  <2>5. AcTyped'
    BY <2>3, <2>4, <1>i DEF AcTyped
  <2>6. DecisionsFit'
    <3>1. \A d \in AcClients : acCalls'[d] = IF d = c THEN y ELSE acCalls[d]
      BY <2>4, <1>i DEF AcTyped
    <3>2. y.generation = n + 1 /\ y.intent.seen = n /\ y.record = r /\ y.intent.transition = t
      BY <2>1, <2>2, <1>3
    <3>3. /\ y.generation \in 1..(Len(acChain) + 1)
          /\ y.intent.seen = y.generation - 1
          /\ IF y.generation = 1 THEN Opens(y.record, y.intent.transition)
             ELSE FollowsFrom(acChain[y.generation - 1], y.record, y.intent.transition)
      <4>1. (n + 1) - 1 = n
        OBVIOUS
      <4> QED BY <3>2, <4>1, <1>n, <1>3
    <3> QED BY <3>1, <3>3, <1>i DEF DecisionsFit, Opens, Opened
  <2>7. (FieldsAreEarned /\ DecidedOnTheLatest /\ AnsweredTransitionStands)'
    BY <1>3, <1>i DEF FieldsAreEarned, DecidedOnTheLatest, AnsweredTransitionStands, Due
  <2> QED BY <2>5, <2>6, <2>7, <1>o DEF ContinuityInv
<1>4. CASE /\ n = 0 /\ t = "ACTIVATED"
           /\ AcGo(c, [at |-> "insert", intent |-> intent, generation |-> n + 1,
                       record |-> Opened(TRUE)])
           /\ acAnswers' = {}
  <2>1. intent.seen = n
    BY <1>1, <1>4, <1>n DEF SeenBy
  <2>2. Opened(TRUE) \in AcRecords
    BY <1>i, ContinuityConstants DEF Opened, AcRecords, AcTyped, AcStates, AcPhases
  <2>3. Opens(Opened(TRUE), t)
    BY <1>4 DEF Opens
  <2> QED BY <2>1, <2>2, <2>3, <1>3, <1>4
<1>5. CASE n > 0 /\ acChain[n].op = op /\ Replayed(c, acChain[n], intent)
  <2>1. /\ acCalls' = [acCalls EXCEPT ![c] = AcIdle]
        /\ \/ acAnswers' = acAnswers
           \/ acAnswers' = acAnswers \cup {acChain[n].intent}
    BY <1>5 DEF Replayed, AcAnswered, AcRefused, AcGo
  <2>2. AnsweredTransitionStands'
    BY <2>1, <1>5, <1>n, <1>i DEF AnsweredTransitionStands
  <2> QED BY <2>1, <2>2, <1>o, CallEnds DEF ContinuityInv
<1>6. CASE /\ n > 0 /\ intent.seen = n /\ Applicable(acChain[n], t)
           /\ AcGo(c, [at |-> "insert", intent |-> intent, generation |-> n + 1,
                       record |-> Delivered(Advanced(Record(acChain[n]), t), acTrue)])
           /\ acAnswers' = {}
  <2>1. acChain[n] \in AcRevisions /\ WellSealed(acChain[n])
    BY <1>0, <1>6, <1>n, <1>i DEF AcTyped, Readable
  <2>2. PICK r : r = Delivered(Advanced(Record(acChain[n]), t), acTrue)
    OBVIOUS
  <2>3. FollowsFrom(acChain[n], r, t)
    BY <2>1, <2>2, <1>6, <1>i DEF FollowsFrom, AcTyped
  <2>4. r \in AcRecords
    BY <2>1, <2>3, FollowingFields
  <2> QED BY <2>2, <2>3, <2>4, <1>3, <1>6
<1> QED BY <1>0, <1>1, <1>4, <1>5, <1>6

\* AcInsert: the key of the table admits the revision only behind the one it was decided on.
LEMMA InsertKeeps ==
  ASSUME ContinuityInv, NEW c \in AcClients, AcInsert(c)
  PROVE  ContinuityInv'
<1> USE DEF AcInsert, Unchanging
<1>i. AcTyped /\ DecisionsFit /\ FieldsAreEarned /\ DecidedOnTheLatest /\ AnsweredTransitionStands
  BY DEF ContinuityInv
<1>o. SnapshotsFit' /\ OutcomesFollowTheWork'
  BY OutcomesUntouched
<1>n. PICK n \in Nat : n = Len(acChain) /\ DOMAIN acChain = 1..n
  BY <1>i DEF AcTyped
<1>c. PICK y \in AcInserts : y = acCalls[c]
  BY <1>i DEF AcTyped, AcIdle
<1>1. CASE UNCHANGED acChain
  <2>1. /\ acCalls' = [acCalls EXCEPT ![c] = AcIdle]
        /\ \/ acAnswers' = acAnswers
           \/ n > 0 /\ acAnswers' = acAnswers \cup {acChain[n].intent}
    <3>1. ~(acChain' = Append(acChain, Revision(y)))
      <4>1. Len(Append(acChain, Revision(y))) = Len(acChain) + 1
        BY <1>i DEF AcTyped
      <4> QED BY <4>1, <1>1, <1>n
    <3> QED BY <3>1, <1>n, <1>c DEF Replayed, AcAnswered, AcRefused, AcGo
  <2>2. AnsweredTransitionStands'
    BY <2>1, <1>1, <1>n, <1>i DEF AnsweredTransitionStands
  <2> QED BY <2>1, <2>2, <1>1, <1>o, CallEnds DEF ContinuityInv
<1>2. CASE acChain' # acChain
  <2>1. /\ KeysAreFree(y) /\ acChain' = Append(acChain, Revision(y))
        /\ acCalls' = [acCalls EXCEPT ![c] = AcIdle]
        /\ \/ acAnswers' = acAnswers
           \/ acAnswers' = acAnswers \cup {y.intent}
    BY <1>2, <1>c DEF AcAnswered, AcRefused, AcGo
  <2>2. PICK v \in AcRevisions : v = Revision(y)
    BY DEF Revision, AcRevisions, AcInserts, AcRecords, AcIntents
  <2>3. /\ v.intent = y.intent /\ v.op = y.intent.op /\ v.state = y.record.state
        /\ v.acceptance = y.record.acceptance /\ v.adoption = y.record.adoption
        /\ v.technical = y.record.technical
    BY <2>2 DEF Revision
  <2>4. /\ DOMAIN acChain' = 1..(n + 1) /\ Len(acChain') = n + 1 /\ acChain' \in Seq(AcRevisions)
        /\ \A i \in 1..n : acChain'[i] = acChain[i]
        /\ acChain'[n + 1] = v
    BY <2>1, <2>2, <1>n, <1>i DEF AcTyped
  <2>5. /\ y.generation = n + 1 /\ y.intent.seen = n /\ y.intent.transition \in AcTransitions
        /\ \A i \in 1..n : acChain[i].op # y.intent.op
        /\ IF n = 0 THEN Opens(y.record, y.intent.transition)
           ELSE FollowsFrom(acChain[n], y.record, y.intent.transition)
    BY <2>1, <1>n, <1>c, <1>i DEF KeysAreFree, DecisionsFit, AcInserts, AcIntents
  <2>6. /\ n > 0 => acChain[n] \in AcRevisions /\ acChain[n].state \notin AcTerminal
        /\ y.record.acceptance = "PASS" =>
             /\ y.intent.transition # "ACCEPTANCE_FAIL"
             /\ y.intent.transition = "ACCEPTANCE_PASS" \/ (n > 0 /\ acChain[n].acceptance = "PASS")
        /\ y.record.adoption = "ADOPTED" =>
             y.intent.transition = "ADOPTION_ADOPTED" \/ (n > 0 /\ acChain[n].adoption = "ADOPTED")
        /\ y.record.adoption \in {acContract, "ADOPTED"}
        /\ y.record.state = "DELIVERED" => Due(y.record) /\ y.record.technical
    <3>1. CASE n = 0
      <4>1. y.record = Opened(TRUE)
        BY <2>5, <3>1 DEF Opens
      <4>2. acContract \in {"NOT_REQUIRED", "PENDING"}
        BY <1>i, ContinuityConstants DEF AcTyped
      <4> QED BY <3>1, <4>1, <4>2 DEF Opened
    <3>2. CASE n > 0
      <4>1. acChain[n] \in AcRevisions /\ FollowsFrom(acChain[n], y.record, y.intent.transition)
        BY <3>2, <2>5, <1>n, <1>i DEF AcTyped
      <4>2. acChain[n].adoption \in {acContract, "ADOPTED"}
        BY <3>2, <1>n, <1>i DEF FieldsAreEarned
      <4> QED BY <3>2, <4>1, <4>2, <2>5, FollowingFields
    <3> QED BY <3>1, <3>2
  <2>7. AcTyped'
    BY <2>1, <2>4, <1>i DEF AcTyped
  <2>8. DecidedOnTheLatest'
    BY <2>3, <2>4, <2>5, <2>6, <1>n, <1>i DEF DecidedOnTheLatest
  <2>9. AnsweredTransitionStands'
    BY <2>1, <2>3, <2>4, <1>n, <1>i DEF AnsweredTransitionStands
  <2>10. DecisionsFit'
    <3>1. ASSUME NEW d \in AcClients, acCalls'[d].at = "insert" PROVE acCalls'[d] = acCalls[d]
      BY <3>1, <2>1, <1>i DEF AcTyped, AcIdle
    <3>2. ASSUME NEW d \in AcClients, acCalls'[d].at = "insert"
          PROVE  /\ acCalls'[d].generation \in 1..(Len(acChain') + 1)
                 /\ acCalls'[d].intent.seen = acCalls'[d].generation - 1
                 /\ IF acCalls'[d].generation = 1
                    THEN Opens(acCalls'[d].record, acCalls'[d].intent.transition)
                    ELSE FollowsFrom(acChain'[acCalls'[d].generation - 1], acCalls'[d].record,
                                     acCalls'[d].intent.transition)
      <4>1. PICK z : z = acCalls[d]
        OBVIOUS
      <4>2. /\ z.generation \in 1..(n + 1) /\ z.intent.seen = z.generation - 1
            /\ IF z.generation = 1 THEN Opens(z.record, z.intent.transition)
               ELSE FollowsFrom(acChain[z.generation - 1], z.record, z.intent.transition)
        BY <3>1, <3>2, <4>1, <1>n, <1>i DEF DecisionsFit
      <4>3. z.generation # 1 => acChain'[z.generation - 1] = acChain[z.generation - 1]
        BY <4>2, <2>4
      <4> QED BY <3>1, <3>2, <4>1, <4>2, <4>3, <2>4
    <3> QED BY <3>2 DEF DecisionsFit, Opens, Opened
  <2>11. FieldsAreEarned'
    <3>1. ASSUME NEW i \in 1..n
          PROVE  /\ acChain'[i].acceptance = "PASS" =>
                      \E j \in 1..i : /\ acChain'[j].intent.transition = "ACCEPTANCE_PASS"
                                      /\ \A k \in j..i : acChain'[k].intent.transition # "ACCEPTANCE_FAIL"
                 /\ acChain'[i].adoption = "ADOPTED" =>
                      \E j \in 1..i : acChain'[j].intent.transition = "ADOPTION_ADOPTED"
                 /\ acChain'[i].adoption \in {acContract', "ADOPTED"}
                 /\ acChain'[i].state = "DELIVERED" => Due(acChain'[i]) /\ acChain'[i].technical
      <4>1. \A j \in 1..i : j \in 1..n /\ acChain'[j] = acChain[j] /\ \A k \in j..i : acChain'[k] = acChain[k]
        BY <2>4
      <4>2. i \in DOMAIN acChain /\ acChain'[i] = acChain[i] /\ acContract' = acContract
        BY <2>4, <1>n
      <4>3. acChain[i].acceptance = "PASS" =>
              \E j \in 1..i : /\ acChain[j].intent.transition = "ACCEPTANCE_PASS"
                              /\ \A k \in j..i : acChain[k].intent.transition # "ACCEPTANCE_FAIL"
        BY <4>2, <1>i DEF FieldsAreEarned
      <4>4. acChain[i].adoption = "ADOPTED" =>
              \E j \in 1..i : acChain[j].intent.transition = "ADOPTION_ADOPTED"
        BY <4>2, <1>i DEF FieldsAreEarned
      <4>5. /\ acChain[i].adoption \in {acContract, "ADOPTED"}
            /\ acChain[i].state = "DELIVERED" => Due(acChain[i]) /\ acChain[i].technical
        BY <4>2, <1>i DEF FieldsAreEarned
      <4> QED BY <4>1, <4>2, <4>3, <4>4, <4>5
    <3>2. v.acceptance = "PASS" =>
            \E j \in 1..(n + 1) : /\ acChain'[j].intent.transition = "ACCEPTANCE_PASS"
                                  /\ \A k \in j..(n + 1) : acChain'[k].intent.transition # "ACCEPTANCE_FAIL"
      <4> SUFFICES ASSUME v.acceptance = "PASS"
                   PROVE \E j \in 1..(n + 1) :
                            /\ acChain'[j].intent.transition = "ACCEPTANCE_PASS"
                            /\ \A k \in j..(n + 1) : acChain'[k].intent.transition # "ACCEPTANCE_FAIL"
        OBVIOUS
      <4>0. acChain'[n + 1].intent.transition # "ACCEPTANCE_FAIL"
        BY <2>3, <2>4, <2>6
      <4>1. CASE y.intent.transition = "ACCEPTANCE_PASS"
        BY <4>1, <4>0, <2>3, <2>4
      <4>2. CASE n > 0 /\ acChain[n].acceptance = "PASS"
        <5>1. PICK j \in 1..n : /\ acChain'[j].intent.transition = "ACCEPTANCE_PASS"
                                /\ \A k \in j..n : acChain'[k].intent.transition # "ACCEPTANCE_FAIL"
          BY <4>2, <3>1, <2>4
        <5>2. \A k \in j..(n + 1) : k \in j..n \/ k = n + 1
          OBVIOUS
        <5> QED BY <5>1, <5>2, <4>0
      <4> QED BY <4>1, <4>2, <2>3, <2>6
    <3>3. v.adoption = "ADOPTED" =>
            \E j \in 1..(n + 1) : acChain'[j].intent.transition = "ADOPTION_ADOPTED"
      <4>1. CASE y.intent.transition = "ADOPTION_ADOPTED"
        BY <4>1, <2>3, <2>4
      <4>2. CASE n > 0 /\ acChain[n].adoption = "ADOPTED"
        BY <4>2, <3>1, <2>4
      <4> QED BY <4>1, <4>2, <2>3, <2>6
    <3>4. /\ v.adoption \in {acContract', "ADOPTED"}
          /\ v.state = "DELIVERED" => Due(v) /\ v.technical
      BY <2>3, <2>6 DEF Due
    <3>5. \A i \in DOMAIN acChain' : i \in 1..n \/ i = n + 1
      BY <2>4
    <3> QED BY <3>1, <3>2, <3>3, <3>4, <3>5, <2>4 DEF FieldsAreEarned, Due
  <2> QED BY <2>7, <2>8, <2>9, <2>10, <2>11, <1>o DEF ContinuityInv
<1> QED BY <1>1, <1>2

\* Every step of a transition or of an outcome keeps the invariant.
LEMMA ContinuityStep == ContinuityInv /\ [AcNext \/ OcNext]_acVars => ContinuityInv'
<1> SUFFICES ASSUME ContinuityInv, [AcNext \/ OcNext]_acVars PROVE ContinuityInv'
  OBVIOUS
<1>i. SnapshotsFit /\ OutcomesFollowTheWork /\ acTrue \in BOOLEAN
  BY DEF ContinuityInv, AcTyped
<1>1. CASE UNCHANGED acVars
  BY <1>1, <1>i, OutcomesUntouched, ObligationUntouched DEF acVars, ContinuityInv
<1>2. ASSUME NEW c \in AcClients, AcDecide(c) \/ AcInsert(c) PROVE ContinuityInv'
  BY <1>2, DecideKeeps, InsertKeeps
<1>3. ASSUME AcTechnical PROVE ContinuityInv'
  BY <1>3, <1>i, OutcomesUntouched, ObligationUntouched DEF AcTechnical, Unchanging, ContinuityInv
<1>4. ASSUME NEW c \in AcClients, OcRead(c) PROVE ContinuityInv'
  <2>0. PICK op \in AcOps, seen \in 0..Len(acOutcomes) :
          acUpdates' = [acUpdates EXCEPT ![c] = [at |-> "record", op |-> op, seen |-> seen, token |-> acRev]]
    BY <1>4 DEF OcRead, OcGo
  <2>1. PICK y : /\ y = [at |-> "record", op |-> op, seen |-> seen, token |-> acRev]
                 /\ acUpdates' = [acUpdates EXCEPT ![c] = y]
    BY <2>0
  <2>2. /\ \A d \in AcClients : acUpdates'[d] = IF d = c THEN y ELSE acUpdates[d]
        /\ acUpdates' \in [AcClients -> {AcIdle} \cup [at : {"record"}, op : AcOps, seen : Nat, token : Nat]]
    BY <2>1, <1>i DEF SnapshotsFit
  <2>3. y.seen = seen /\ y.token = acRev /\ DOMAIN acOutcomes = 1..Len(acOutcomes) /\ Len(acOutcomes) \in Nat
    BY <2>1, <1>i DEF SnapshotsFit
  <2>4. UNCHANGED <<acRev, acOutcomes, acContract, acTrue, acChain, acCalls, acAnswers>>
    BY <1>4 DEF OcRead
  <2>5. SnapshotsFit' /\ OutcomesFollowTheWork'
    BY <2>2, <2>3, <2>4, <1>i DEF SnapshotsFit, OutcomesFollowTheWork
  <2> QED BY <2>4, <2>5, <1>i, ObligationUntouched DEF ContinuityInv
<1>5. ASSUME NEW c \in AcClients, OcRecord(c) PROVE ContinuityInv'
  <2>1. UNCHANGED <<acRev, acContract, acTrue, acChain, acCalls, acAnswers>>
    BY <1>5 DEF OcRecord
  <2>2. acUpdates' = [acUpdates EXCEPT ![c] = AcIdle] /\ acUpdates[c].at = "record"
    BY <1>5 DEF OcRecord, OcGo
  <2>3. /\ \A d \in AcClients : acUpdates'[d].at = "record" => acUpdates'[d] = acUpdates[d]
        /\ acUpdates' \in [AcClients -> {AcIdle} \cup [at : {"record"}, op : AcOps, seen : Nat, token : Nat]]
    BY <2>2, <1>i DEF SnapshotsFit, AcIdle
  <2>4. PICK n \in Nat : n = Len(acOutcomes) /\ DOMAIN acOutcomes = 1..n
    BY <1>i DEF SnapshotsFit
  <2>5. CASE acOutcomes' = acOutcomes
    BY <2>1, <2>3, <2>5, <1>i, ObligationUntouched DEF ContinuityInv, SnapshotsFit, OutcomesFollowTheWork
  <2>6. CASE acUpdates[c].seen = n /\ acOutcomes' = Append(acOutcomes, Snapshot(acUpdates[c]))
    <3>1. PICK u \in [at : {"record"}, op : AcOps, seen : Nat, token : Nat] : u = acUpdates[c]
      BY <2>2, <1>i DEF SnapshotsFit, AcIdle
    <3>0. Snapshot(u) \in [op : AcOps, seen : Nat, token : Nat] /\ Snapshot(u).token = u.token
      BY <3>1 DEF Snapshot
    <3>2. PICK v \in [op : AcOps, seen : Nat, token : Nat] : v = Snapshot(u) /\ v.token = u.token
      BY <3>0
    <3>3. /\ acOutcomes' \in Seq([op : AcOps, seen : Nat, token : Nat])
          /\ DOMAIN acOutcomes' = 1..(n + 1) /\ Len(acOutcomes') = n + 1
          /\ \A i \in 1..n : acOutcomes'[i] = acOutcomes[i]
          /\ acOutcomes'[n + 1] = v
      BY <2>4, <2>6, <3>1, <3>2, <1>i DEF SnapshotsFit
    <3>4. v.token \in Nat /\ v.token <= acRev /\ \A i \in 1..n : acOutcomes[i].token <= v.token
      BY <2>2, <2>6, <3>1, <3>2, <1>i DEF SnapshotsFit
    <3>a. \A i \in 1..(n + 1) : i \in 1..n \/ i = n + 1
      OBVIOUS
    <3>5. OutcomesFollowTheWork'
      <4>1. ASSUME NEW i \in 1..(n + 1), NEW j \in 1..(n + 1), i < j
            PROVE acOutcomes'[i].token <= acOutcomes'[j].token
        <5>1. i \in 1..n
          BY <4>1
        <5>2. CASE j \in 1..n
          BY <4>1, <5>1, <5>2, <2>4, <3>3, <1>i DEF OutcomesFollowTheWork
        <5>3. CASE j = n + 1
          BY <5>1, <5>3, <3>3, <3>4
        <5> QED BY <5>2, <5>3, <3>a
      <4> QED BY <4>1, <3>3 DEF OutcomesFollowTheWork
    <3>6. SnapshotsFit'
      <4>0. \A i \in 1..n : acOutcomes[i].token <= acRev
        BY <2>4, <1>i DEF SnapshotsFit
      <4>1. \A i \in DOMAIN acOutcomes' : acOutcomes'[i].token <= acRev'
        BY <4>0, <2>1, <3>3, <3>4, <3>a
      <4>2. ASSUME NEW d \in AcClients, acUpdates'[d].at = "record"
            PROVE /\ acUpdates'[d].seen <= Len(acOutcomes') /\ acUpdates'[d].token <= acRev'
                  /\ \A i \in 1..acUpdates'[d].seen : acOutcomes'[i].token <= acUpdates'[d].token
        <5>1. PICK w \in [at : {"record"}, op : AcOps, seen : Nat, token : Nat] :
                w = acUpdates[d] /\ w = acUpdates'[d]
          BY <2>3, <4>2, <1>i DEF SnapshotsFit, AcIdle
        <5>2. /\ w.seen \in Nat /\ w.seen <= n /\ w.token <= acRev
              /\ \A i \in 1..w.seen : acOutcomes[i].token <= w.token
          BY <2>4, <4>2, <5>1, <1>i DEF SnapshotsFit
        <5>3. \A i \in 1..w.seen : acOutcomes'[i] = acOutcomes[i]
          BY <5>2, <3>3
        <5>4. w.seen <= n + 1 /\ \A i \in 1..w.seen : acOutcomes'[i].token <= w.token
          BY <5>2, <5>3
        <5> QED BY <5>1, <5>2, <5>4, <3>3, <2>1
      <4> QED BY <4>1, <4>2, <2>1, <2>3, <3>3, <1>i DEF SnapshotsFit
    <3> QED BY <2>1, <3>5, <3>6, <1>i, ObligationUntouched DEF ContinuityInv
  <2> QED BY <1>5, <2>4, <2>5, <2>6 DEF OcRecord
<1>6. ASSUME OcWorkMoves PROVE ContinuityInv'
  <2>1. acRev \in Nat /\ acRev' = acRev + 1 /\ UNCHANGED <<acOutcomes, acUpdates>>
    BY <1>6, <1>i DEF OcWorkMoves, SnapshotsFit
  <2>2. \A d \in AcClients : acUpdates[d].at = "record" => acUpdates[d].token \in Nat
    BY <1>i DEF SnapshotsFit, AcIdle
  <2>3. \A i \in DOMAIN acOutcomes : acOutcomes[i].token \in Nat
    <3>1. acOutcomes \in Seq([op : AcOps, seen : Nat, token : Nat])
      BY <1>i DEF SnapshotsFit
    <3>2. ASSUME NEW S, NEW s \in Seq(S) PROVE \A i \in DOMAIN s : s[i] \in S
      OBVIOUS
    <3>3. \A i \in DOMAIN acOutcomes : acOutcomes[i] \in [op : AcOps, seen : Nat, token : Nat]
      BY <3>1, <3>2
    <3> QED BY <3>3
  <2>4. SnapshotsFit' /\ OutcomesFollowTheWork'
    BY <2>1, <2>2, <2>3, <1>i DEF SnapshotsFit, OutcomesFollowTheWork
  <2> QED BY <1>6, <2>4, <1>i, ObligationUntouched DEF OcWorkMoves, ContinuityInv
<1> QED BY <1>1, <1>2, <1>3, <1>4, <1>5, <1>6 DEF AcNext, OcNext

\* The obligation that follows an activation and the outcome snapshots of its owner, for
\* any number of callers, operations and revisions (activation_continuity_store.py,
\* outcome_state.py): every revision was decided on the one before it, a delivery rests on
\* an acceptance no failure has withdrawn and on adoption where the contract asks for it,
\* an answered transition is in the chain, and the snapshots follow the revisions of the
\* work.
THEOREM ContinuityStaysSound == AcSpec => []ContinuityIsSound
<1>1. ContinuityInv => ContinuityIsSound
  <2> SUFFICES ASSUME ContinuityInv PROVE ContinuityIsSound
    OBVIOUS
  <2>1. DeliveryIsProved
    <3> SUFFICES ASSUME NEW i \in DOMAIN acChain, acChain[i].state = "DELIVERED"
                 PROVE  /\ \E j \in 1..i : /\ acChain[j].intent.transition = "ACCEPTANCE_PASS"
                                           /\ \A k \in j..i : acChain[k].intent.transition # "ACCEPTANCE_FAIL"
                        /\ acContract = "PENDING" =>
                             \E j \in 1..i : acChain[j].intent.transition = "ADOPTION_ADOPTED"
      BY DEF DeliveryIsProved
    <3>1. FieldsAreEarned
      BY DEF ContinuityInv
    <3>2. Due(acChain[i]) /\ acChain[i].technical
      BY <3>1 DEF FieldsAreEarned
    <3>3. acContract = "PENDING" => acChain[i].adoption = "ADOPTED"
      BY <3>1, <3>2 DEF FieldsAreEarned, Due
    <3> QED BY <3>1, <3>2, <3>3 DEF FieldsAreEarned, Due
  <2> QED BY <2>1 DEF ContinuityInv, ContinuityIsSound
<1> QED BY <1>1, ContinuityStarts, ContinuityStep, PTL DEF AcSpec

-----------------------------------------------------------------------------
(* TaskRuns.                                                               *)

TrReports ==
  [request : (1..TrRevs) \X TrObjectives, run : TrRuns, id : TrResults, body : TrBodies,
   current : BOOLEAN]

\* Requests and the result on its way; chains are sequences.
RunsTyped ==
  /\ trRequests \subseteq [id : (1..TrRevs) \X TrObjectives, terminal : TrResults \cup {NoResult}]
  /\ trSubmit \in {NoReport} \cup TrReports
  /\ \E S : trCheckpoints \in Seq(S)
  /\ \E S : trDirection \in Seq(S)

\* A terminal result is stored, and its run is the only one bound to the request.
TerminalsHeld ==
  \A q \in trRequests : q.terminal # NoResult =>
    \E r \in trStored : /\ r.id = q.terminal /\ r.request = q.id
                        /\ {b \in trBound : b[1] = q.id} = {<<q.id, r.run>>}

RunsInv == RunsTyped /\ TerminalsHeld /\ ChainsLoseNothing

\* No step takes a request with a terminal result away or gives it another.
TerminalsStay == \A q \in trRequests : q.terminal # NoResult => q \in trRequests'

\* A record made with the whole chain in view, under an operation the chain does not know.
LEMMA ChainGrows ==
  ASSUME NEW S, NEW chain \in Seq(S), NEW e, e.seen = Len(chain),
         \A i \in DOMAIN chain : chain[i].op # e.op,
         \A i \in DOMAIN chain : chain[i].seen = i - 1,
         \A i, j \in DOMAIN chain : chain[i].op = chain[j].op => i = j
  PROVE  /\ Append(chain, e) \in Seq(S \cup {e})
         /\ \A i \in DOMAIN Append(chain, e) : Append(chain, e)[i].seen = i - 1
         /\ \A i, j \in DOMAIN Append(chain, e) :
              Append(chain, e)[i].op = Append(chain, e)[j].op => i = j
<1>1. PICK n \in Nat : n = Len(chain) /\ DOMAIN chain = 1..n
  OBVIOUS
<1>2. chain \in Seq(S \cup {e})
  OBVIOUS
<1>3. /\ Append(chain, e) \in Seq(S \cup {e}) /\ DOMAIN Append(chain, e) = 1..(n + 1)
      /\ \A i \in 1..n : Append(chain, e)[i] = chain[i]
      /\ Append(chain, e)[n + 1] = e
  BY <1>1, <1>2
<1>4. \A i \in 1..(n + 1) : i \in 1..n \/ i = n + 1
  OBVIOUS
<1> QED BY <1>1, <1>3, <1>4

\* Every step keeps the invariant, and what the property promises of it.
LEMMA RunsStep ==
  ASSUME RunsInv, [TrRunsNext \/ TrChainsNext]_trVars
  PROVE  RunsInv' /\ TerminalsStay
<1>i. RunsTyped /\ TerminalsHeld /\ ChainsLoseNothing
  BY DEF RunsInv
<1>c. ASSUME UNCHANGED <<trCheckpoints, trDirection>>
      PROVE  ChainsLoseNothing' /\ (\E S : trCheckpoints \in Seq(S))' /\ (\E S : trDirection \in Seq(S))'
  BY <1>c, <1>i DEF ChainsLoseNothing, RunsTyped
<1>r. ASSUME UNCHANGED <<trRequests, trBound, trStored>>
      PROVE  TerminalsHeld' /\ TerminalsStay
  BY <1>r, <1>i DEF TerminalsHeld, TerminalsStay
<1>1. CASE UNCHANGED trVars
  BY <1>1, <1>c, <1>r, <1>i DEF trVars, RunsInv, RunsTyped
<1>2. CASE TrChange
  BY <1>2, <1>c, <1>r, <1>i DEF TrChange, RunsInv, RunsTyped
<1>3. ASSUME NEW rev \in 1..TrRevs, NEW o \in TrObjectives, TrRequest(rev, o)
      PROVE  RunsInv' /\ TerminalsStay
  <2>1. RequestId(rev, o) \in (1..TrRevs) \X TrObjectives
    BY DEF RequestId
  <2>2. RunsTyped' /\ ChainsLoseNothing'
    BY <2>1, <1>3, <1>c, <1>i DEF TrRequest, RunsTyped
  <2>3. TerminalsHeld' /\ TerminalsStay
    BY <1>3, <1>i DEF TrRequest, TerminalsHeld, TerminalsStay
  <2> QED BY <2>2, <2>3 DEF RunsInv
<1>4. ASSUME NEW q \in trRequests, NEW run \in TrRuns, TrBind(q.id, run)
      PROVE  RunsInv' /\ TerminalsStay
  <2>1. RunsTyped' /\ ChainsLoseNothing' /\ TerminalsStay
    BY <1>4, <1>c, <1>i DEF TrBind, RunsTyped, TerminalsStay
  <2>2. ASSUME NEW p \in trRequests, NEW r \in trStored,
               {b \in trBound : b[1] = p.id} = {<<p.id, r.run>>}
        PROVE {b \in trBound' : b[1] = p.id} = {<<p.id, r.run>>}
    <3>1. trBound' = trBound \cup {<<q.id, run>>}
      BY <1>4 DEF TrBind
    <3>2. CASE p.id = q.id
      <4>1. <<p.id, r.run>> \in trBound /\ <<p.id, r.run>>[1] = q.id
        BY <2>2, <3>2
      <4>2. <<p.id, r.run>>[2] = run
        BY <4>1, <1>4 DEF TrBind, BindableStart
      <4>3. trBound' = trBound
        BY <4>1, <4>2, <3>1, <3>2
      <4> QED BY <4>3, <2>2
    <3>3. CASE p.id # q.id
      BY <2>2, <3>1, <3>3
    <3> QED BY <3>2, <3>3
  <2>3. TerminalsHeld'
    BY <1>4, <2>2, <1>i DEF TrBind, TerminalsHeld
  <2> QED BY <2>1, <2>3 DEF RunsInv
<1>5. ASSUME NEW q \in trRequests, NEW run \in TrRuns, NEW result \in TrResults, NEW body \in TrBodies,
             TrReport(q.id, run, result, body)
      PROVE  RunsInv' /\ TerminalsStay
  <2>1. trSubmit' \in TrReports
    BY <1>5, <1>i DEF TrReport, TrReports, RunsTyped
  <2> QED BY <2>1, <1>5, <1>c, <1>r, <1>i DEF TrReport, RunsInv, RunsTyped
<1>6. CASE TrSubmitResult
  <2>1. CASE UNCHANGED <<trStored, trRequests>>
    BY <2>1, <1>6, <1>c, <1>r, <1>i DEF TrSubmitResult, RunsInv, RunsTyped
  <2>2. CASE ~UNCHANGED <<trStored, trRequests>>
    <3>1. PICK s \in TrReports : s = trSubmit
      BY <1>6, <1>i DEF TrSubmitResult, RunsTyped
    <3>2. PICK entry : entry = [request |-> s.request, run |-> s.run, id |-> s.id, body |-> s.body]
      OBVIOUS
    <3>3. /\ {b \in trBound : b[1] = s.request} = {<<s.request, s.run>>}
          /\ trStored' = trStored \cup {entry}
          /\ trRequests' = {IF q.id = s.request THEN WithTerminal(q, s) ELSE q : q \in trRequests}
          /\ trSubmit' = NoReport /\ UNCHANGED <<trBound, trCheckpoints, trDirection>>
      BY <1>6, <2>2, <3>1, <3>2 DEF TrSubmitResult
    <3>4. ASSUME NEW q \in trRequests
          PROVE  /\ WithTerminal(q, s) \in [id : (1..TrRevs) \X TrObjectives, terminal : TrResults \cup {NoResult}]
                 /\ WithTerminal(q, s).id = q.id
                 /\ q.terminal # NoResult => WithTerminal(q, s) = q
                 /\ WithTerminal(q, s).terminal \in {q.terminal, s.id}
      BY <1>i DEF WithTerminal, RunsTyped, TrReports
    <3>5. RunsTyped' /\ ChainsLoseNothing'
      <4>1. trRequests' \subseteq [id : (1..TrRevs) \X TrObjectives, terminal : TrResults \cup {NoResult}]
        BY <3>3, <3>4, <1>i DEF RunsTyped
      <4> QED BY <4>1, <3>3, <1>c DEF RunsTyped
    <3>6. TerminalsStay
      BY <3>3, <3>4 DEF TerminalsStay
    <3>7. TerminalsHeld'
      <4> SUFFICES ASSUME NEW p \in trRequests', p.terminal # NoResult
                   PROVE \E r \in trStored' : /\ r.id = p.terminal /\ r.request = p.id
                                              /\ {b \in trBound' : b[1] = p.id} = {<<p.id, r.run>>}
        BY DEF TerminalsHeld
      <4>1. PICK q \in trRequests : p = IF q.id = s.request THEN WithTerminal(q, s) ELSE q
        BY <3>3
      <4>2. CASE q.terminal # NoResult
        <5>1. p = q
          BY <4>1, <4>2, <3>4
        <5> QED BY <5>1, <4>2, <3>3, <1>i DEF TerminalsHeld
      <4>3. CASE q.terminal = NoResult
        <5>1. q.id = s.request /\ p.id = s.request /\ p.terminal = s.id
          BY <4>1, <4>3, <3>4
        <5>2. entry \in trStored' /\ entry.id = s.id /\ entry.request = s.request /\ entry.run = s.run
          BY <3>2, <3>3
        <5> QED BY <5>1, <5>2, <3>3
      <4> QED BY <4>2, <4>3
    <3> QED BY <3>5, <3>6, <3>7 DEF RunsInv
  <2> QED BY <2>1, <2>2
<1>7. ASSUME NEW c \in TrClients, TrCheckpoint(c) PROVE RunsInv' /\ TerminalsStay
  <2>1. TerminalsHeld' /\ TerminalsStay
    BY <1>7, <1>r DEF TrCheckpoint
  <2>2. CASE UNCHANGED trCheckpoints
    BY <2>1, <2>2, <1>7, <1>c, <1>i DEF TrCheckpoint, RunsInv, RunsTyped
  <2>3. CASE ~UNCHANGED trCheckpoints
    <3>1. PICK e : /\ e.seen = Len(trCheckpoints) /\ trCheckpoints' = Append(trCheckpoints, e)
                   /\ \A i \in DOMAIN trCheckpoints : trCheckpoints[i].op # e.op
      <4>1. PICK e : e = [op |-> trCalls[c].op, by |-> c, seen |-> trCalls[c].seen, basis |-> trBasis,
                          body |-> trCalls[c].body]
        OBVIOUS
      <4>2. /\ trCheckpoints' = Append(trCheckpoints, e) /\ trCalls[c].seen = Len(trCheckpoints)
            /\ \A i \in DOMAIN trCheckpoints : trCheckpoints[i].op # trCalls[c].op
        BY <2>3, <1>7, <4>1 DEF TrCheckpoint, CheckpointAdmitted
      <4> QED BY <4>1, <4>2
    <3>2. /\ \E S : trCheckpoints' \in Seq(S)
          /\ \A i \in DOMAIN trCheckpoints' : trCheckpoints'[i].seen = i - 1
          /\ \A i, j \in DOMAIN trCheckpoints' : trCheckpoints'[i].op = trCheckpoints'[j].op => i = j
      <4>1. PICK S : trCheckpoints \in Seq(S)
        BY <1>i DEF RunsTyped
      <4>2. /\ \A i \in DOMAIN trCheckpoints : trCheckpoints[i].seen = i - 1
            /\ \A i, j \in DOMAIN trCheckpoints : trCheckpoints[i].op = trCheckpoints[j].op => i = j
        BY <1>i DEF ChainsLoseNothing
      <4>3. /\ Append(trCheckpoints, e) \in Seq(S \cup {e})
            /\ \A i \in DOMAIN Append(trCheckpoints, e) : Append(trCheckpoints, e)[i].seen = i - 1
            /\ \A i, j \in DOMAIN Append(trCheckpoints, e) :
                 Append(trCheckpoints, e)[i].op = Append(trCheckpoints, e)[j].op => i = j
        BY <3>1, <4>1, <4>2, ChainGrows
      <4> QED BY <4>3, <3>1
    <3>3. trDirection' = trDirection /\ trRequests' = trRequests /\ trSubmit' = trSubmit
      BY <1>7 DEF TrCheckpoint
    <3> QED BY <2>1, <3>2, <3>3, <1>i DEF RunsInv, RunsTyped, ChainsLoseNothing
  <2> QED BY <2>2, <2>3
<1>8. ASSUME NEW c \in TrClients, NEW op \in TrOps, NEW body \in TrBodies, TrLookup(c, op, body)
      PROVE  RunsInv' /\ TerminalsStay
  BY <1>8, <1>c, <1>r, <1>i DEF TrLookup, RunsInv, RunsTyped
<1>9. ASSUME NEW op \in TrOps, NEW seen \in 0..TrChain, NEW body \in TrBodies, TrDirect(op, seen, body)
      PROVE  RunsInv' /\ TerminalsStay
  <2>1. TerminalsHeld' /\ TerminalsStay
    BY <1>9, <1>r DEF TrDirect
  <2>2. PICK e : e = [op |-> op, seen |-> seen, body |-> body]
    OBVIOUS
  <2>3. /\ e.seen = Len(trDirection) /\ trDirection' = Append(trDirection, e)
        /\ \A i \in DOMAIN trDirection : trDirection[i].op # e.op
    BY <2>2, <1>9 DEF TrDirect, DirectionAdmitted
  <2>4. /\ \E S : trDirection' \in Seq(S)
        /\ \A i \in DOMAIN trDirection' : trDirection'[i].seen = i - 1
        /\ \A i, j \in DOMAIN trDirection' : trDirection'[i].op = trDirection'[j].op => i = j
    <3>1. PICK S : trDirection \in Seq(S)
      BY <1>i DEF RunsTyped
    <3>2. /\ \A i \in DOMAIN trDirection : trDirection[i].seen = i - 1
          /\ \A i, j \in DOMAIN trDirection : trDirection[i].op = trDirection[j].op => i = j
      BY <1>i DEF ChainsLoseNothing
    <3>3. /\ Append(trDirection, e) \in Seq(S \cup {e})
          /\ \A i \in DOMAIN Append(trDirection, e) : Append(trDirection, e)[i].seen = i - 1
          /\ \A i, j \in DOMAIN Append(trDirection, e) :
               Append(trDirection, e)[i].op = Append(trDirection, e)[j].op => i = j
      BY <2>3, <3>1, <3>2, ChainGrows
    <3> QED BY <3>3, <2>3
  <2>5. trCheckpoints' = trCheckpoints /\ trRequests' = trRequests /\ trSubmit' = trSubmit
    BY <1>9 DEF TrDirect
  <2> QED BY <2>1, <2>4, <2>5, <1>i DEF RunsInv, RunsTyped, ChainsLoseNothing
<1> QED BY <1>1, <1>2, <1>3, <1>4, <1>5, <1>6, <1>7, <1>8, <1>9 DEF TrRunsNext, TrChainsNext

\* What managed runs record about one work stands, for any runs, sessions and chains
\* (task_runs.py, task_control.py, human_trajectory.py): a terminal result is never replaced
\* and belongs to the only run bound to its request, and every checkpoint and direction was
\* written with the one before it in view.
THEOREM RunRecordsAlwaysStand == TrSpec => RunRecordsStand
<1>1. TrInit => RunsInv
  BY DEF TrInit, RunsInv, RunsTyped, TerminalsHeld, ChainsLoseNothing
<1>2. RunsInv /\ [TrRunsNext \/ TrChainsNext]_trVars => RunsInv'
  BY RunsStep
<1>3. RunsInv /\ [TrRunsNext \/ TrChainsNext]_trVars =>
        [TerminalResultStands /\ ChainsLoseNothing']_trVars
  <2> SUFFICES ASSUME RunsInv, [TrRunsNext \/ TrChainsNext]_trVars
               PROVE  TerminalResultStands /\ ChainsLoseNothing'
    OBVIOUS
  <2>1. TerminalsHeld' /\ ChainsLoseNothing' /\ TerminalsStay
    BY RunsStep DEF RunsInv
  <2> QED BY <2>1 DEF TerminalResultStands, TerminalsHeld, TerminalsStay
<1> QED BY <1>1, <1>2, <1>3, PTL DEF TrSpec, RunRecordsStand

-----------------------------------------------------------------------------
(* ImplementationRuns.                                                     *)

IrReviewRows ==
  [kind : {"review"}, consequence : Consequence, decision : {"PENDING", "APPROVED", "HOLD"}]

ApprovalTyped ==
  /\ irPackage \in [rev : Revs, active : BOOLEAN, fits : BOOLEAN, blocked : BOOLEAN]
  /\ irGrant \in [version : {1, 2}, current : BOOLEAN]
  /\ irReviews \in [Revs -> {Nothing} \cup IrReviewRows]

\* Nothing is proposed for a revision the package has not reached.
NoReviewAhead == \A r \in Revs : r > irPackage.rev => irReviews[r] = Nothing

\* An approved baseline supersedes none or an approved one.
SupersessionClosed ==
  \A r \in ApprovedBaselines : irReviews[r].consequence.supersedes \in {0} \cup ApprovedBaselines

\* What the proposal was checked for still holds when it can be decided.
PendingStillSupersedes ==
  Decided(irPackage.rev, "PENDING") => Supersedes(irReviews[irPackage.rev].consequence)

\* OneCurrentBaseline without counting.
BaselineIsUnique == \A r, s \in CurrentBaselines : r = s

\* An operation names one request.
OneRequestPerOperation == \A p, q \in irRequests : p.op = q.op => p = q

ApprovalInv ==
  ApprovalTyped /\ NoReviewAhead /\ SupersessionClosed /\ PendingStillSupersedes
    /\ BaselineIsUnique /\ ApprovedTextBoundsNotes /\ OneRequestPerAuthorization
    /\ OneRequestPerOperation

\* No consequence, request or review at first.
LEMMA ApprovalStarts == IrInit => ApprovalInv
<1> SUFFICES ASSUME IrInit PROVE ApprovalInv
  OBVIOUS
<1> USE DEF IrInit
<1>1. ApprovalTyped /\ NoReviewAhead
  BY ImplementationConstants DEF ApprovalTyped, NoReviewAhead, Revs
<1>2. ApprovedBaselines = {} /\ CurrentBaselines = {}
  BY DEF ApprovedBaselines, CurrentBaselines, Decided
<1>3. ~Decided(irPackage.rev, "PENDING")
  BY <1>1 DEF Decided, ApprovalTyped
<1> QED BY <1>1, <1>2, <1>3 DEF ApprovalInv, SupersessionClosed, PendingStillSupersedes,
     BaselineIsUnique, ApprovedTextBoundsNotes, OneRequestPerAuthorization, OneRequestPerOperation

\* Reviews that did not change keep the baselines as they are.
LEMMA SameReviews ==
  ASSUME UNCHANGED irReviews
  PROVE  /\ ApprovedBaselines' = ApprovedBaselines /\ CurrentBaselines' = CurrentBaselines
         /\ \A c : Supersedes(c)' <=> Supersedes(c)
         /\ \A r, d : Decided(r, d)' <=> Decided(r, d)
         /\ SupersessionClosed' <=> SupersessionClosed
         /\ BaselineIsUnique' <=> BaselineIsUnique
BY DEF ApprovedBaselines, CurrentBaselines, Supersedes, Decided, SupersessionClosed, BaselineIsUnique

\* A change of one review that neither approves a baseline nor touches an approved one.
LEMMA SameBaselines ==
  ASSUME ApprovalTyped, SupersessionClosed, NEW r \in Revs, NEW y,
         irReviews' = [irReviews EXCEPT ![r] = y],
         r \notin ApprovedBaselines,
         ~(y # Nothing /\ y.decision = "APPROVED" /\ y.consequence.kind = "baseline")
  PROVE  /\ ApprovedBaselines' = ApprovedBaselines /\ CurrentBaselines' = CurrentBaselines
         /\ \A s \in ApprovedBaselines : irReviews'[s] = irReviews[s]
<1>1. irReviews'[r] = y /\ \A s \in Revs : s # r => irReviews'[s] = irReviews[s]
  BY DEF ApprovalTyped
<1>2. \A s \in ApprovedBaselines : s \in Revs /\ irReviews'[s] = irReviews[s]
  BY <1>1 DEF ApprovedBaselines
<1>3. ApprovedBaselines' = ApprovedBaselines
  BY <1>1 DEF ApprovedBaselines, Decided
<1>4. CurrentBaselines' = CurrentBaselines
  BY <1>2, <1>3 DEF CurrentBaselines
<1> QED BY <1>2, <1>3, <1>4

\* IrPropose: a proposal for the present revision.
LEMMA ProposalKeeps ==
  ASSUME ApprovalInv, NEW c \in Consequence, IrPropose(c)
  PROVE  ApprovalInv'
<1> USE DEF IrPropose
<1>i. ApprovalTyped /\ NoReviewAhead /\ SupersessionClosed /\ BaselineIsUnique /\ ApprovedTextBoundsNotes
      /\ OneRequestPerAuthorization /\ OneRequestPerOperation
  BY DEF ApprovalInv
<1>1. PICK r \in Revs : r = irPackage.rev
  BY <1>i DEF ApprovalTyped
<1>2. PICK y : y = [kind |-> "review", consequence |-> c, decision |-> "PENDING"]
  OBVIOUS
<1>3. y \in IrReviewRows /\ y.consequence = c /\ y.decision = "PENDING" /\ y # Nothing
  BY <1>2 DEF IrReviewRows, Nothing
<1>4. irReviews' = [irReviews EXCEPT ![r] = y] /\ irReviews[r] = Nothing
  BY <1>1, <1>2
<1>5. r \notin ApprovedBaselines
  BY <1>4 DEF ApprovedBaselines, Decided
<1>6. /\ ApprovedBaselines' = ApprovedBaselines /\ CurrentBaselines' = CurrentBaselines
      /\ \A s \in ApprovedBaselines : irReviews'[s] = irReviews[s]
  BY <1>3, <1>4, <1>5, <1>i, SameBaselines
<1>7. ApprovalTyped' /\ NoReviewAhead'
  BY <1>1, <1>3, <1>4, <1>i DEF ApprovalTyped, NoReviewAhead, Revs
<1>8. SupersessionClosed' /\ BaselineIsUnique'
  BY <1>6, <1>i DEF SupersessionClosed, BaselineIsUnique
<1>9. CurrentBaselines \subseteq ApprovedBaselines
  BY DEF CurrentBaselines
<1>10. ApprovedTextBoundsNotes'
  BY <1>6, <1>9, <1>i DEF ApprovedTextBoundsNotes
<1>11. Supersedes(c)'
  <2>1. Supersedes(c)
    OBVIOUS
  <2>2. c.kind # "legacy" /\ c.supersedes # 0 => c.supersedes \in ApprovedBaselines
    BY <2>1, <1>9 DEF Supersedes
  <2> QED BY <2>1, <2>2, <1>6 DEF Supersedes
<1>12. PendingStillSupersedes'
  <2>1. irReviews'[irPackage'.rev].consequence = c
    BY <1>1, <1>3, <1>4, <1>i DEF ApprovalTyped
  <2> QED BY <2>1, <1>11 DEF PendingStillSupersedes, Supersedes
<1> QED BY <1>7, <1>8, <1>10, <1>12, <1>i
     DEF ApprovalInv, OneRequestPerAuthorization, OneRequestPerOperation

\* IrDecide: the decision on the present revision.  An approved baseline becomes the only
\* current one, because what its proposal was checked for still holds.
LEMMA DecisionKeeps ==
  ASSUME ApprovalInv, NEW r \in Revs, NEW d \in {"APPROVED", "HOLD"}, IrDecide(r, d)
  PROVE  ApprovalInv'
<1> USE DEF IrDecide
<1>i. ApprovalTyped /\ NoReviewAhead /\ SupersessionClosed /\ BaselineIsUnique /\ ApprovedTextBoundsNotes
      /\ OneRequestPerAuthorization /\ OneRequestPerOperation /\ PendingStillSupersedes
  BY DEF ApprovalInv
<1>1. r = irPackage.rev /\ irReviews[r] \in IrReviewRows /\ irReviews[r].decision = "PENDING"
  BY <1>i DEF Decidable, Decided, ApprovalTyped
<1>2. PICK y : y = [irReviews[r] EXCEPT !.decision = d]
  OBVIOUS
<1>3. /\ y \in IrReviewRows /\ y.consequence = irReviews[r].consequence /\ y.decision = d /\ y # Nothing
      /\ irReviews' = [irReviews EXCEPT ![r] = y]
  BY <1>1, <1>2, <1>i DEF IrReviewRows, Nothing, ApprovalTyped
<1>4. r \notin ApprovedBaselines
  BY <1>1 DEF ApprovedBaselines, Decided
<1>5. ApprovalTyped' /\ NoReviewAhead'
  BY <1>1, <1>3, <1>i DEF ApprovalTyped, NoReviewAhead, Revs
<1>6. irReviews'[r] = y /\ \A s \in Revs : s # r => irReviews'[s] = irReviews[s]
  BY <1>3, <1>i DEF ApprovalTyped
<1>7. PendingStillSupersedes'
  BY <1>1, <1>3, <1>6 DEF PendingStillSupersedes, Decided
<1>8. CurrentBaselines \subseteq ApprovedBaselines /\ ApprovedBaselines \subseteq Revs
  BY DEF CurrentBaselines, ApprovedBaselines
<1>9. CASE d = "APPROVED" /\ y.consequence.kind = "baseline"
  <2>1. ApprovedBaselines' = ApprovedBaselines \cup {r}
    BY <1>3, <1>6, <1>9 DEF ApprovedBaselines, Decided
  <2>2. PICK p : p = y.consequence.supersedes
    OBVIOUS
  <2>3. \/ p = 0 /\ ApprovedBaselines = {}
        \/ CurrentBaselines = {p} /\ p \in ApprovedBaselines
    <3>1. Supersedes(y.consequence)
      BY <1>1, <1>3, <1>i DEF PendingStillSupersedes, Decided, Decidable
    <3> QED BY <3>1, <2>2, <1>8, <1>9 DEF Supersedes
  <2>4. \A s \in ApprovedBaselines : s # r /\ irReviews'[s] = irReviews[s]
    BY <1>4, <1>6, <1>8
  <2>a. /\ \A s \in ApprovedBaselines : irReviews'[s].consequence.supersedes \in {0} \cup ApprovedBaselines
        /\ irReviews'[r].consequence.supersedes = p
    BY <2>2, <2>4, <1>6, <1>i DEF SupersessionClosed
  <2>5. SupersessionClosed'
    <3>1. \A s \in ApprovedBaselines' : irReviews'[s].consequence.supersedes \in {0} \cup ApprovedBaselines'
      BY <2>1, <2>3, <2>a
    <3> QED BY <3>1 DEF SupersessionClosed
  <2>6. CurrentBaselines' = {r}
    <3>1. r \in CurrentBaselines'
      <4>1. 0 \notin Revs
        BY DEF Revs
      <4>2. p # r
        BY <2>3, <1>4, <4>1
      <4>3. \A s \in ApprovedBaselines' : irReviews'[s].consequence.supersedes # r
        BY <2>1, <2>a, <4>1, <4>2, <1>4
      <4> QED BY <2>1, <4>3 DEF CurrentBaselines
    <3>2. ASSUME NEW s \in CurrentBaselines' PROVE s = r
      <4>1. s \in ApprovedBaselines' /\ \A x \in ApprovedBaselines' : irReviews'[x].consequence.supersedes # s
        BY <3>2 DEF CurrentBaselines
      <4>2. s # p
        BY <4>1, <2>1, <2>2, <1>6
      <4>3. SUFFICES ASSUME s \in ApprovedBaselines PROVE FALSE
        BY <4>1, <2>1
      <4>4. s \in CurrentBaselines
        BY <4>1, <4>3, <2>1, <2>4 DEF CurrentBaselines
      <4> QED BY <4>2, <4>3, <4>4, <2>3
    <3> QED BY <3>1, <3>2
  <2>7. BaselineIsUnique' /\ ApprovedTextBoundsNotes'
    BY <2>6, <1>1, <1>3, <1>6, <1>9 DEF BaselineIsUnique, ApprovedTextBoundsNotes
  <2> QED BY <1>5, <1>7, <2>5, <2>7, <1>i
       DEF ApprovalInv, OneRequestPerAuthorization, OneRequestPerOperation
<1>10. CASE ~(d = "APPROVED" /\ y.consequence.kind = "baseline")
  <2>1. /\ ApprovedBaselines' = ApprovedBaselines /\ CurrentBaselines' = CurrentBaselines
        /\ \A s \in ApprovedBaselines : irReviews'[s] = irReviews[s]
    BY <1>3, <1>4, <1>10, <1>i, SameBaselines
  <2>2. SupersessionClosed' /\ BaselineIsUnique' /\ ApprovedTextBoundsNotes'
    BY <2>1, <1>8, <1>i DEF SupersessionClosed, BaselineIsUnique, ApprovedTextBoundsNotes
  <2> QED BY <1>5, <1>7, <2>2, <1>i
       DEF ApprovalInv, OneRequestPerAuthorization, OneRequestPerOperation
<1> QED BY <1>9, <1>10

\* IrChange: what happens around the package.
LEMMA WorldKeeps ==
  ASSUME ApprovalInv, IrChange
  PROVE  ApprovalInv'
<1> USE DEF IrChange
<1>i. ApprovalTyped /\ NoReviewAhead /\ SupersessionClosed /\ BaselineIsUnique /\ ApprovedTextBoundsNotes
      /\ OneRequestPerAuthorization /\ OneRequestPerOperation /\ PendingStillSupersedes
  BY DEF ApprovalInv
<1>0. (OneRequestPerAuthorization /\ OneRequestPerOperation /\ SupersessionClosed /\ BaselineIsUnique)'
  BY <1>i, SameReviews DEF OneRequestPerAuthorization, OneRequestPerOperation
<1>b. /\ CurrentBaselines' = CurrentBaselines
      /\ \A c : Supersedes(c)' <=> Supersedes(c)
      /\ \A r, e : Decided(r, e)' <=> Decided(r, e)
  BY SameReviews
<1>1. CASE irPackage' = irPackage
  <2>1. irGrant' \in [version : {1, 2}, current : BOOLEAN]
    <3>1. irGrant' = irGrant \/ irGrant' \in {[version |-> 2, current |-> TRUE], [irGrant EXCEPT !.current = FALSE]}
      BY DEF IrWorld
    <3>2. ASSUME NEW g \in [version : {1, 2}, current : BOOLEAN]
          PROVE  [g EXCEPT !.current = FALSE] \in [version : {1, 2}, current : BOOLEAN]
      OBVIOUS
    <3>3. [version |-> 2, current |-> TRUE] \in [version : {1, 2}, current : BOOLEAN]
      OBVIOUS
    <3>4. irGrant \in [version : {1, 2}, current : BOOLEAN]
      BY <1>i DEF ApprovalTyped
    <3> QED BY <3>1, <3>2, <3>3, <3>4
  <2>2. ApprovalTyped' /\ NoReviewAhead'
    BY <2>1, <1>1, <1>i DEF ApprovalTyped, NoReviewAhead
  <2>3. ApprovedTextBoundsNotes'
    BY <1>1, <1>b, <1>i DEF ApprovedTextBoundsNotes
  <2>4. PendingStillSupersedes'
    BY <1>1, <1>i, SameReviews DEF PendingStillSupersedes, Supersedes, Decided
  <2> QED BY <1>0, <2>2, <2>3, <2>4 DEF ApprovalInv
<1>2. CASE irPackage' # irPackage
  <2>1. PICK fits \in BOOLEAN, active \in BOOLEAN, blocked \in BOOLEAN :
          /\ NotesFit(fits) /\ irPackage.rev < IrRevs
          /\ irPackage' = [rev |-> irPackage.rev + 1, active |-> active, fits |-> fits, blocked |-> blocked]
          /\ irGrant' = irGrant
    BY <1>2 DEF IrWorld
  <2>2. irPackage.rev \in Revs /\ irPackage.rev + 1 \in Revs /\ irPackage'.rev = irPackage.rev + 1
    BY <2>1, <1>i, ImplementationConstants DEF ApprovalTyped, Revs
  <2>3. ApprovalTyped'
    BY <2>1, <2>2, <1>i DEF ApprovalTyped
  <2>4. NoReviewAhead' /\ irReviews'[irPackage'.rev] = Nothing
    BY <2>2, <1>i, ImplementationConstants DEF NoReviewAhead, Revs
  <2>5. ApprovedTextBoundsNotes'
    BY <2>1, <1>b DEF ApprovedTextBoundsNotes, NotesFit
  <2>6. PendingStillSupersedes'
    BY <2>4 DEF PendingStillSupersedes, Decided
  <2> QED BY <1>0, <2>3, <2>4, <2>5, <2>6 DEF ApprovalInv
<1> QED BY <1>1, <1>2

\* What an authorization proves about the review it names.
LEMMA AuthorizationIsCurrent ==
  ASSUME NEW auth \in Authorizations, ApprovalTyped
  PROVE  /\ Decided(auth.by, "APPROVED")
         /\ irReviews[auth.by].consequence.kind = "baseline" =>
              CurrentBaselines = {auth.by} /\ DirectionHolds(auth.by)
<1>1. CASE Cardinality(BaselineProofs) = 1
  <2>1. PICK p \in BaselineProofs : /\ CurrentBaselines = {p.baseline} /\ DirectionHolds(p.baseline)
                                    /\ auth = [by |-> p.baseline, rev |-> p.rev]
    <3>1. Authorizations = {[by |-> p.baseline, rev |-> p.rev] :
            p \in {x \in BaselineProofs : CurrentBaselines = {x.baseline} /\ DirectionHolds(x.baseline)}}
      BY <1>1, FS_EmptySet DEF Authorizations
    <3> QED BY <3>1
  <2>2. auth.by = p.baseline /\ p.baseline \in ApprovedBaselines
    BY <2>1 DEF CurrentBaselines
  <2> QED BY <2>1, <2>2 DEF ApprovedBaselines
<1>2. CASE Cardinality(BaselineProofs) # 1
  <2>1. /\ auth = [by |-> irPackage.rev, rev |-> irPackage.rev]
        /\ Decided(irPackage.rev, "APPROVED") /\ irReviews[irPackage.rev].consequence.kind = "legacy"
    BY <1>2 DEF Authorizations
  <2> QED BY <2>1
<1> QED BY <1>1, <1>2

\* Every step of a proposal, a decision, a request or a binding keeps the invariant.
LEMMA ApprovalStep ==
  ASSUME ApprovalInv, [IrNext]_irVars
  PROVE  ApprovalInv' /\ [RunsStartUnderCurrentApproval]_irVars
<1>i. ApprovalTyped /\ OneRequestPerAuthorization /\ OneRequestPerOperation
  BY DEF ApprovalInv
<1>p. ASSUME irBound' = irBound PROVE RunsStartUnderCurrentApproval
  BY <1>p DEF RunsStartUnderCurrentApproval
<1>u. ASSUME UNCHANGED <<irPackage, irGrant, irReviews>>
      PROVE  (ApprovalTyped /\ NoReviewAhead /\ SupersessionClosed /\ PendingStillSupersedes
                /\ BaselineIsUnique /\ ApprovedTextBoundsNotes)'
  <2>1. SupersessionClosed' /\ BaselineIsUnique'
    BY <1>u, SameReviews DEF ApprovalInv
  <2>2. PendingStillSupersedes' /\ ApprovedTextBoundsNotes'
    BY <1>u, SameReviews DEF ApprovalInv, PendingStillSupersedes, ApprovedTextBoundsNotes, Supersedes,
       Decided
  <2> QED BY <2>1, <2>2, <1>u DEF ApprovalInv, ApprovalTyped, NoReviewAhead
<1>1. CASE UNCHANGED irVars
  BY <1>1, <1>u, <1>i DEF irVars, ApprovalInv, OneRequestPerAuthorization, OneRequestPerOperation
<1>2. CASE IrChange
  BY <1>2, <1>p, WorldKeeps DEF IrChange
<1>3. ASSUME NEW c \in Consequence, IrPropose(c) PROVE ApprovalInv' /\ RunsStartUnderCurrentApproval
  BY <1>3, <1>p, ProposalKeeps DEF IrPropose
<1>4. ASSUME NEW r \in Revs, NEW d \in {"APPROVED", "HOLD"}, IrDecide(r, d)
      PROVE  ApprovalInv' /\ RunsStartUnderCurrentApproval
  BY <1>4, <1>p, DecisionKeeps DEF IrDecide
<1>5. ASSUME NEW op \in IrOps, IrRequest(op) PROVE ApprovalInv' /\ RunsStartUnderCurrentApproval
  <2>1. PICK auth \in Authorizations :
          /\ StableRequest(auth) = {}
          /\ irRequests' = irRequests \cup
               {[op |-> op, rev |-> irPackage.rev, auth |-> auth, grant |-> irGrant.version]}
    BY <1>5 DEF IrRequest
  <2>2. \A q \in irRequests : q.op # op /\ q.auth # auth
    BY <1>5, <2>1 DEF IrRequest, RequestOf, StableRequest
  <2>3. OneRequestPerAuthorization' /\ OneRequestPerOperation'
    BY <2>1, <2>2, <1>i DEF OneRequestPerAuthorization, OneRequestPerOperation
  <2> QED BY <2>3, <1>5, <1>p, <1>u DEF IrRequest, ApprovalInv
<1>6. ASSUME NEW q \in irRequests, NEW run \in IrRuns, IrBind(q, run)
      PROVE  ApprovalInv' /\ RunsStartUnderCurrentApproval
  <2>1. ApprovalInv'
    BY <1>6, <1>u, <1>i DEF IrBind, ApprovalInv, OneRequestPerAuthorization, OneRequestPerOperation
  <2>2. irBound' \ irBound \subseteq {<<q.op, run>>} /\ <<q.op, run>>[1] = q.op
    BY <1>6 DEF IrBind
  <2>3. /\ irPackage.rev = q.rev /\ irPackage.active /\ ~irHold /\ ~irPackage.blocked
        /\ irGrant.current /\ q.grant = irGrant.version /\ q.auth \in Authorizations
    BY <1>6 DEF IrBind, Bindable, StillEligible, Sendable
  <2>4. irGrant = [version |-> q.grant, current |-> TRUE]
    BY <2>3, <1>i DEF ApprovalTyped
  <2>5. /\ Decided(q.auth.by, "APPROVED")
        /\ irReviews[q.auth.by].consequence.kind = "baseline" =>
             CurrentBaselines = {q.auth.by} /\ DirectionHolds(q.auth.by)
    BY <2>3, <1>i, AuthorizationIsCurrent
  <2>6. RunsStartUnderCurrentApproval
    BY <2>2, <2>3, <2>4, <2>5, <1>i DEF RunsStartUnderCurrentApproval, OneRequestPerOperation
  <2> QED BY <2>1, <2>6
<1> QED BY <1>1, <1>2, <1>3, <1>4, <1>5, <1>6 DEF IrNext

\* From the human's decision to the start of a run, for any number of revisions, requests
\* and runs (human_reviews.py, implementation_requests.py, task_runs.py): a package never
\* has two current approved baselines although supersession is checked only when a
\* baseline is proposed, an approved text bounds the notes, an authorization leads to one
\* request, and no run starts under an approval that is no longer the current one.
THEOREM ApprovalStaysSound == IrSpec => ApprovalIsSound
<1>1. ApprovalInv /\ [IrNext]_irVars => ApprovalInv'
  BY ApprovalStep
<1>2. ApprovalInv => OneCurrentBaseline
  BY AtMostOne DEF ApprovalInv, BaselineIsUnique, OneCurrentBaseline
<1>3. ApprovalInv => ApprovedTextBoundsNotes /\ OneRequestPerAuthorization
  BY DEF ApprovalInv
<1>4. ApprovalInv /\ [IrNext]_irVars => [RunsStartUnderCurrentApproval]_irVars
  BY ApprovalStep
<1> QED BY ApprovalStarts, <1>1, <1>2, <1>3, <1>4, PTL DEF IrSpec, ApprovalIsSound

-----------------------------------------------------------------------------
(* PullRequests.                                                           *)

PrRows == [owner : PrNames, version : Nat \ {0}]
PrAcceptances ==
  [from : PrNames, to : PrNames, pr : PrIds, version : Nat, fromGen : Nat, toGen : Nat]

OwnersTyped ==
  /\ prGen \in [PrNames -> Nat]
  /\ prRows \in [PrIds -> {NoPullRequest} \cup PrRows]
  /\ prMail \subseteq PrAcceptances
  /\ prCaller \in {NoCaller} \cup [name : PrNames, gen : Nat]
  /\ prMoves \in Seq(PrAcceptances)

\* A linked pull request has its row.
LinkedRowsExist == \A l \in prLinks : l[2] \in PrIds /\ prRows[l[2]] # NoPullRequest

\* Every transfer has moved its pull request past the version it was accepted at.
MovesAreSpent ==
  \A i \in DOMAIN prMoves :
    /\ prRows[prMoves[i].pr] # NoPullRequest
    /\ prMoves[i].version < prRows[prMoves[i].pr].version

\* The rows of a page before v, in the order of the identities.
RowsBefore(views, v) == {u \in views : u.pr < v.pr}

\* A reader has seen the rows of its basis up to its offset, and follows cursors exactly as
\* long as there is more.
ReaderFits ==
  prReader.at \in {"more", "done"} =>
    /\ prReader.offset \in Nat /\ IsFiniteSet(prReader.basis)
    /\ \A v \in prReader.basis : v.pr \in Nat
    /\ prReader.seen = {v \in prReader.basis : Cardinality(RowsBefore(prReader.basis, v)) < prReader.offset}
    /\ prReader.at = "done" => Cardinality(prReader.basis) <= prReader.offset

OwnersInv ==
  OwnersTyped /\ LinkedRowsExist /\ MovesAreSpent /\ AcceptanceMovesOnce /\ ReaderFits

\* A row that exists has an owner and a positive version.
LEMMA RowFields ==
  ASSUME OwnersTyped, NEW p \in PrIds, prRows[p] # NoPullRequest
  PROVE  prRows[p] \in PrRows /\ prRows[p].owner \in PrNames /\ prRows[p].version \in Nat \ {0}
BY DEF OwnersTyped, PrRows

\* What a page is computed from is finite, and its rows are numbered by their pull requests.
LEMMA BasisIsFinite ==
  ASSUME NEW w
  PROVE  IsFiniteSet(Basis(w)) /\ \A v \in Basis(w) : v.pr \in Nat
<1> DEFINE S == {q \in PrIds : <<w, q>> \in prLinks}
           view(p) == [pr |-> p, row |-> prRows[p], works |-> {v \in PrWorks : <<v, p>> \in prLinks}]
           f == [p \in S |-> view(p)]
<1>1. IsFiniteSet(S)
  BY FS_Subset, PullRequestConstants, S \subseteq PrIds
<1>2. Basis(w) = {view(p) : p \in S}
  BY DEF Basis
<1>3. f \in Surjection(S, Basis(w))
  <2> HIDE DEF view, S
  <2> QED BY <1>2 DEF Surjection
<1>4. IsFiniteSet(Basis(w))
  <2> HIDE DEF f, S
  <2> QED BY <1>1, <1>3, FS_Surjection
<1>5. \A p \in S : view(p).pr \in Nat
  BY PullRequestConstants
<1>6. \A v \in Basis(w) : v.pr \in Nat
  <2> HIDE DEF view, S
  <2> QED BY <1>2, <1>5
<1> QED BY <1>4, <1>6

\* The rows of a finite basis before one of them are fewer than the basis has.
LEMMA FewerBefore ==
  ASSUME NEW B, IsFiniteSet(B), \A v \in B : v.pr \in Nat, NEW v \in B
  PROVE  /\ Cardinality(RowsBefore(B, v)) \in Nat /\ Cardinality(B) \in Nat
         /\ Cardinality(RowsBefore(B, v)) < Cardinality(B)
<1>1. RowsBefore(B, v) \subseteq B /\ v \notin RowsBefore(B, v)
  BY DEF RowsBefore
<1>2. IsFiniteSet(RowsBefore(B, v)) /\ Cardinality(RowsBefore(B, v)) <= Cardinality(B)
      /\ (Cardinality(RowsBefore(B, v)) = Cardinality(B) => RowsBefore(B, v) = B)
  BY <1>1, FS_Subset
<1>3. Cardinality(RowsBefore(B, v)) \in Nat /\ Cardinality(B) \in Nat
  BY <1>2, FS_CardinalityType
<1> QED BY <1>1, <1>2, <1>3

\* A page read at the reader's offset extends what it has seen by exactly the rows up to the
\* next offset.
LEMMA PageKeepsReader ==
  ASSUME NEW w, NEW offset \in Nat, NEW seen, Reads(w, offset, seen),
         seen = {v \in Basis(w) : Cardinality(RowsBefore(Basis(w), v)) < offset}
  PROVE  ReaderFits'
<1>1. PICK B : B = Basis(w)
  OBVIOUS
<1>2. IsFiniteSet(B) /\ \A v \in B : v.pr \in Nat
  BY <1>1, BasisIsFinite
<1>3. PrPage \in Nat \ {0}
  BY PullRequestConstants
<1>4. PageOf(B, offset) = {v \in B : /\ Cardinality(RowsBefore(B, v)) >= offset
                                     /\ Cardinality(RowsBefore(B, v)) < offset + PrPage}
  BY DEF PageOf, RowsBefore
<1>5. seen \cup PageOf(B, offset) = {v \in B : Cardinality(RowsBefore(B, v)) < offset + PrPage}
  <2>1. seen = {v \in B : Cardinality(RowsBefore(B, v)) < offset}
    BY <1>1
  <2>2. \A v \in B : Cardinality(RowsBefore(B, v)) \in Nat
    BY <1>2, FewerBefore
  <2> QED BY <2>1, <2>2, <1>3, <1>4
<1>6. Cardinality(B) \in Nat
  BY <1>2, FS_CardinalityType
<1>7. prReader' = [at |-> IF Cardinality(B) > offset + PrPage THEN "more" ELSE "done",
                   work |-> w, basis |-> B, offset |-> offset + PrPage,
                   seen |-> seen \cup PageOf(B, offset)]
  BY <1>1 DEF Reads
<1>8. /\ prReader'.offset = offset + PrPage /\ prReader'.basis = B
      /\ prReader'.seen = seen \cup PageOf(B, offset)
      /\ prReader'.at = "done" => Cardinality(B) <= offset + PrPage
  BY <1>7, <1>6, <1>3
<1> QED BY <1>2, <1>3, <1>5, <1>8 DEF ReaderFits, RowsBefore

\* The invariant of ownership holds before any pull request is linked.
LEMMA OwnersStart == PrInit => OwnersInv
<1> SUFFICES ASSUME PrInit PROVE OwnersInv
  OBVIOUS
<1>1. OwnersTyped
  BY DEF PrInit, OwnersTyped
<1>2. DOMAIN prMoves = {} /\ prLinks = {}
  BY DEF PrInit
<1>3. prReader.at = "idle"
  BY DEF PrInit, NotReading
<1> QED BY <1>1, <1>2, <1>3 DEF OwnersInv, LinkedRowsExist, MovesAreSpent, AcceptanceMovesOnce, ReaderFits

\* A transfer uses an acceptance given for the row as it is, by the sessions that hold both
\* mailboxes now, and leaves the row at a version no acceptance so far names.
LEMMA TransferKeeps ==
  ASSUME OwnersInv, NEW w \in PrWorks, NEW p \in PrIds, NEW recipient \in PrNames,
         Transfer(w, p, recipient)
  PROVE  OwnersInv' /\ SessionsAgreed
<1>t. OwnersTyped /\ LinkedRowsExist /\ MovesAreSpent /\ AcceptanceMovesOnce /\ ReaderFits
  BY DEF OwnersInv
<1>1. PICK d \in prMail : ExactAcceptance(p, recipient, d) /\ prMoves' = Append(prMoves, d)
  BY DEF Transfer
<1>2. prRows[p] # NoPullRequest
  BY <1>t DEF Transfer, LinkedRowsExist
<1>3. prRows[p] \in PrRows /\ prRows[p].owner \in PrNames /\ prRows[p].version \in Nat \ {0}
  BY <1>2, <1>t, RowFields
<1>4. d \in PrAcceptances
  BY <1>t DEF OwnersTyped
<1>5. /\ prRows' = [prRows EXCEPT ![p] = [owner |-> recipient, version |-> prRows[p].version + 1]]
      /\ prCaller' = NoCaller
      /\ prGen' = prGen /\ prLinks' = prLinks /\ prMail' = prMail /\ prReader' = prReader
  BY DEF Transfer
<1>6. [owner |-> recipient, version |-> prRows[p].version + 1] \in PrRows
  BY <1>3 DEF PrRows
<1>7. /\ prRows' \in [PrIds -> {NoPullRequest} \cup PrRows]
      /\ prRows'[p] = [owner |-> recipient, version |-> prRows[p].version + 1]
      /\ \A q \in PrIds \ {p} : prRows'[q] = prRows[q]
  BY <1>5, <1>6, <1>t DEF OwnersTyped
<1>8. prRows'[p] # NoPullRequest
  BY <1>3, <1>7 DEF NoPullRequest
<1>9. prMoves' \in Seq(PrAcceptances) /\ Len(prMoves') = Len(prMoves) + 1 /\ Len(prMoves) \in Nat
      /\ prMoves'[Len(prMoves) + 1] = d /\ \A i \in 1..Len(prMoves) : prMoves'[i] = prMoves[i]
  BY <1>1, <1>4, <1>t DEF OwnersTyped
<1>10. DOMAIN prMoves = 1..Len(prMoves) /\ DOMAIN prMoves' = 1..(Len(prMoves) + 1)
  BY <1>9, <1>t DEF OwnersTyped
<1>11. d.pr = p /\ d.version = prRows[p].version
  BY <1>1 DEF ExactAcceptance
<1>12. OwnersTyped'
  BY <1>t, <1>5, <1>7, <1>9 DEF OwnersTyped
<1>13. LinkedRowsExist'
  BY <1>t, <1>5, <1>7, <1>8 DEF LinkedRowsExist
<1>14. \A i \in 1..Len(prMoves) : prMoves[i] \in PrAcceptances
  BY <1>t DEF OwnersTyped
<1>15. MovesAreSpent'
  <2> SUFFICES ASSUME NEW i \in DOMAIN prMoves'
               PROVE  /\ prRows'[prMoves'[i].pr] # NoPullRequest
                      /\ prMoves'[i].version < prRows'[prMoves'[i].pr].version
    BY DEF MovesAreSpent
  <2>1. i \in 1..Len(prMoves) \/ i = Len(prMoves) + 1
    BY <1>10, <1>9
  <2>2. CASE i = Len(prMoves) + 1
    BY <2>2, <1>9, <1>11, <1>8, <1>7, <1>3
  <2>3. CASE i \in 1..Len(prMoves)
    <3>1. /\ prMoves'[i] = prMoves[i] /\ prMoves[i].pr \in PrIds /\ prMoves[i].version \in Nat
          /\ prRows[prMoves[i].pr] # NoPullRequest
          /\ prMoves[i].version < prRows[prMoves[i].pr].version
      BY <2>3, <1>9, <1>10, <1>14, <1>t DEF MovesAreSpent, PrAcceptances
    <3>2. CASE prMoves[i].pr = p
      BY <3>1, <3>2, <1>7, <1>8, <1>3
    <3>3. CASE prMoves[i].pr # p
      BY <3>1, <3>3, <1>7
    <3> QED BY <3>2, <3>3
  <2> QED BY <2>1, <2>2, <2>3
<1>16. \A i \in 1..Len(prMoves) : prMoves[i] # d
  BY <1>11, <1>10, <1>t, <1>3 DEF MovesAreSpent
<1>17. AcceptanceMovesOnce'
  <2> SUFFICES ASSUME NEW i \in DOMAIN prMoves', NEW j \in DOMAIN prMoves', prMoves'[i] = prMoves'[j]
               PROVE  i = j
    BY DEF AcceptanceMovesOnce
  <2>1. (i \in 1..Len(prMoves) \/ i = Len(prMoves) + 1) /\ (j \in 1..Len(prMoves) \/ j = Len(prMoves) + 1)
    BY <1>10, <1>9
  <2> QED BY <2>1, <1>9, <1>10, <1>16, <1>t DEF AcceptanceMovesOnce
<1>18. ReaderFits'
  BY <1>5, <1>t DEF ReaderFits, RowsBefore
<1>19. SessionsAgreed
  <2>1. /\ d.from = recipient /\ d.to = prCaller.name /\ prRows[p].owner = prCaller.name
        /\ d.fromGen = prGen[recipient] /\ d.toGen = prGen[prCaller.name]
    BY <1>1 DEF ExactAcceptance, Transfer, CallerHolds
  <2>2. prRows'[p].owner = recipient
    BY <1>7
  <2> QED BY <2>1, <2>2, <1>7, <1>11 DEF SessionsAgreed
<1> QED BY <1>12, <1>13, <1>15, <1>17, <1>18, <1>19 DEF OwnersInv

\* Every step keeps the invariant of ownership, and changes a row only as agreed.
LEMMA OwnersStep ==
  OwnersInv /\ [PrNext]_prVars => OwnersInv' /\ [SessionsAgreed]_prVars
<1> SUFFICES ASSUME OwnersInv, [PrNext]_prVars
             PROVE  OwnersInv' /\ [SessionsAgreed]_prVars
  OBVIOUS
<1>t. OwnersTyped /\ LinkedRowsExist /\ MovesAreSpent /\ AcceptanceMovesOnce /\ ReaderFits
  BY DEF OwnersInv
<1>s. PrTraded \subseteq PrIds
  BY PullRequestConstants
<1>u. prRows' = prRows => SessionsAgreed
  BY DEF SessionsAgreed
<1>m. (prRows' = prRows /\ prMoves' = prMoves) => MovesAreSpent' /\ AcceptanceMovesOnce'
  BY <1>t DEF MovesAreSpent, AcceptanceMovesOnce
<1>r. prReader' = prReader => ReaderFits'
  BY <1>t DEF ReaderFits, RowsBefore
<1>l. (prRows' = prRows /\ prLinks' \subseteq prLinks) => LinkedRowsExist'
  BY <1>t DEF LinkedRowsExist
<1>1. CASE UNCHANGED prVars
  <2>1. OwnersTyped'
    BY <1>1, <1>t DEF prVars, OwnersTyped
  <2> QED BY <2>1, <1>1, <1>m, <1>r, <1>l DEF prVars, OwnersInv
<1>2. ASSUME NEW n \in PrNames, Takeover(n)
      PROVE  OwnersInv' /\ SessionsAgreed
  <2>1. OwnersTyped'
    BY <1>2, <1>t DEF Takeover, OwnersTyped
  <2> QED BY <2>1, <1>2, <1>u, <1>m, <1>r, <1>l DEF Takeover, OwnersInv
<1>3. ASSUME NEW n \in PrNames, ResolveCaller(n)
      PROVE  OwnersInv' /\ SessionsAgreed
  <2>1. OwnersTyped'
    BY <1>3, <1>t DEF ResolveCaller, OwnersTyped
  <2> QED BY <2>1, <1>3, <1>u, <1>m, <1>r, <1>l DEF ResolveCaller, OwnersInv
<1>4. ASSUME NEW n \in PrNames, NEW p \in PrIds, Accepts(n, p)
      PROVE  OwnersInv' /\ SessionsAgreed
  <2>1. prRows[p].owner \in PrNames /\ prRows[p].version \in Nat
    BY <1>4, <1>t, RowFields DEF Accepts
  <2>2. OwnersTyped'
    BY <2>1, <1>4, <1>t DEF Accepts, OwnersTyped, PrAcceptances
  <2> QED BY <2>2, <1>4, <1>u, <1>m, <1>r, <1>l DEF Accepts, OwnersInv
<1>5. ASSUME NEW w \in PrWorks, NEW p \in PrIds, Add(w, p)
      PROVE  OwnersInv' /\ SessionsAgreed
  <2>1. prCaller \in [name : PrNames, gen : Nat]
    BY <1>5, <1>t DEF Add, CallerHolds, OwnersTyped
  <2>2. [owner |-> prCaller.name, version |-> 1] \in PrRows
        /\ [owner |-> prCaller.name, version |-> 1] # NoPullRequest
    BY <2>1 DEF PrRows, NoPullRequest
  <2>3. /\ prRows' \in [PrIds -> {NoPullRequest} \cup PrRows]
        /\ \A q \in PrIds : prRows[q] # NoPullRequest => prRows'[q] = prRows[q]
        /\ prRows'[p] # NoPullRequest
    BY <2>2, <1>5, <1>t DEF Add, OwnersTyped
  <2>4. OwnersTyped'
    BY <2>3, <1>5, <1>t DEF Add, OwnersTyped
  <2>5. LinkedRowsExist'
    BY <2>3, <1>5, <1>t DEF Add, LinkedRowsExist
  <2>6. \A i \in DOMAIN prMoves : prMoves[i].pr \in PrIds
    <3>1. \A i \in DOMAIN prMoves : prMoves[i] \in PrAcceptances
      BY <1>t DEF OwnersTyped
    <3> QED BY <3>1 DEF PrAcceptances
  <2>7. MovesAreSpent' /\ AcceptanceMovesOnce'
    BY <2>3, <2>6, <1>5, <1>t DEF Add, MovesAreSpent, AcceptanceMovesOnce
  <2>8. SessionsAgreed
    BY <2>3 DEF SessionsAgreed
  <2> QED BY <2>4, <2>5, <2>7, <2>8, <1>5, <1>r DEF Add, OwnersInv
<1>6. ASSUME NEW w \in PrWorks, NEW p \in PrIds, RemoveLink(w, p)
      PROVE  OwnersInv' /\ SessionsAgreed
  <2>1. OwnersTyped'
    BY <1>6, <1>t DEF RemoveLink, OwnersTyped
  <2> QED BY <2>1, <1>6, <1>u, <1>m, <1>r, <1>l DEF RemoveLink, OwnersInv
<1>7. ASSUME Refused
      PROVE  OwnersInv' /\ SessionsAgreed
  <2>1. OwnersTyped'
    BY <1>7, <1>t DEF Refused, OwnersTyped
  <2> QED BY <2>1, <1>7, <1>u, <1>m, <1>r, <1>l DEF Refused, OwnersInv
<1>8. ASSUME UNCHANGED <<prGen, prRows, prLinks, prMail, prCaller, prMoves>>, ReaderFits'
      PROVE  OwnersInv' /\ SessionsAgreed
  <2>1. OwnersTyped'
    BY <1>8, <1>t DEF OwnersTyped
  <2> QED BY <2>1, <1>8, <1>u, <1>m, <1>l DEF OwnersInv
<1>9. ASSUME NEW w \in PrWorks, FirstPage(w)
      PROVE  OwnersInv' /\ SessionsAgreed
  <2>1. {} = {v \in Basis(w) : Cardinality(RowsBefore(Basis(w), v)) < 0}
    BY BasisIsFinite, FewerBefore
  <2>2. Reads(w, 0, {})
    BY <1>9 DEF FirstPage
  <2>3. ReaderFits'
    BY <2>1, <2>2, PageKeepsReader
  <2> QED BY <2>3, <1>8, <1>9 DEF FirstPage
<1>10. ASSUME NextPage
       PROVE  OwnersInv' /\ SessionsAgreed
  <2>1. CASE CursorHolds
    <3>1. Reads(prReader.work, prReader.offset, prReader.seen) /\ prReader.basis = Basis(prReader.work)
      BY <2>1, <1>10 DEF NextPage, CursorHolds
    <3>2. /\ prReader.offset \in Nat
          /\ prReader.seen = {v \in prReader.basis : Cardinality(RowsBefore(prReader.basis, v)) < prReader.offset}
      BY <1>10, <1>t DEF NextPage, ReaderFits
    <3>3. ReaderFits'
      BY <3>1, <3>2, PageKeepsReader
    <3> QED BY <3>3, <1>8, <1>10 DEF NextPage
  <2>2. CASE ~CursorHolds
    <3>1. prReader'.at = "idle"
      BY <2>2, <1>10 DEF NextPage, NotReading
    <3>2. ReaderFits'
      BY <3>1 DEF ReaderFits
    <3> QED BY <3>2, <1>8, <1>10 DEF NextPage
  <2> QED BY <2>1, <2>2
<1>11. ASSUME NEW w \in PrWorks, NEW p \in PrIds, NEW n \in PrNames, Transfer(w, p, n)
       PROVE  OwnersInv' /\ SessionsAgreed
  BY <1>11, TransferKeeps
<1>12. CASE PrOwnersNext
  BY <1>12, <1>s, <1>2, <1>3, <1>4, <1>5, <1>6, <1>7, <1>11 DEF PrOwnersNext
<1>13. CASE PrPagesNext
  BY <1>13, <1>2, <1>3, <1>5, <1>6, <1>7, <1>9, <1>10 DEF PrPagesNext
<1> QED BY <1>1, <1>12, <1>13 DEF PrNext

\* Ownership of a pull request for any number of mailboxes, works and pull requests
\* (pull_requests.py): an acceptance moves it once although the mail that carries it stays
\* and the pull request may come back to its first owner, both ends of a transfer are the
\* sessions that agreed, and a reader that followed the cursors has seen one moment.
THEOREM OwnershipStaysSound == PrSpec => OwnershipIsSound
<1>1. OwnersInv /\ [PrNext]_prVars => OwnersInv' /\ [SessionsAgreed]_prVars
  BY OwnersStep
<1>2. OwnersInv => AcceptanceMovesOnce
  BY DEF OwnersInv
<1>3. OwnersInv => PagesAreOneSnapshot
  <2> SUFFICES ASSUME OwnersInv, prReader.at = "done" PROVE prReader.seen = prReader.basis
    BY DEF PagesAreOneSnapshot
  <2>1. /\ prReader.offset \in Nat /\ IsFiniteSet(prReader.basis)
        /\ \A v \in prReader.basis : v.pr \in Nat
        /\ prReader.seen = {v \in prReader.basis : Cardinality(RowsBefore(prReader.basis, v)) < prReader.offset}
        /\ Cardinality(prReader.basis) <= prReader.offset
    BY DEF OwnersInv, ReaderFits
  <2>2. \A v \in prReader.basis : Cardinality(RowsBefore(prReader.basis, v)) < prReader.offset
    BY <2>1, FewerBefore
  <2> QED BY <2>1, <2>2
<1> QED BY OwnersStart, <1>1, <1>2, <1>3, PTL DEF PrSpec, OwnershipIsSound

-----------------------------------------------------------------------------
(* RequiredResult.                                                         *)

RrRows ==
  [state : {"absent", "PENDING_RESULT", "PERSIST_REQUIRED", "UNKNOWN", "TERMINAL"},
   version : Nat, token : Nat, text : Texts \cup {NoText}]
RrCalls ==
  [pc : {"idle", "row", "adopt", "effect", "update", "ready", "send", "terminal"},
   text : Texts \cup {NoText}, grant : Nat, row : RrRows,
   out : {"none", "applied", "unknown", "not_sent"}]

ResultTyped ==
  /\ rrCanonical \in BOOLEAN /\ rrGrant \in Nat
  /\ rrRow \in RrRows
  /\ rrEffect \in {NoUpdate} \cup [text : Texts, effect : {"applied", "unknown", "not_sent"}]
  /\ rrSaved \in [Texts -> Nat]
  /\ rrSaves \in [Saves -> RrCalls]

\* Bound obligations, and only they, have a text.
BoundRowsHaveText == (rrRow.text = NoText) = (rrRow.state \in {"absent", "PENDING_RESULT"})

\* The notes hold what the journal may have sent, and what it knows to be applied.
NotesFollowTheEffect ==
  /\ \A t \in Texts : /\ rrSaved[t] <= 1
                      /\ rrSaved[t] = 1 => rrEffect.text = t /\ rrEffect.effect # "not_sent"
  /\ rrEffect.effect = "applied" => rrSaved[rrEffect.text] = 1

\* With canonical work the effect comes before the binding, with a provider after it.
EffectMeetsBinding ==
  /\ rrCanonical /\ rrRow.text # NoText => rrEffect.text = rrRow.text
  /\ ~rrCanonical /\ rrEffect # NoUpdate => rrEffect.text = rrRow.text

\* What a save relies on at each of its steps, however long ago it read the obligation.
SaveFits(c) ==
  /\ c.pc # "idle" => c.text \in Texts
  /\ c.pc = "update" => rrCanonical
  /\ c.pc = "ready" /\ rrCanonical => rrEffect.text = c.text
  /\ c.pc = "send" => ~rrCanonical
  /\ c.pc \in {"send", "terminal"} => rrRow.text = c.text
  /\ c.out = "applied" => rrEffect.effect = "applied"

ResultInv ==
  /\ ResultTyped /\ BoundRowsHaveText /\ NotesFollowTheEffect /\ EffectMeetsBinding
  /\ \A s \in Saves : SaveFits(rrSaves[s])
  /\ TerminalResultIsSaved

\* The texts of the journal and of the obligation are kept once they are there, and so is
\* the knowledge that the update was applied.
ResultKept ==
  /\ rrCanonical' = rrCanonical
  /\ rrRow.text # NoText => rrRow'.text = rrRow.text
  /\ rrEffect.text # NoText => rrEffect'.text = rrEffect.text
  /\ rrEffect.effect = "applied" => rrEffect'.effect = "applied"

\* The invariant holds before the first save.
LEMMA ResultStarts == RrInit => ResultInv
BY RequiredResultConstants
   DEF RrInit, ResultInv, ResultTyped, BoundRowsHaveText, NotesFollowTheEffect, EffectMeetsBinding,
       SaveFits, TerminalResultIsSaved, RrRows, RrCalls, NoSave, NoRow, NoUpdate

\* The steps of one save leave the others with what they rely on.
LEMMA SavesKeep ==
  ASSUME ResultInv, ResultKept, NEW s \in Saves, NEW c \in RrCalls,
         rrSaves' = [rrSaves EXCEPT ![s] = c], SaveFits(c)'
  PROVE  /\ rrSaves' \in [Saves -> RrCalls]
         /\ \A x \in Saves : SaveFits(rrSaves[x])'
<1>1. rrSaves \in [Saves -> RrCalls] /\ \A x \in Saves : SaveFits(rrSaves[x])
  BY DEF ResultInv, ResultTyped
<1>2. rrSaves' \in [Saves -> RrCalls] /\ rrSaves'[s] = c /\ \A x \in Saves \ {s} : rrSaves'[x] = rrSaves[x]
  BY <1>1
<1>3. ASSUME NEW d \in RrCalls, SaveFits(d)
      PROVE  SaveFits(d)'
  <2>1. d.text \in Texts => d.text # NoText
    BY RequiredResultConstants
  <2> QED BY <1>3, <2>1 DEF SaveFits, ResultKept
<1>4. ASSUME NEW x \in Saves
      PROVE  SaveFits(rrSaves[x])'
  <2>1. PICK d : d = rrSaves'[x]
    OBVIOUS
  <2>2. SaveFits(d)'
    <3>1. CASE x = s
      BY <3>1, <2>1, <1>2
    <3>2. CASE x # s
      BY <3>2, <2>1, <1>1, <1>2, <1>3
    <3> QED BY <3>1, <3>2
  <2> QED BY <2>1, <2>2 DEF SaveFits
<1> QED BY <1>2, <1>4

\* What ends a save, and what moves it on, as one assignment.
LEMMA SaveMoves ==
  ASSUME ResultTyped, NEW s \in Saves, NEW pc
  PROVE  /\ RrEnd(s) => rrSaves' = [rrSaves EXCEPT ![s] = NoSave]
         /\ RrStep(s, pc) => rrSaves' = [rrSaves EXCEPT ![s] = [rrSaves[s] EXCEPT !.pc = pc]]
BY DEF RrEnd, RrStep

\* The same for a save that reads the obligation again, and for one that gets an answer.
LEMMA SaveReloads ==
  ASSUME ResultTyped, NEW s \in Saves, NEW entry \in RrRows,
         NEW pc \in {"adopt", "effect", "send", "terminal"}, RrReload(s, entry, pc)
  PROVE  \E c \in RrCalls : /\ rrSaves' = [rrSaves EXCEPT ![s] = c]
                            /\ c.pc = pc /\ c.text = rrSaves[s].text /\ c.out = rrSaves[s].out
<1>1. rrSaves' = [rrSaves EXCEPT ![s] = [rrSaves[s] EXCEPT !.row = entry, !.pc = pc]]
  BY DEF RrReload, ResultTyped
<1>2. rrSaves[s] \in RrCalls
  BY DEF ResultTyped
<1>3. ASSUME NEW d \in RrCalls
      PROVE  /\ [d EXCEPT !.row = entry, !.pc = pc] \in RrCalls
             /\ [d EXCEPT !.row = entry, !.pc = pc].pc = pc
             /\ [d EXCEPT !.row = entry, !.pc = pc].text = d.text
             /\ [d EXCEPT !.row = entry, !.pc = pc].out = d.out
  BY DEF RrCalls
<1>4. PICK c : c = [rrSaves[s] EXCEPT !.row = entry, !.pc = pc]
  OBVIOUS
<1> QED BY <1>1, <1>2, <1>3, <1>4

\* An answer changes the save it belongs to, and nothing else of it.
LEMMA SaveAnswered ==
  ASSUME ResultTyped, NEW s \in Saves, NEW out, NEW pc,
         rrSaves' = [rrSaves EXCEPT ![s].out = out, ![s].pc = pc]
  PROVE  rrSaves' = [rrSaves EXCEPT ![s] = [rrSaves[s] EXCEPT !.out = out, !.pc = pc]]
BY DEF ResultTyped

\* A step that only moves one save on keeps the invariant when the save may go there.
LEMMA SaveOnlyMoves ==
  ASSUME ResultInv, NEW s \in Saves, NEW c \in RrCalls, rrSaves' = [rrSaves EXCEPT ![s] = c],
         SaveFits(c), UNCHANGED <<rrCanonical, rrGrant, rrRow, rrEffect, rrSaved>>
  PROVE  ResultInv' /\ BindingIsKept
<1>1. ResultKept
  BY DEF ResultKept
<1>2. SaveFits(c)'
  BY DEF SaveFits
<1>3. /\ rrSaves' \in [Saves -> RrCalls]
      /\ \A x \in Saves : SaveFits(rrSaves[x])'
  BY <1>1, <1>2, SavesKeep
<1>4. ResultTyped' /\ BoundRowsHaveText' /\ NotesFollowTheEffect' /\ EffectMeetsBinding'
      /\ TerminalResultIsSaved'
  BY <1>3 DEF ResultInv, ResultTyped, BoundRowsHaveText, NotesFollowTheEffect, EffectMeetsBinding,
              TerminalResultIsSaved
<1> QED BY <1>3, <1>4 DEF ResultInv, BindingIsKept

\* Likewise a step that also replaces the obligation by one with the same text.
LEMMA RowOnlyMoves ==
  ASSUME ResultInv, NEW s \in Saves, NEW c \in RrCalls, rrSaves' = [rrSaves EXCEPT ![s] = c],
         SaveFits(c), UNCHANGED <<rrCanonical, rrGrant, rrEffect, rrSaved>>,
         rrRow' \in RrRows, rrRow'.text = rrRow.text, BoundRowsHaveText',
         rrRow.state = "TERMINAL" => rrRow' = rrRow,
         rrRow'.state = "TERMINAL" => rrSaved[rrRow.text] = 1
  PROVE  ResultInv' /\ BindingIsKept
<1>1. ResultKept
  BY DEF ResultKept
<1>2. SaveFits(c)'
  BY DEF SaveFits
<1>3. /\ rrSaves' \in [Saves -> RrCalls]
      /\ \A x \in Saves : SaveFits(rrSaves[x])'
  BY <1>1, <1>2, SavesKeep
<1>4. ResultTyped' /\ NotesFollowTheEffect' /\ EffectMeetsBinding' /\ TerminalResultIsSaved'
  BY <1>3 DEF ResultInv, ResultTyped, NotesFollowTheEffect, EffectMeetsBinding,
              TerminalResultIsSaved
<1> QED BY <1>3, <1>4 DEF ResultInv, BindingIsKept

\* What an obligation is after each of its transitions.
LEMMA RowAdopted ==
  ASSUME NEW r \in RrRows, NEW g \in Nat, NEW b,
         b = [[r EXCEPT !.token = g] EXCEPT !.version = r.version + 1]
  PROVE  b \in RrRows /\ b.text = r.text /\ b.state = r.state
<1>1. [r EXCEPT !.token = g] \in RrRows /\ [r EXCEPT !.token = g].text = r.text
      /\ [r EXCEPT !.token = g].state = r.state
  BY DEF RrRows
<1>2. r.version + 1 \in Nat
  BY DEF RrRows
<1>3. ASSUME NEW q \in RrRows, NEW v \in Nat
      PROVE  [q EXCEPT !.version = v] \in RrRows /\ [q EXCEPT !.version = v].text = q.text
             /\ [q EXCEPT !.version = v].state = q.state
  BY DEF RrRows
<1> QED BY <1>1, <1>2, <1>3, Zenon

\* A reconciled row keeps the text it was bound to.
LEMMA RowDecided ==
  ASSUME NEW r \in RrRows, NEW x \in {"TERMINAL", "UNKNOWN"}, NEW b,
         b = [[r EXCEPT !.state = x] EXCEPT !.version = r.version + 1]
  PROVE  b \in RrRows /\ b.text = r.text /\ b.state = x
<1>1. [r EXCEPT !.state = x] \in RrRows /\ [r EXCEPT !.state = x].text = r.text
      /\ [r EXCEPT !.state = x].state = x
  BY DEF RrRows
<1>2. r.version + 1 \in Nat
  BY DEF RrRows
<1>3. ASSUME NEW q \in RrRows, NEW v \in Nat
      PROVE  [q EXCEPT !.version = v] \in RrRows /\ [q EXCEPT !.version = v].text = q.text
             /\ [q EXCEPT !.version = v].state = q.state
  BY DEF RrRows
<1> QED BY <1>1, <1>2, <1>3, Zenon

\* A result is bound to the text it is saved with.
LEMMA RowBound ==
  ASSUME rrRow \in RrRows, NEW t \in Texts
  PROVE  Bound(t) \in RrRows /\ Bound(t).text = t /\ Bound(t).state = "PERSIST_REQUIRED"
<1>1. rrRow.version + 1 \in Nat
  BY DEF RrRows
<1>2. ASSUME NEW v \in Nat, NEW d, d = [rrRow EXCEPT !.state = "PERSIST_REQUIRED", !.text = t, !.version = v]
      PROVE  d \in RrRows /\ d.text = t /\ d.state = "PERSIST_REQUIRED"
  BY <1>2 DEF RrRows
<1> QED BY <1>1, <1>2, Zenon DEF Bound

\* Every step of the saves keeps the invariant, a saved result and a bound text.
LEMMA ResultStep ==
  ResultInv /\ [RrNext]_rrVars => ResultInv' /\ [BindingIsKept]_rrVars
<1> SUFFICES ASSUME ResultInv, [RrNext]_rrVars
             PROVE  ResultInv' /\ [BindingIsKept]_rrVars
  OBVIOUS
<1>t. ResultTyped
  BY DEF ResultInv
<1>c. \A s \in Saves : rrSaves[s] \in RrCalls /\ SaveFits(rrSaves[s])
  BY DEF ResultInv, ResultTyped
<1>n. NoSave \in RrCalls /\ SaveFits(NoSave)
  BY DEF NoSave, NoRow, RrCalls, RrRows, SaveFits
<1>1. CASE UNCHANGED rrVars
  BY <1>1 DEF rrVars, ResultInv, ResultTyped, BoundRowsHaveText, NotesFollowTheEffect, EffectMeetsBinding,
              SaveFits, TerminalResultIsSaved
<1>2. ASSUME RrReissue
      PROVE  ResultInv' /\ BindingIsKept
  BY <1>2 DEF RrReissue, ResultInv, ResultTyped, BoundRowsHaveText, NotesFollowTheEffect,
              EffectMeetsBinding, SaveFits, TerminalResultIsSaved, BindingIsKept
<1>3. ASSUME RrLateWrite
      PROVE  ResultInv' /\ BindingIsKept
  <2>1. /\ ~rrCanonical /\ rrEffect.effect = "unknown" /\ rrEffect.text \in Texts
        /\ rrSaved[rrEffect.text] = 0
    BY <1>3, <1>t DEF RrLateWrite, ResultTyped, NoUpdate
  <2>2. PICK t \in Texts : t = rrEffect.text
    BY <2>1
  <2>3. /\ rrSaved' \in [Texts -> Nat] /\ rrSaved'[t] = 1
        /\ \A u \in Texts \ {t} : rrSaved'[u] = rrSaved[u]
        /\ UNCHANGED <<rrCanonical, rrGrant, rrRow, rrEffect, rrSaves>>
    BY <2>1, <2>2, <1>3, <1>t DEF RrLateWrite, RrWrite, ResultTyped
  <2>4. NotesFollowTheEffect'
    BY <2>1, <2>2, <2>3 DEF ResultInv, NotesFollowTheEffect
  <2>5. TerminalResultIsSaved'
    <3>1. rrEffect # NoUpdate
      BY <2>1 DEF NoUpdate
    <3> QED BY <2>1, <2>2, <2>3, <3>1 DEF ResultInv, EffectMeetsBinding, TerminalResultIsSaved
  <2> QED BY <2>3, <2>4, <2>5 DEF ResultInv, ResultTyped, BoundRowsHaveText, EffectMeetsBinding, SaveFits,
                                BindingIsKept
<1>4. ASSUME NEW s \in Saves, NEW t \in Texts, RrBegin(s, t)
      PROVE  ResultInv' /\ BindingIsKept
  <2>1. PICK c : c = [NoSave EXCEPT !.pc = "row", !.text = t, !.grant = rrGrant]
    OBVIOUS
  <2>2. c \in RrCalls /\ SaveFits(c)
    BY <2>1, <1>t DEF NoSave, NoRow, RrCalls, RrRows, SaveFits, ResultTyped
  <2> QED BY <2>1, <2>2, <1>4, SaveOnlyMoves DEF RrBegin
<1>5. ASSUME NEW s \in Saves, RrLoad(s)
      PROVE  ResultInv' /\ BindingIsKept
  <2>1. PICK call : call = rrSaves[s] /\ call \in RrCalls /\ SaveFits(call)
    BY <1>c
  <2>2. PICK entry : entry = IF rrRow = NoRow
                         THEN [state |-> "PENDING_RESULT", version |-> 1, token |-> call.grant, text |-> NoText]
                         ELSE rrRow
    OBVIOUS
  <2>3. /\ entry \in RrRows /\ entry.text = rrRow.text /\ BoundRowsHaveText'
        /\ (rrRow.state = "TERMINAL" => entry = rrRow) /\ rrRow' = entry
        /\ entry.state = "TERMINAL" => rrSaved[rrRow.text] = 1
    BY <2>1, <2>2, <1>5, <1>t DEF RrLoad, RrRows, RrCalls, NoRow, ResultTyped, ResultInv, BoundRowsHaveText,
                                  TerminalResultIsSaved
  <2>4. UNCHANGED <<rrCanonical, rrGrant, rrEffect, rrSaved>> /\ call.pc = "row"
    BY <2>1, <1>5 DEF RrLoad
  <2>5. \/ RrReload(s, entry, IF entry.token # call.grant THEN "adopt" ELSE "effect")
        \/ RrEnd(s)
    BY <2>1, <2>2, <1>5 DEF RrLoad
  <2>6. CASE RrEnd(s)
    BY <2>3, <2>4, <2>6, <1>n, <1>t, SaveMoves, RowOnlyMoves
  <2>7. CASE RrReload(s, entry, IF entry.token # call.grant THEN "adopt" ELSE "effect")
    <3>1. PICK pc \in {"adopt", "effect"} : RrReload(s, entry, pc)
      BY <2>7
    <3>2. PICK c \in RrCalls : /\ rrSaves' = [rrSaves EXCEPT ![s] = c]
                               /\ c.pc = pc /\ c.text = call.text /\ c.out = call.out
      BY <3>1, <2>1, <2>3, <1>t, SaveReloads
    <3>3. SaveFits(c)
      BY <3>2, <2>1, <2>4 DEF SaveFits
    <3> QED BY <3>2, <3>3, <2>3, <2>4, RowOnlyMoves
  <2> QED BY <2>5, <2>6, <2>7
<1>6. ASSUME NEW s \in Saves, RrAdopt(s)
      PROVE  ResultInv' /\ BindingIsKept
  <2>1. PICK call : call = rrSaves[s] /\ call \in RrCalls /\ SaveFits(call)
    BY <1>c
  <2>2. UNCHANGED <<rrCanonical, rrGrant, rrEffect, rrSaved>> /\ call.pc = "adopt"
    BY <2>1, <1>6 DEF RrAdopt
  <2>3. CASE RrEnd(s) /\ UNCHANGED rrRow
    BY <2>2, <2>3, <1>n, <1>t, SaveMoves, SaveOnlyMoves
  <2>4. CASE RrStep(s, "effect") /\ UNCHANGED rrRow
    <3>1. PICK c : c = [call EXCEPT !.pc = "effect"]
      OBVIOUS
    <3>2. c \in RrCalls /\ SaveFits(c)
      BY <3>1, <2>1, <2>2 DEF RrCalls, SaveFits
    <3>3. rrSaves' = [rrSaves EXCEPT ![s] = c]
      BY <3>1, <2>1, <2>4, <1>t, SaveMoves
    <3> QED BY <3>2, <3>3, <2>2, <2>4, SaveOnlyMoves
  <2>5. CASE /\ Adoptable(call.row)
             /\ RrReplaced(call.row, [call.row EXCEPT !.token = call.grant])
             /\ RrReload(s, rrRow', "effect")
    <3>1. /\ call.row = rrRow
          /\ rrRow' = [[rrRow EXCEPT !.token = call.grant] EXCEPT !.version = rrRow.version + 1]
          /\ rrRow.state \in {"PENDING_RESULT", "PERSIST_REQUIRED"}
      BY <2>5 DEF RrReplaced, Adoptable
    <3>2. rrRow \in RrRows /\ call.grant \in Nat
      BY <2>1, <1>t DEF ResultTyped, RrCalls
    <3>3. rrRow' \in RrRows /\ rrRow'.text = rrRow.text /\ rrRow'.state = rrRow.state
      <4>1. rrRow' = [[rrRow EXCEPT !.token = call.grant] EXCEPT !.version = rrRow.version + 1]
        BY <3>1, Zenon
      <4>2. rrRow \in RrRows
        BY <3>2
      <4>3. call.grant \in Nat
        BY <3>2
      <4>4. ASSUME NEW b, b = [[rrRow EXCEPT !.token = call.grant] EXCEPT !.version = rrRow.version + 1]
            PROVE  b \in RrRows /\ b.text = rrRow.text /\ b.state = rrRow.state
        BY <4>2, <4>3, <4>4, RowAdopted, Zenon
      <4> QED BY <4>1, <4>4, Zenon
    <3>4. BoundRowsHaveText'
      BY <3>3 DEF ResultInv, BoundRowsHaveText
    <3>5. PICK entry \in RrRows : entry = rrRow'
      BY <3>3
    <3>6. PICK c \in RrCalls : /\ rrSaves' = [rrSaves EXCEPT ![s] = c]
                               /\ c.pc = "effect" /\ c.text = call.text /\ c.out = call.out
      BY <3>5, <2>1, <2>5, <1>t, SaveReloads
    <3>7. SaveFits(c)
      BY <3>6, <2>1, <2>2 DEF SaveFits
    <3> QED BY <3>1, <3>3, <3>4, <3>6, <3>7, <2>2, RowOnlyMoves
  <2> QED BY <2>1, <2>3, <2>4, <2>5, <1>6 DEF RrAdopt
<1>7. ASSUME NEW s \in Saves, RrEffect(s)
      PROVE  ResultInv' /\ BindingIsKept
  <2>1. PICK call : call = rrSaves[s] /\ call \in RrCalls /\ SaveFits(call)
    BY <1>c
  <2>2. UNCHANGED <<rrCanonical, rrGrant, rrRow, rrEffect, rrSaved>> /\ call.pc = "effect"
    BY <2>1, <1>7 DEF RrEffect
  <2>3. CASE RrEnd(s)
    BY <2>2, <2>3, <1>n, <1>t, SaveMoves, SaveOnlyMoves
  <2>4. CASE RrStep(s, IF rrCanonical THEN "update" ELSE "ready")
    <3>1. PICK pc : pc = IF rrCanonical THEN "update" ELSE "ready"
      OBVIOUS
    <3>2. PICK c : c = [call EXCEPT !.pc = pc]
      OBVIOUS
    <3>3. c \in RrCalls /\ SaveFits(c)
      BY <3>1, <3>2, <2>1, <2>2 DEF RrCalls, SaveFits
    <3>4. rrSaves' = [rrSaves EXCEPT ![s] = c]
      BY <3>1, <3>2, <2>1, <2>4, <1>t, SaveMoves
    <3> QED BY <3>3, <3>4, <2>2, SaveOnlyMoves
  <2> QED BY <2>3, <2>4, <1>7 DEF RrEffect
<1>8. ASSUME NEW s \in Saves, RrDie(s)
      PROVE  ResultInv' /\ BindingIsKept
  BY <1>8, <1>n, <1>t, SaveMoves, SaveOnlyMoves DEF RrDie
<1>9. ASSUME NEW s \in Saves, RrUpdate(s)
      PROVE  ResultInv' /\ BindingIsKept
  <2>1. PICK call : call = rrSaves[s] /\ call \in RrCalls /\ SaveFits(call)
    BY <1>c
  <2>2. UNCHANGED <<rrCanonical, rrGrant, rrRow>> /\ call.pc = "update"
    BY <2>1, <1>9 DEF RrUpdate
  <2>3. rrCanonical /\ call.text \in Texts /\ call.text # NoText
    BY <2>1, <2>2, RequiredResultConstants DEF SaveFits
  <2>4. /\ rrEffect'.text = call.text /\ rrEffect' \in {NoUpdate} \cup [text : Texts, effect : {"applied", "unknown", "not_sent"}]
        /\ (rrEffect.text # NoText => rrEffect' = rrEffect)
        /\ rrSaved' \in [Texts -> Nat] /\ NotesFollowTheEffect'
        /\ rrRow.text # NoText => rrEffect' = rrEffect /\ rrSaved' = rrSaved
    <3>1. CASE rrEffect.text = call.text /\ UNCHANGED <<rrEffect, rrSaved>>
      BY <3>1, <1>t DEF ResultInv, ResultTyped, NotesFollowTheEffect
    <3>2. CASE /\ rrEffect = NoUpdate
               /\ rrEffect' = [text |-> call.text, effect |-> "applied"]
               /\ RrWrite(call.text)
      <4>1. \A u \in Texts : rrSaved[u] = 0
        BY <3>2, <1>t, RequiredResultConstants DEF ResultInv, ResultTyped, NotesFollowTheEffect, NoUpdate
      <4>2. rrSaved' \in [Texts -> Nat] /\ rrSaved'[call.text] = 1
            /\ \A u \in Texts \ {call.text} : rrSaved'[u] = 0
        BY <4>1, <3>2, <2>3, <1>t DEF RrWrite, ResultTyped
      <4>3. NotesFollowTheEffect'
        BY <4>2, <3>2, <2>3 DEF NotesFollowTheEffect
      <4>4. rrRow.text = NoText /\ rrEffect.text = NoText
        BY <3>2, <2>3 DEF ResultInv, EffectMeetsBinding, NoUpdate
      <4> QED BY <4>2, <4>3, <4>4, <3>2, <2>3
    <3> QED BY <3>1, <3>2, <2>1, <1>9 DEF RrUpdate, UpdateOf
  <2>5. rrEffect.effect = "applied" => rrEffect.text # NoText
    BY <1>t, RequiredResultConstants DEF ResultTyped, NoUpdate
  <2>6. ResultKept
    BY <2>2, <2>4, <2>5 DEF ResultKept
  <2>7. PICK out : out = rrEffect'.effect
    OBVIOUS
  <2>8. PICK c : c = [call EXCEPT !.out = out, !.pc = "ready"]
    OBVIOUS
  <2>9. rrEffect' # NoUpdate /\ out \in {"applied", "unknown", "not_sent"}
    BY <2>3, <2>4, <2>7 DEF NoUpdate
  <2>10. c \in RrCalls /\ c.text = call.text /\ c.pc = "ready" /\ c.out = out
    BY <2>1, <2>8, <2>9 DEF RrCalls
  <2>11. SaveFits(c)'
    BY <2>3, <2>4, <2>7, <2>10 DEF SaveFits
  <2>12. rrSaves' = [rrSaves EXCEPT ![s] = c]
    BY <2>1, <2>7, <2>8, <1>9, <1>t, SaveAnswered DEF RrUpdate
  <2>13. rrSaves' \in [Saves -> RrCalls] /\ \A x \in Saves : SaveFits(rrSaves[x])'
    BY <2>6, <2>10, <2>11, <2>12, SavesKeep
  <2>14. ResultTyped' /\ BoundRowsHaveText'
    BY <2>2, <2>4, <2>13 DEF ResultInv, ResultTyped, BoundRowsHaveText
  <2>15. EffectMeetsBinding'
    BY <2>2, <2>3, <2>4 DEF ResultInv, EffectMeetsBinding
  <2>16. TerminalResultIsSaved'
    BY <2>2, <2>4 DEF ResultInv, TerminalResultIsSaved, BoundRowsHaveText
  <2> QED BY <2>2, <2>4, <2>13, <2>14, <2>15, <2>16 DEF ResultInv, BindingIsKept
<1>10. ASSUME NEW s \in Saves, RrReady(s)
       PROVE  ResultInv' /\ BindingIsKept
  <2>1. PICK call : call = rrSaves[s] /\ call \in RrCalls /\ SaveFits(call)
    BY <1>c
  <2>2. UNCHANGED <<rrCanonical, rrGrant, rrEffect, rrSaved>> /\ call.pc = "ready"
    BY <2>1, <1>10 DEF RrReady
  <2>3. call.text \in Texts /\ call.text # NoText
    BY <2>1, <2>2, RequiredResultConstants DEF SaveFits
  <2>4. \/ UNCHANGED rrRow
        \/ rrRow.state = "PENDING_RESULT" /\ rrRow' = Bound(call.text)
    BY <2>1, <1>10 DEF RrReady, ReadyAllowed
  <2>5. rrRow' \in RrRows /\ BoundRowsHaveText' /\ (rrRow.text # NoText => rrRow' = rrRow)
        /\ (rrRow' # rrRow => rrRow'.text = call.text /\ rrRow'.state = "PERSIST_REQUIRED")
    <3>1. CASE UNCHANGED rrRow
      BY <3>1, <1>t DEF ResultInv, ResultTyped, BoundRowsHaveText
    <3>2. CASE rrRow.state = "PENDING_RESULT" /\ rrRow' = Bound(call.text)
      <4>1. rrRow.text = NoText
        BY <3>2 DEF ResultInv, BoundRowsHaveText
      <4>2. rrRow \in RrRows
        BY <1>t DEF ResultTyped
      <4>3. rrRow' \in RrRows /\ rrRow'.text = call.text /\ rrRow'.state = "PERSIST_REQUIRED"
        BY <4>2, <3>2, <2>3, RowBound
      <4> QED BY <4>1, <4>3, <2>3 DEF BoundRowsHaveText
    <3> QED BY <2>4, <3>1, <3>2
  <2>6. ResultKept
    BY <2>2, <2>5 DEF ResultKept
  <2>7. EffectMeetsBinding' /\ TerminalResultIsSaved' /\ BindingIsKept
    <3>1. CASE rrRow' = rrRow
      BY <3>1, <2>2 DEF ResultInv, EffectMeetsBinding, TerminalResultIsSaved, BindingIsKept
    <3>2. CASE rrRow' # rrRow
      <4>1. rrRow.text = NoText /\ rrRow'.text = call.text /\ rrRow'.state = "PERSIST_REQUIRED"
            /\ rrRow.state \in {"absent", "PENDING_RESULT"}
        BY <3>2, <2>5 DEF ResultInv, BoundRowsHaveText
      <4>2. ~rrCanonical => rrEffect = NoUpdate
        BY <4>1, <1>t, RequiredResultConstants DEF ResultInv, EffectMeetsBinding, ResultTyped
      <4>3. rrCanonical => rrEffect.text = call.text
        BY <2>1, <2>2 DEF SaveFits
      <4> QED BY <4>1, <4>2, <4>3, <2>2, <2>3 DEF EffectMeetsBinding, TerminalResultIsSaved, BindingIsKept
    <3> QED BY <3>1, <3>2
  <2>8. NotesFollowTheEffect'
    BY <2>2 DEF ResultInv, NotesFollowTheEffect
  <2>9. PICK c \in RrCalls : rrSaves' = [rrSaves EXCEPT ![s] = c] /\ SaveFits(c)'
    <3>1. CASE RrEnd(s)
      <4>1. SaveFits(NoSave)'
        BY DEF NoSave, SaveFits
      <4> QED BY <4>1, <3>1, <1>n, <1>t, SaveMoves
    <3>2. CASE /\ rrRow'.text = call.text
               /\ RrReload(s, IF call.row.state = "PENDING_RESULT" THEN rrRow' ELSE call.row,
                           IF rrCanonical THEN "terminal" ELSE "send")
      <4>1. PICK entry : entry = IF call.row.state = "PENDING_RESULT" THEN rrRow' ELSE call.row
        OBVIOUS
      <4>2. PICK pc : pc = IF rrCanonical THEN "terminal" ELSE "send"
        OBVIOUS
      <4>3. entry \in RrRows /\ RrReload(s, entry, pc)
        BY <4>1, <4>2, <3>2, <2>1, <2>5 DEF RrCalls
      <4>4. PICK c \in RrCalls : /\ rrSaves' = [rrSaves EXCEPT ![s] = c]
                                 /\ c.pc = pc /\ c.text = call.text /\ c.out = call.out
        BY <4>2, <4>3, <2>1, <1>t, SaveReloads
      <4>5. SaveFits(c)'
        BY <4>2, <4>4, <3>2, <2>1, <2>2, <2>3 DEF SaveFits
      <4> QED BY <4>4, <4>5
    <3> QED BY <3>1, <3>2, <2>1, <1>10 DEF RrReady, ReadyFor
  <2>10. rrSaves' \in [Saves -> RrCalls] /\ \A x \in Saves : SaveFits(rrSaves[x])'
    BY <2>6, <2>9, SavesKeep
  <2>11. ResultTyped'
    BY <2>2, <2>5, <2>10, <1>t DEF ResultTyped
  <2> QED BY <2>5, <2>7, <2>8, <2>10, <2>11 DEF ResultInv
<1>11. ASSUME NEW s \in Saves, RrSend(s)
       PROVE  ResultInv' /\ BindingIsKept
  <2>1. PICK call : call = rrSaves[s] /\ call \in RrCalls /\ SaveFits(call)
    BY <1>c
  <2>2. UNCHANGED <<rrCanonical, rrGrant, rrRow>> /\ call.pc = "send"
    BY <2>1, <1>11 DEF RrSend
  <2>3. ~rrCanonical /\ call.text \in Texts /\ call.text # NoText /\ rrRow.text = call.text
    BY <2>1, <2>2, RequiredResultConstants DEF SaveFits
  <2>4. /\ rrEffect' \in [text : Texts, effect : {"applied", "unknown", "not_sent"}]
        /\ rrEffect'.text = call.text
        /\ (rrEffect.effect = "applied" => rrEffect' = rrEffect)
        /\ (rrEffect.text # NoText => rrEffect'.text = rrEffect.text)
        /\ rrSaved' \in [Texts -> Nat] /\ NotesFollowTheEffect'
        /\ rrSaved[call.text] = 1 => rrSaved'[call.text] = 1
    <3>1. ASSUME rrEffect = NoUpdate,
                 NEW effect \in {"applied", "unknown", "not_sent"},
                 rrEffect' = [text |-> call.text, effect |-> effect],
                 \/ effect # "not_sent" /\ RrWrite(call.text)
                 \/ effect # "applied" /\ UNCHANGED rrSaved
          PROVE  /\ rrEffect' \in [text : Texts, effect : {"applied", "unknown", "not_sent"}]
                 /\ rrEffect'.text = call.text
                 /\ (rrEffect.effect = "applied" => rrEffect' = rrEffect)
                 /\ (rrEffect.text # NoText => rrEffect'.text = rrEffect.text)
                 /\ rrSaved' \in [Texts -> Nat] /\ NotesFollowTheEffect'
                 /\ rrSaved[call.text] = 1 => rrSaved'[call.text] = 1
      <4>1. \A u \in Texts : rrSaved[u] = 0
        BY <3>1, <1>t, RequiredResultConstants DEF ResultInv, ResultTyped, NotesFollowTheEffect, NoUpdate
      <4>2. /\ rrEffect.text = NoText /\ rrEffect.effect = "none"
            /\ rrEffect'.text = call.text /\ rrEffect'.effect = effect
        BY <3>1 DEF NoUpdate
      <4>3. /\ rrSaved' \in [Texts -> Nat] /\ \A u \in Texts \ {call.text} : rrSaved'[u] = 0
            /\ \/ effect # "not_sent" /\ rrSaved'[call.text] = 1
               \/ effect # "applied" /\ rrSaved'[call.text] = 0
        BY <4>1, <3>1, <2>3, <1>t DEF RrWrite, ResultTyped
      <4>4. NotesFollowTheEffect'
        BY <4>2, <4>3, <2>3 DEF NotesFollowTheEffect
      <4> QED BY <4>1, <4>2, <4>3, <4>4, <3>1, <2>3
    <3>2. CASE rrEffect # NoUpdate
      <4>1. /\ rrEffect \in [text : Texts, effect : {"applied", "unknown", "not_sent"}]
            /\ rrEffect.text = call.text
        BY <3>2, <2>3, <1>t DEF ResultInv, EffectMeetsBinding, ResultTyped
      <4>2. CASE UNCHANGED <<rrEffect, rrSaved>>
        BY <4>1, <4>2, <1>t DEF ResultInv, ResultTyped, NotesFollowTheEffect
      <4>3. CASE /\ rrEffect.effect = "unknown" /\ rrSaved[call.text] > 0
                 /\ rrEffect' = [rrEffect EXCEPT !.effect = "applied"] /\ UNCHANGED rrSaved
        <5>1. rrEffect' \in [text : Texts, effect : {"applied", "unknown", "not_sent"}]
              /\ rrEffect'.text = call.text /\ rrEffect'.effect = "applied"
          BY <4>1, <4>3
        <5>2. rrSaved[call.text] = 1
          BY <4>3, <2>3, <1>t DEF ResultInv, NotesFollowTheEffect, ResultTyped
        <5>3. NotesFollowTheEffect'
          BY <5>1, <5>2, <4>1, <4>3 DEF ResultInv, NotesFollowTheEffect
        <5> QED BY <5>1, <5>3, <4>1, <4>3, <1>t DEF ResultTyped
      <4> QED BY <4>2, <4>3, <3>2, <2>1, <1>11 DEF RrSend
    <3>3. CASE rrEffect = NoUpdate
      <4>1. rrEffect.effect = "none"
        BY <3>3 DEF NoUpdate
      <4> QED BY <4>1, <3>1, <3>3, <2>1, <1>11 DEF RrSend
    <3> QED BY <3>2, <3>3
  <2>6. ResultKept
    BY <2>2, <2>4 DEF ResultKept
  <2>7. PICK out : out = rrEffect'.effect
    OBVIOUS
  <2>8. PICK c : c = [call EXCEPT !.out = out, !.pc = "terminal"]
    OBVIOUS
  <2>10. c \in RrCalls /\ c.text = call.text /\ c.pc = "terminal" /\ c.out = out
    BY <2>1, <2>4, <2>7, <2>8 DEF RrCalls
  <2>11. SaveFits(c)'
    BY <2>2, <2>3, <2>7, <2>10 DEF SaveFits
  <2>12. rrSaves' = [rrSaves EXCEPT ![s] = c]
    BY <2>1, <2>7, <2>8, <1>11, <1>t, SaveAnswered DEF RrSend
  <2>13. rrSaves' \in [Saves -> RrCalls] /\ \A x \in Saves : SaveFits(rrSaves[x])'
    BY <2>6, <2>10, <2>11, <2>12, SavesKeep
  <2>14. ResultTyped' /\ BoundRowsHaveText'
    BY <2>2, <2>4, <2>13 DEF ResultInv, ResultTyped, BoundRowsHaveText
  <2>15. EffectMeetsBinding'
    BY <2>2, <2>3, <2>4 DEF EffectMeetsBinding
  <2>16. TerminalResultIsSaved'
    BY <2>2, <2>3, <2>4 DEF ResultInv, TerminalResultIsSaved
  <2> QED BY <2>2, <2>4, <2>13, <2>14, <2>15, <2>16 DEF ResultInv, BindingIsKept
<1>12. ASSUME NEW s \in Saves, RrTerminal(s)
       PROVE  ResultInv' /\ BindingIsKept
  <2>1. PICK call : call = rrSaves[s] /\ call \in RrCalls /\ SaveFits(call)
    BY <1>c
  <2>2. /\ UNCHANGED <<rrCanonical, rrGrant, rrEffect, rrSaved>> /\ call.pc = "terminal"
        /\ rrSaves' = [rrSaves EXCEPT ![s] = NoSave]
    BY <2>1, <1>12, <1>t, SaveMoves DEF RrTerminal
  <2>3. rrRow.text = call.text /\ call.text \in Texts /\ call.text # NoText
    BY <2>1, <2>2, RequiredResultConstants DEF SaveFits
  <2>4. ASSUME NEW state \in {"TERMINAL", "UNKNOWN"}, RrReplaced(rrRow, [rrRow EXCEPT !.state = state]),
               rrRow.state # "TERMINAL", state = "TERMINAL" => rrSaved[rrRow.text] = 1
        PROVE  ResultInv' /\ BindingIsKept
    <3>1. rrRow' = [[rrRow EXCEPT !.state = state] EXCEPT !.version = rrRow.version + 1]
      BY <2>4 DEF RrReplaced
    <3>2. rrRow \in RrRows
      BY <1>t DEF ResultTyped
    <3>3. rrRow' \in RrRows /\ rrRow'.text = rrRow.text /\ rrRow'.state = state
      BY <3>1, <3>2, RowDecided, Zenon
    <3>4. BoundRowsHaveText'
      BY <3>3, <2>3 DEF BoundRowsHaveText
    <3> QED BY <3>3, <3>4, <2>2, <2>4, <1>n, RowOnlyMoves
  <2>5. CASE TerminalAllowed(s) /\ RrReplaced(rrRow, [rrRow EXCEPT !.state = "TERMINAL"])
    <3>1. call.out = "applied" /\ rrRow.state \in {"PERSIST_REQUIRED", "UNKNOWN"}
      BY <2>5, <2>1 DEF TerminalAllowed
    <3>2. rrEffect.effect = "applied"
      BY <3>1, <2>1 DEF SaveFits
    <3>3. rrEffect.text = rrRow.text /\ rrSaved[rrEffect.text] = 1
      BY <3>2, <2>3, <1>t DEF ResultInv, EffectMeetsBinding, NotesFollowTheEffect, NoUpdate, ResultTyped
    <3> QED BY <2>4, <2>5, <3>1, <3>3
  <2>6. CASE AmbiguousAllowed(s) /\ RrReplaced(rrRow, [rrRow EXCEPT !.state = "UNKNOWN"])
    BY <2>4, <2>6 DEF AmbiguousAllowed
  <2>7. CASE UNCHANGED rrRow
    BY <2>2, <2>7, <1>n, SaveOnlyMoves
  <2> QED BY <2>5, <2>6, <2>7, <1>12 DEF RrTerminal
<1> QED
  BY <1>1, <1>2, <1>3, <1>4, <1>5, <1>6, <1>7, <1>8, <1>9, <1>10, <1>11, <1>12 DEF RrNext

\* Saving a required result, for any number of concurrent saves and texts (chatgpt.py
\* required_result_save, lifecycle.py): the notes get one result once, the obligation is
\* TERMINAL only when its text is in the notes, the journal and the obligation never name
\* different texts, and neither a binding nor a saved result is ever taken back.
THEOREM ResultStaysAsBound == RrSpec => ResultIsSavedAsBound
<1>1. ResultInv /\ [RrNext]_rrVars => ResultInv' /\ [BindingIsKept]_rrVars
  BY ResultStep
<1>2. ResultInv => ResultSavedOnce
  <2> SUFFICES ASSUME ResultInv, NEW t \in Texts, NEW u \in Texts
               PROVE  rrSaved[t] + (IF t = u THEN 0 ELSE rrSaved[u]) <= 1
    BY DEF ResultSavedOnce
  <2>1. rrSaved[t] \in Nat /\ rrSaved[u] \in Nat /\ rrSaved[t] <= 1 /\ rrSaved[u] <= 1
        /\ (rrSaved[t] = 1 => rrEffect.text = t) /\ (rrSaved[u] = 1 => rrEffect.text = u)
    BY DEF ResultInv, ResultTyped, NotesFollowTheEffect
  <2> QED BY <2>1
<1>3. ResultInv => TerminalResultIsSaved
  BY DEF ResultInv
<1>4. ResultInv => BoundResultIsTheEffect
  BY DEF ResultInv, ResultTyped, BoundRowsHaveText, EffectMeetsBinding, BoundResultIsTheEffect
<1> QED BY ResultStarts, <1>1, <1>2, <1>3, <1>4, PTL DEF RrSpec, ResultIsSavedAsBound

-----------------------------------------------------------------------------
(* ReviewOccurrences.                                                       *)

\* Requests on recorded bases, with their deliveries.
ReviewRequests(bases) ==
  [sender : Boxes, to : Boxes, basis : bases, key : {1, 2}, ver : Nat, rgen : Nat,
   state : {"AVAILABLE", "RECEIVED", "ACKNOWLEDGED"}]

\* What the argument needs of the values: a request rests on a recorded basis.
ReviewTyped ==
  /\ roWho \in Boxes /\ roRev \in Nat
  /\ roBox \in [Boxes -> [gen : Nat, key : {1, 2}]]
  /\ roRequests \subseteq ReviewRequests(roBases)

\* An outcome of the same occurrence on an earlier revision named the findings of b.
FollowsFindings(b) ==
  \E q \in roRequests : \E o \in OutcomesOf(q) :
    q.basis.id = b.id /\ q.basis.rev < b.rev /\ b.findings \subseteq o.findings

\* A basis, recorded or about to be, is of a revision that has been reached.
BasisFits(b) ==
  /\ b.rev \in Nat /\ b.rev <= roRev
  /\ b.mode = "FOCUSED" => FollowsFindings(b)

\* One basis per revision of an occurrence, one request per basis, never to its requester.
OneBasisEach == \A b, c \in roBases : b.id = c.id /\ b.rev = c.rev => b = c
OneRequestEach == \A q, r \in roRequests : q.basis = r.basis => q = r
ReviewersAreOthers == \A q \in roRequests : q.to # roWho

\* The answer a reviewer is about to store is to the request it read.
JudgingFits ==
  \/ roJudging = Idle
  \/ \E p \in {"store", "notify"}, q \in ReviewRequests(roBases) : \E s, o :
       roJudging = [pc |-> p, request |-> q, stale |-> s, outcome |-> o] /\ o.of = RequestKey(q)

ReviewInv ==
  /\ ReviewTyped
  /\ OneBasisEach /\ OneRequestEach /\ ReviewersAreOthers
  /\ \A b \in roBases : BasisFits(b)
  /\ roAsking.pc = "basis" => BasisFits(roAsking.basis)
  /\ JudgingFits

\* What every step leaves behind: bases and outcomes stay, a request keeps its key
\* and its basis wherever its delivery goes, and no request gets a second outcome.
ReviewGrows ==
  /\ roWho' = roWho /\ roRev <= roRev'
  /\ roBases \subseteq roBases' /\ roOutcomes \subseteq roOutcomes'
  /\ \A q \in roRequests : \E r \in roRequests' :
       r.basis = q.basis /\ RequestKey(r) = RequestKey(q)
  /\ \A o \in roOutcomes' \ roOutcomes : \A p \in roOutcomes : p.of # o.of

\* The first state.
LEMMA ReviewStarts == ASSUME RoInit PROVE ReviewInv
BY DEF RoInit, ReviewInv, ReviewTyped, OneBasisEach, OneRequestEach, ReviewersAreOthers,
       JudgingFits, Idle, Boxes

\* A basis keeps what it rests on through any step.
LEMMA BasisKept ==
  ASSUME ReviewGrows, roRev \in Nat, roRev' \in Nat, NEW b, BasisFits(b) PROVE BasisFits(b)'
<1>1. ASSUME FollowsFindings(b) PROVE FollowsFindings(b)'
  <2>1. PICK q \in roRequests : \E o \in OutcomesOf(q) :
          q.basis.id = b.id /\ q.basis.rev < b.rev /\ b.findings \subseteq o.findings
    BY <1>1 DEF FollowsFindings
  <2>4. PICK o \in OutcomesOf(q) :
          q.basis.id = b.id /\ q.basis.rev < b.rev /\ b.findings \subseteq o.findings
    BY <2>1
  <2>2. PICK r \in roRequests' : r.basis = q.basis /\ RequestKey(r) = RequestKey(q)
    BY DEF ReviewGrows
  <2>3. o \in OutcomesOf(r)'
    BY <2>2 DEF OutcomesOf, ReviewGrows, RequestKey
  <2> QED BY <2>2, <2>3, <2>4 DEF FollowsFindings
<1> QED BY <1>1 DEF BasisFits, ReviewGrows

\* Advance sends a request on a basis that has none, to somebody else.
LEMMA AdvanceSends ==
  ASSUME ReviewTyped, NEW id, NEW bases, NEW sender \in Boxes, NEW to \in Boxes,
         NEW n \in Advance(id, bases, sender, to)
  PROVE  /\ n \in ReviewRequests(bases) /\ n.to # roWho
         /\ \A q \in roRequests : q.basis # n.basis
         /\ \A m \in Advance(id, bases, sender, to) : m.basis = n.basis => m = n
<1>1. \A m \in Advance(id, bases, sender, to) : \E x \in bases :
        m = NewRequest(x, sender, to) /\ StoredFor(x) = {} /\ Eligible(to)
  BY DEF Advance, CurrentBases
<1>2. \A x : NewRequest(x, sender, to).basis = x /\ NewRequest(x, sender, to).to = to
  BY DEF NewRequest
<1>3. \A x \in bases : NewRequest(x, sender, to) \in ReviewRequests(bases)
  BY DEF NewRequest, ReviewRequests, ReviewTyped
<1> QED BY <1>1, <1>2, <1>3 DEF StoredFor, Eligible

\* Requests that Advance adds, on bases that only grow.
LEMMA AdvanceKeeps ==
  ASSUME ReviewInv, NEW id, NEW sender \in Boxes, NEW to \in Boxes,
         roBases \subseteq roBases', roWho' = roWho,
         roRequests' = roRequests \cup Advance(id, roBases', sender, to)
  PROVE  /\ roRequests' \subseteq ReviewRequests(roBases')
         /\ OneRequestEach' /\ ReviewersAreOthers'
         /\ \A q \in roRequests : \E r \in roRequests' : r.basis = q.basis /\ RequestKey(r) = RequestKey(q)
<1> DEFINE N == Advance(id, roBases', sender, to)
<1>1. ReviewTyped /\ OneRequestEach /\ ReviewersAreOthers BY DEF ReviewInv
<1>2. \A n \in N : /\ n \in ReviewRequests(roBases') /\ n.to # roWho
                   /\ \A q \in roRequests : q.basis # n.basis
                   /\ \A m \in N : m.basis = n.basis => m = n
  BY <1>1, AdvanceSends
<1>3. roRequests' = roRequests \cup N OBVIOUS
<1> HIDE DEF N
<1>4. roRequests \subseteq ReviewRequests(roBases')
  BY <1>1 DEF ReviewTyped, ReviewRequests
<1>5. OneRequestEach' BY <1>1, <1>2, <1>3 DEF OneRequestEach
<1>6. ReviewersAreOthers' BY <1>1, <1>2, <1>3 DEF ReviewersAreOthers
<1> QED BY <1>2, <1>3, <1>4, <1>5, <1>6

\* A request whose delivery moves keeps everything else.
LEMMA MovedKeeps ==
  ASSUME ReviewInv, roBases' = roBases, roWho' = roWho, NEW q \in roRequests,
         NEW r \in ReviewRequests(roBases), r.basis = q.basis, r.to = q.to, r.sender = q.sender, Moved(q, r)
  PROVE  /\ roRequests' \subseteq ReviewRequests(roBases')
         /\ OneRequestEach' /\ ReviewersAreOthers'
         /\ \A p \in roRequests : \E n \in roRequests' : n.basis = p.basis /\ RequestKey(n) = RequestKey(p)
<1>1. ReviewTyped /\ OneRequestEach /\ ReviewersAreOthers BY DEF ReviewInv
<1>2. roRequests' = (roRequests \ {q}) \cup {r} BY DEF Moved
<1>3. RequestKey(r) = RequestKey(q) BY DEF RequestKey
<1>4. roRequests' \subseteq ReviewRequests(roBases') BY <1>1, <1>2 DEF ReviewTyped
<1>5. OneRequestEach' BY <1>1, <1>2 DEF OneRequestEach
<1>6. ReviewersAreOthers' BY <1>1, <1>2 DEF ReviewersAreOthers
<1>7. \A p \in roRequests : \E n \in roRequests' : n.basis = p.basis /\ RequestKey(n) = RequestKey(p)
  BY <1>2, <1>3
<1> QED BY <1>4, <1>5, <1>6, <1>7

\* Restamping a delivery leaves the message alone.
LEMMA RestampKeeps ==
  ASSUME ReviewTyped, NEW q \in roRequests
  PROVE  \A r \in {Restamped(q, "RECEIVED"), [q EXCEPT !.state = "ACKNOWLEDGED"]} :
           r \in ReviewRequests(roBases) /\ r.basis = q.basis /\ r.to = q.to /\ r.sender = q.sender
<1>1. q \in ReviewRequests(roBases) BY DEF ReviewTyped
<1>2. q.to \in Boxes BY <1>1 DEF ReviewRequests
<1>3. roBox[q.to].gen \in Nat BY <1>2 DEF ReviewTyped
<1> QED BY <1>1, <1>3 DEF Restamped, ReviewRequests

\* Every step keeps the invariant and only adds.
LEMMA ReviewStep == ASSUME ReviewInv, RoNext PROVE ReviewInv' /\ ReviewGrows
<1> DEFINE Good == ReviewInv' /\ ReviewGrows
<1>0. /\ ReviewTyped /\ OneBasisEach /\ OneRequestEach /\ ReviewersAreOthers /\ JudgingFits
      /\ \A b \in roBases : BasisFits(b)
      /\ roAsking.pc = "basis" => BasisFits(roAsking.basis)
      /\ roRev \in Nat /\ roWho \in Boxes
  BY DEF ReviewInv, ReviewTyped
<1>a. ASSUME UNCHANGED <<roRequests, roOutcomes>>, roWho' = roWho, roRev <= roRev',
             roBases \subseteq roBases'
      PROVE  ReviewGrows
  BY <1>a DEF ReviewGrows
<1>b. ASSUME UNCHANGED <<roBases, roJudging>> PROVE JudgingFits'
  BY <1>b, <1>0 DEF JudgingFits
<1>1. ASSUME RoChange PROVE Good
  <2>1. UNCHANGED <<roWho, roBases, roRequests, roOutcomes, roAsking, roJudging>>
    BY <1>1 DEF RoChange
  <2>2. roRev' \in Nat /\ roRev <= roRev' /\ roBox' \in [Boxes -> [gen : Nat, key : {1, 2}]]
    <3>1. CASE UNCHANGED roBox /\ roRev' \in {roRev, roRev + 1}
      BY <3>1, <1>0 DEF ReviewTyped
    <3>2. ASSUME NEW b \in Boxes, NEW k \in {1, 2}, roRev' = roRev,
                 roBox' = [roBox EXCEPT ![b] = [gen |-> @.gen + 1, key |-> k]]
          PROVE  roBox' \in [Boxes -> [gen : Nat, key : {1, 2}]]
      <4>1. roBox \in [Boxes -> [gen : Nat, key : {1, 2}]] BY <1>0 DEF ReviewTyped
      <4>2. roBox[b].gen \in Nat BY <4>1
      <4>3. [gen |-> roBox[b].gen + 1, key |-> k] \in [gen : Nat, key : {1, 2}] BY <4>2
      <4> QED BY <3>2, <4>1, <4>3
    <3> QED BY <1>1, <3>1, <3>2, <1>0 DEF RoChange, RoWorld
  <2>3. ReviewGrows BY <1>a, <2>1, <2>2
  <2>4. \A b : BasisFits(b) => BasisFits(b)' BY <2>2, <2>3, <1>0, BasisKept
  <2>5. ReviewTyped' BY <2>1, <2>2, <1>0 DEF ReviewTyped
  <2> QED BY <1>0, <1>b, <2>1, <2>3, <2>4, <2>5
             DEF ReviewInv, OneBasisEach, OneRequestEach, ReviewersAreOthers
<1>2. ASSUME NEW mode \in {"FULL", "FOCUSED"}, NEW prior \in {<<>>} \cup {b.id : b \in roBases},
             NEW check \in RoChecks, NEW findings \in SUBSET RoFindings,
             RoAsk(mode, prior, check, findings)
      PROVE  Good
  <2> DEFINE b == BasisOf(mode, prior, check, findings)
  <2>1. /\ UNCHANGED <<roWho, roRev, roBox, roBases, roRequests, roOutcomes, roJudging>>
        /\ roAsking'.basis = b /\ AdmitBasis(b, prior)
    BY <1>2 DEF RoAsk
  <2>2. b.rev = roRev BY DEF BasisOf
  <2> HIDE DEF b
  <2>3. ASSUME b.mode = "FOCUSED" PROVE FollowsFindings(b)
    <3>1. FocusedFrom(b) BY <2>1, <2>3 DEF AdmitBasis, FocusedFrom
    <3>2. PICK q \in roRequests : \E o \in OutcomesOf(q) :
            q.basis.id = b.id /\ q.basis.rev # b.rev /\ b.findings \subseteq o.findings
      BY <3>1 DEF FocusedFrom
    <3>3. q.basis \in roBases BY <1>0 DEF ReviewTyped, ReviewRequests
    <3>4. q.basis.rev < b.rev BY <3>2, <3>3, <1>0, <2>2 DEF BasisFits
    <3> QED BY <3>2, <3>4 DEF FollowsFindings
  <2>4. BasisFits(b) BY <2>2, <2>3, <1>0 DEF BasisFits
  <2>5. ReviewGrows BY <1>a, <2>1, <1>0
  <2>6. \A c : BasisFits(c) => BasisFits(c)' BY <2>1, <2>5, <1>0, BasisKept
  <2>7. ReviewTyped' BY <2>1, <1>0 DEF ReviewTyped
  <2> QED BY <1>0, <1>b, <2>1, <2>4, <2>5, <2>6, <2>7
             DEF ReviewInv, OneBasisEach, OneRequestEach, ReviewersAreOthers
<1>3. ASSUME RoRecordBasis PROVE Good
  <2> DEFINE b == roAsking.basis
  <2>1. /\ UNCHANGED <<roWho, roRev, roBox, roOutcomes, roJudging>>
        /\ roAsking'.pc # "basis" /\ BasisFits(b)
    BY <1>3, <1>0 DEF RoRecordBasis, Idle
  <2>2. CASE UNCHANGED <<roBases, roRequests>>
    <3>1. ReviewGrows BY <1>a, <2>1, <2>2, <1>0
    <3>2. \A c : BasisFits(c) => BasisFits(c)' BY <2>1, <3>1, <1>0, BasisKept
    <3>3. ReviewTyped' BY <2>1, <2>2, <1>0 DEF ReviewTyped
    <3> QED BY <1>0, <1>b, <2>1, <2>2, <3>1, <3>2, <3>3
               DEF ReviewInv, OneBasisEach, OneRequestEach, ReviewersAreOthers
  <2>3. ASSUME CommitBasis(b), roBases' = roBases \cup {b},
               roRequests' = roRequests \cup Advance(b.id, roBases', roWho, "auditor")
        PROVE  Good
    <3>1. /\ roRequests' \subseteq ReviewRequests(roBases')
          /\ OneRequestEach' /\ ReviewersAreOthers'
          /\ \A q \in roRequests : \E r \in roRequests' : r.basis = q.basis /\ RequestKey(r) = RequestKey(q)
      <4>1. "auditor" \in Boxes BY DEF Boxes
      <4>2. roBases \subseteq roBases' BY <2>3
      <4> QED BY <4>1, <4>2, <2>1, <2>3, <1>0, AdvanceKeeps
    <3>2. ReviewGrows BY <3>1, <2>1, <2>3, <1>0 DEF ReviewGrows
    <3>3. \A c : BasisFits(c) => BasisFits(c)' BY <2>1, <3>2, <1>0, BasisKept
    <3>4. ReviewTyped' BY <3>1, <2>1, <1>0 DEF ReviewTyped
    <3>5. OneBasisEach' BY <2>3, <1>0 DEF OneBasisEach, CommitBasis
    <3>6. \A c \in roBases' : BasisFits(c)' BY <2>1, <2>3, <3>3, <1>0
    <3>7. JudgingFits'
      <4>1. ReviewRequests(roBases) \subseteq ReviewRequests(roBases') BY <2>3 DEF ReviewRequests
      <4> QED BY <4>1, <2>1, <1>0 DEF JudgingFits
    <3> QED BY <2>1, <3>1, <3>2, <3>4, <3>5, <3>6, <3>7 DEF ReviewInv
  <2> QED BY <1>3, <2>2, <2>3 DEF RoRecordBasis
\* Steps that only change requests.
<1>4. ASSUME UNCHANGED <<roWho, roRev, roBox, roBases, roOutcomes, roAsking, roJudging>>,
             roRequests' \subseteq ReviewRequests(roBases'), OneRequestEach', ReviewersAreOthers',
             \A q \in roRequests : \E r \in roRequests' : r.basis = q.basis /\ RequestKey(r) = RequestKey(q)
      PROVE  Good
  <2>1. ReviewGrows BY <1>4, <1>0 DEF ReviewGrows
  <2>2. \A c : BasisFits(c) => BasisFits(c)' BY <1>4, <2>1, <1>0, BasisKept
  <2>3. ReviewTyped' BY <1>4, <1>0 DEF ReviewTyped
  <2> QED BY <1>0, <1>b, <1>4, <2>1, <2>2, <2>3 DEF ReviewInv, OneBasisEach
<1>5. ASSUME NEW x \in roBases, RoGet(x.id) \/ RoContinue(x.id) PROVE Good
  <2>1. /\ UNCHANGED <<roWho, roRev, roBox, roBases, roOutcomes, roAsking, roJudging>>
        /\ \E sender \in Boxes, to \in Boxes :
             roRequests' = roRequests \cup Advance(x.id, roBases, sender, to)
    BY <1>5, <1>0 DEF RoGet, RoContinue, Boxes
  <2>2. PICK sender \in Boxes, to \in Boxes : roRequests' = roRequests \cup Advance(x.id, roBases', sender, to)
    BY <2>1
  <2> QED BY <1>4, <2>1, <2>2, AdvanceKeeps
<1>6. ASSUME NEW q \in roRequests, RoReceive(q) \/ RoRecover(q) PROVE Good
  <2>1. /\ UNCHANGED <<roWho, roRev, roBox, roBases, roOutcomes, roAsking, roJudging>>
        /\ \E r \in {Restamped(q, "RECEIVED"), [q EXCEPT !.state = "ACKNOWLEDGED"]} : Moved(q, r)
    BY <1>6 DEF RoReceive, RoRecover
  <2>2. PICK r \in {Restamped(q, "RECEIVED"), [q EXCEPT !.state = "ACKNOWLEDGED"]} : Moved(q, r)
    BY <2>1
  <2>3. r \in ReviewRequests(roBases) /\ r.basis = q.basis /\ r.to = q.to /\ r.sender = q.sender
    BY <1>0, RestampKeeps
  <2> QED BY <1>4, <2>1, <2>2, <2>3, MovedKeeps
\* Steps that change neither requests nor outcomes.
<1>7. ASSUME UNCHANGED <<roWho, roRev, roBox, roBases, roRequests, roOutcomes, roAsking>>, JudgingFits'
      PROVE  Good
  <2>1. ReviewGrows BY <1>a, <1>7, <1>0
  <2>2. \A c : BasisFits(c) => BasisFits(c)' BY <1>7, <2>1, <1>0, BasisKept
  <2>3. ReviewTyped' BY <1>7, <1>0 DEF ReviewTyped
  <2> QED BY <1>0, <1>7, <2>1, <2>2, <2>3
             DEF ReviewInv, OneBasisEach, OneRequestEach, ReviewersAreOthers
<1>8. ASSUME RoReceiveLegacy PROVE Good
  <2>1. UNCHANGED <<roWho, roRev, roBox, roBases, roRequests, roOutcomes, roAsking, roJudging>>
    BY <1>8 DEF RoReceiveLegacy
  <2> QED BY <2>1, <1>7, <1>b
<1>9. ASSUME NEW q \in roRequests, NEW verdict \in {"PASS", "FINDINGS", "BLOCKED"},
             NEW findings \in SUBSET RoFindings, RoJudge(q, verdict, findings)
      PROVE  Good
  <2>1. UNCHANGED <<roWho, roRev, roBox, roBases, roRequests, roOutcomes, roAsking>>
    BY <1>9 DEF RoJudge
  <2>2. PICK s : s = (q.basis.rev # roRev) OBVIOUS
  <2>3. PICK o : o = [of |-> RequestKey(q), verdict |-> verdict, findings |-> findings] OBVIOUS
  <2>4. roJudging' = [pc |-> "store", request |-> q, stale |-> s, outcome |-> o]
    BY <1>9, <2>2, <2>3 DEF RoJudge
  <2>5. q \in ReviewRequests(roBases) /\ o.of = RequestKey(q) BY <1>0, <2>3 DEF ReviewTyped
  <2>6. JudgingFits' BY <2>1, <2>4, <2>5 DEF JudgingFits
  <2> QED BY <1>7, <2>1, <2>6
<1>10. ASSUME RoSubmit PROVE Good
  <2>0. UNCHANGED <<roWho, roRev, roBox, roBases, roRequests, roAsking>> BY <1>10 DEF RoSubmit
  <2>1. roJudging # Idle BY <1>10 DEF RoSubmit, Idle
  <2>2. PICK p \in {"store", "notify"}, q \in ReviewRequests(roBases) : \E s, o :
          roJudging = [pc |-> p, request |-> q, stale |-> s, outcome |-> o] /\ o.of = RequestKey(q)
    BY <1>0, <2>1 DEF JudgingFits
  <2>9. PICK s, o : roJudging = [pc |-> p, request |-> q, stale |-> s, outcome |-> o] /\ o.of = RequestKey(q)
    BY <2>2
  <2>3. [roJudging EXCEPT !.pc = "notify"] = [pc |-> "notify", request |-> q, stale |-> s, outcome |-> o]
    BY <2>9
  <2>4. JudgingFits' BY <1>10, <2>0, <2>9, <2>3 DEF RoSubmit, JudgingFits
  <2>5. roOutcomes' = roOutcomes \/ (roOutcomes' = roOutcomes \cup {o} /\ StoreOutcome(q, o))
    BY <1>10, <2>9 DEF RoSubmit
  <2>6. ReviewGrows
    <3>1. roOutcomes \subseteq roOutcomes' BY <2>5
    <3>2. \A n \in roOutcomes' \ roOutcomes : \A m \in roOutcomes : m.of # n.of
      BY <2>5 DEF StoreOutcome
    <3> QED BY <3>1, <3>2, <2>0, <1>0 DEF ReviewGrows
  <2>7. \A c : BasisFits(c) => BasisFits(c)' BY <2>0, <2>6, <1>0, BasisKept
  <2>8. ReviewTyped' BY <2>0, <1>0 DEF ReviewTyped
  <2> QED BY <1>0, <2>0, <2>4, <2>6, <2>7, <2>8
             DEF ReviewInv, OneBasisEach, OneRequestEach, ReviewersAreOthers
<1>11. ASSUME RoNotify PROVE Good
  <2>1. UNCHANGED <<roWho, roRev, roBox, roBases, roRequests, roOutcomes, roAsking>> /\ roJudging' = Idle
    BY <1>11 DEF RoNotify
  <2> QED BY <1>7, <2>1 DEF JudgingFits
<1> HIDE DEF Good
<1>12. Good
  BY <1>1, <1>2, <1>3, <1>5, <1>6, <1>8, <1>9, <1>10, <1>11 DEF RoNext
<1> QED BY <1>12 DEF Good

\* One revision of an occurrence has one basis, and a basis at most one request.
LEMMA InvUnambiguous == ASSUME ReviewInv PROVE ReviewIsUnambiguous
<1> SUFFICES ASSUME NEW b \in roBases
             PROVE  /\ Cardinality({x \in roBases : x.id = b.id /\ x.rev = b.rev}) = 1
                    /\ Cardinality(StoredFor(b)) <= 1
  BY DEF ReviewIsUnambiguous
<1>1. {x \in roBases : x.id = b.id /\ x.rev = b.rev} = {b} BY DEF ReviewInv, OneBasisEach
<1>2. Cardinality({b}) = 1 BY FS_Singleton
<1>3. CASE StoredFor(b) = {} BY <1>1, <1>2, <1>3, FS_EmptySet
<1>4. CASE StoredFor(b) # {}
  <2>1. PICK q \in roRequests : q.basis = b BY <1>4 DEF StoredFor
  <2>2. StoredFor(b) = {q} BY <2>1 DEF StoredFor, ReviewInv, OneRequestEach
  <2>3. Cardinality({q}) = 1 BY FS_Singleton
  <2> QED BY <1>1, <1>2, <2>2, <2>3
<1> QED BY <1>3, <1>4

\* A focused review rests on findings.
LEMMA InvFocused == ASSUME ReviewInv PROVE FocusedFollowsFindings
BY DEF ReviewInv, BasisFits, FollowsFindings, FocusedFollowsFindings

\* A new outcome is stored under the delivery that its session holds.
LEMMA HolderAnswers == ASSUME ReviewInv, [RoNext]_roVars PROVE VerdictComesFromTheHolder
<1>0. ReviewersAreOthers BY DEF ReviewInv
<1>1. ASSUME NEW o \in roOutcomes' \ roOutcomes
      PROVE  \E q \in roRequests : RequestKey(q) = o.of /\ q.rgen = roBox[q.to].gen /\ q.to # roWho
  <2>1. RoSubmit
    BY <1>1 DEF RoNext, roVars, RoChange, RoAsk, RoRecordBasis, RoGet, RoContinue, RoReceive, RoRecover,
                RoReceiveLegacy, RoJudge, RoNotify
  <2>2. roJudging # Idle BY <2>1 DEF RoSubmit, Idle
  <2>3. PICK p \in {"store", "notify"}, q \in ReviewRequests(roBases) : \E s, n :
          roJudging = [pc |-> p, request |-> q, stale |-> s, outcome |-> n] /\ n.of = RequestKey(q)
    BY <2>2 DEF JudgingFits, ReviewInv
  <2>8. PICK s, n : roJudging = [pc |-> p, request |-> q, stale |-> s, outcome |-> n] /\ n.of = RequestKey(q)
    BY <2>3
  <2>4. o = n /\ StoreOutcome(q, n) BY <1>1, <2>1, <2>8 DEF RoSubmit
  <2>5. PICK r \in roRequests : RequestKey(r) = n.of /\ r.rgen = q.rgen BY <2>4 DEF StoreOutcome
  <2>6. r.to = q.to BY <2>8, <2>5 DEF RequestKey
  <2>7. r.rgen = roBox[r.to].gen BY <2>4, <2>5, <2>6 DEF StoreOutcome
  <2> QED BY <2>4, <2>5, <2>7, <1>0 DEF ReviewersAreOthers
<1>2. CASE RoNext
  <2>1. ReviewGrows BY <1>2, ReviewStep
  <2> QED BY <1>1, <2>1 DEF ReviewGrows, VerdictComesFromTheHolder
<1>3. CASE UNCHANGED roVars BY <1>3 DEF roVars, VerdictComesFromTheHolder
<1> QED BY <1>2, <1>3

\* The requests of a revision rest on its recorded bases.
LEMMA CheckedBases ==
  ASSUME ReviewInv, NEW rev
  PROVE  {q.basis : q \in {x \in roRequests : x.basis.rev = rev /\ x.basis.check # "none"}}
           \subseteq {b \in roBases : b.rev = rev /\ b.check # "none"}
BY DEF ReviewInv, ReviewTyped, ReviewRequests

\* A proof of the baseline survives every step that records no other baseline review.
LEMMA BaselineKept == ASSUME ReviewInv, ReviewInv', ReviewGrows PROVE BaselineProofIsKept
<1> SUFFICES ASSUME NEW q \in BaselineProof(roRev), roRev' = roRev,
                    ~ \E b \in roBases' \ roBases : b.rev = roRev /\ b.check # "none"
             PROVE  RequestKey(q) \in {RequestKey(r) : r \in BaselineProof(roRev)'}
  BY DEF BaselineProofIsKept
<1> DEFINE checked == {b \in roBases : b.rev = roRev /\ b.check # "none"}
           bases == checked \cup {x.basis : x \in {y \in roRequests : y.basis.rev = roRev /\ y.basis.check # "none"}}
<1>1. bases = checked BY CheckedBases
<1>2. bases' = checked'
  <2>1. roRequests' \subseteq ReviewRequests(roBases') BY DEF ReviewInv, ReviewTyped
  <2> QED BY <2>1 DEF ReviewRequests
<1>3. checked' = checked BY DEF ReviewGrows
<1>4. /\ \E b \in checked : q \in StoredFor(b)
      /\ Cardinality({b.id : b \in bases}) = 1 /\ Cardinality(checked) = 1
      /\ \E o \in OutcomesOf(q) : OutcomesOf(q) = {o} /\ o.verdict = "PASS"
  BY DEF BaselineProof, ProofRequests
<1>5. q \in roRequests /\ q.basis \in checked BY <1>4 DEF StoredFor
<1>6. PICK r \in roRequests' : r.basis = q.basis /\ RequestKey(r) = RequestKey(q)
  BY <1>5 DEF ReviewGrows
<1>7. StoredFor(r.basis)' = {r} BY <1>6 DEF StoredFor, ReviewInv, OneRequestEach
<1>8. Cardinality(ProofRequests(r.basis))' = 1
  <2>1. Cardinality({r}) = 1 BY FS_Singleton
  <2> QED BY <2>1, <1>7 DEF ProofRequests
<1>9. OutcomesOf(r)' = OutcomesOf(q)
  BY <1>4, <1>6 DEF OutcomesOf, ReviewGrows, RequestKey
<1>10. r \in BaselineProof(roRev)'
  BY <1>1, <1>2, <1>3, <1>4, <1>5, <1>6, <1>7, <1>8, <1>9 DEF BaselineProof, ProofRequests
<1> QED BY <1>6, <1>10

\* Every step of reviews keeps them sound: ReviewService.request, get, continue_acquisition,
\* recover and submit, whoever changes the subject, the policy or a mailbox in between.
THEOREM ReviewsStaySound == RoSpec => ReviewsAreSound
<1>1. RoInit => ReviewInv BY ReviewStarts
<1>2. ReviewInv /\ [RoNext]_roVars => ReviewInv' /\ ReviewGrows
  <2>1. ASSUME ReviewInv, UNCHANGED roVars PROVE ReviewInv' /\ ReviewGrows
    <3>1. ReviewGrows BY <2>1 DEF roVars, ReviewGrows, ReviewInv, ReviewTyped
    <3>2. ReviewTyped' /\ OneBasisEach' /\ OneRequestEach' /\ ReviewersAreOthers' /\ JudgingFits'
      BY <2>1 DEF roVars, ReviewInv, ReviewTyped, OneBasisEach, OneRequestEach, ReviewersAreOthers, JudgingFits
    <3>3. \A b : BasisFits(b) => BasisFits(b)'
      BY <2>1, <3>1, BasisKept DEF roVars, ReviewInv, ReviewTyped
    <3> QED BY <2>1, <3>1, <3>2, <3>3 DEF roVars, ReviewInv
  <2> QED BY <2>1, ReviewStep
<1>3. ReviewInv' => ReviewIsUnambiguous' /\ FocusedFollowsFindings'
  BY InvUnambiguous, InvFocused, PTL
<1>4. ReviewInv /\ [RoNext]_roVars =>
        /\ ReviewIsUnambiguous' /\ FocusedFollowsFindings'
        /\ VerdictComesFromTheHolder /\ BaselineProofIsKept
  BY <1>2, <1>3, HolderAnswers, BaselineKept
<1> QED BY <1>1, <1>2, <1>4, PTL DEF RoSpec, ReviewsAreSound

-----------------------------------------------------------------------------
(* WorkPolicy, for any set of exact values.  The argument for coherence: the  *)
(* three groups of fields are nested (a patch that affects the transition      *)
(* affects the wait, one that affects the wait affects the action), and each   *)
(* rule reads only columns of the groups up to its own, so a rule that is not  *)
(* checked again reads nothing that changed.                                   *)

USE DEF Sentinel, Value, Lifecycle

(* A row takes the patch's value or keeps its own. *)
LEMMA CandidateTyped ==
  ASSUME NEW r \in Row, NEW p \in Patch PROVE Candidate(r, p) \in Row
BY PolicyConstants DEF PolicyConstants, Candidate, Choose, Row, Patch

(* The completed form of a finishing patch is a patch. *)
LEMMA NormalizedTyped ==
  ASSUME NEW p \in Patch PROVE Normalized(p) \in Patch
BY PolicyConstants DEF PolicyConstants, Normalized, Finished, Patch

(* A patch outside a group leaves that group's columns alone. *)
LEMMA UntouchedTransition ==
  ASSUME NEW r \in Row, NEW p \in Patch, ~Transition(p)
  PROVE  /\ Candidate(r, p).completed = r.completed
         /\ Candidate(r, p).lifecycle = r.lifecycle
BY DEF Candidate, Choose, Transition

(* The same for the wait columns, *)
LEMMA UntouchedWaits ==
  ASSUME NEW r \in Row, NEW p \in Patch, ~Waits(p)
  PROVE  /\ Candidate(r, p).wait = r.wait
         /\ Candidate(r, p).unblock = r.unblock
         /\ Candidate(r, p).due = r.due
         /\ ~Transition(p)
BY DEF Candidate, Choose, Waits

(* and for the action columns. *)
LEMMA UntouchedActions ==
  ASSUME NEW r \in Row, NEW p \in Patch, ~Actions(p)
  PROVE  /\ Candidate(r, p).class = r.class
         /\ Candidate(r, p).ref = r.ref
         /\ ~Waits(p)
BY DEF Candidate, Choose, Actions

(* What an update that is accepted guarantees about the row it leaves. *)
LEMMA UpdateStep ==
  ASSUME NEW p \in Patch, row \in Row, Update(p)
  PROVE  \E q \in Patch : /\ row' = Candidate(row, q)
                          /\ ReopenRule(row, q, row')
                          /\ ValidateResultantState(row', q)
<1>1. Normalized(p) \in Patch
  BY NormalizedTyped
<1>2. /\ row' = Candidate(row, Normalized(p))
      /\ ReopenRule(row, Normalized(p), row')
      /\ ValidateResultantState(row', Normalized(p))
  BY DEF Update
<1> QED
  BY <1>1, <1>2

(* Every write keeps the columns' types. *)
LEMMA NextTyped ==
  ASSUME row \in Row, [Next]_row PROVE row' \in Row
<1>1. ASSUME NEW p \in Patch, Update(p) PROVE row' \in Row
  BY <1>1, UpdateStep, CandidateTyped
<1>2. CASE CloseSource
  BY <1>2 DEF CloseSource, Finished, Row
<1>3. CASE UNCHANGED row
  BY <1>3
<1> QED
  BY <1>1, <1>2, <1>3 DEF Next

(* The semantic columns always hold values of their types. *)
THEOREM PolicyTypeCorrect == Spec => []PolicyTypeOK
<1>1. Init => PolicyTypeOK
  BY DEF Init, Created, Bare, Row, PolicyTypeOK
<1>2. PolicyTypeOK /\ [Next]_row => PolicyTypeOK'
  BY NextTyped DEF PolicyTypeOK
<1> QED
  BY <1>1, <1>2, PTL DEF Spec

(* The row a closed source or a finishing patch ends in is coherent. *)
LEMMA FinishedCoherent == Coherent(Finished)
BY PolicyConstants DEF PolicyConstants, Coherent, Finished, TransitionRule, ActionRule,
   WaitRule, NoAction, NoWait

(* A group that is not checked again has not been touched. *)
LEMMA UpdateKeepsCoherence ==
  ASSUME NEW r \in Row, NEW q \in Patch, Coherent(r), ValidateResultantState(Candidate(r, q), q)
  PROVE  Coherent(Candidate(r, q))
<1> DEFINE s == Candidate(r, q)
<1>1. s.lifecycle \in Lifecycle /\ ActionRule(s)
  <2>1. CASE Actions(q)
    BY <2>1 DEF ValidateResultantState
  <2>2. CASE ~Actions(q)
    BY <2>2, UntouchedActions, UntouchedWaits, UntouchedTransition
    DEF Coherent, ActionRule, NoAction, ExactAction
  <2> QED
    BY <2>1, <2>2
<1>2. TransitionRule(s)
  <2>1. CASE Transition(q)
    BY <2>1 DEF ValidateResultantState
  <2>2. CASE ~Transition(q)
    BY <2>2, UntouchedTransition DEF Coherent, TransitionRule
  <2> QED
    BY <2>1, <2>2
<1>3. WaitRule(s)
  <2>1. CASE Waits(q)
    BY <2>1 DEF ValidateResultantState
  <2>2. CASE ~Waits(q)
    BY <2>2, UntouchedWaits, UntouchedTransition DEF Coherent, WaitRule, NoWait
  <2> QED
    BY <2>1, <2>2
<1> QED
  BY <1>1, <1>2, <1>3 DEF Coherent

(* Every write keeps a coherent row coherent. *)
LEMMA NextKeepsCoherence ==
  ASSUME row \in Row, [Next]_row, Coherent(row) PROVE Coherent(row')
<1>1. ASSUME NEW p \in Patch, Update(p) PROVE Coherent(row')
  <2>1. PICK q \in Patch : row' = Candidate(row, q) /\ ValidateResultantState(row', q)
    BY <1>1, UpdateStep
  <2> QED
    BY <2>1, UpdateKeepsCoherence
<1>2. CASE CloseSource
  BY <1>2, FinishedCoherent DEF CloseSource
<1>3. CASE UNCHANGED row
  BY <1>3
<1> QED
  BY <1>1, <1>2, <1>3 DEF Next

(* An update or a classification never makes a coherent row incoherent,        *)
(* whatever fields its patch mentions.                                         *)
THEOREM CoherenceKept == Spec => CoherenceIsKept
<1>1. PolicyTypeOK /\ [Next]_row => (Coherent(row) => Coherent(row)')
  BY NextKeepsCoherence DEF PolicyTypeOK
<1> QED
  BY <1>1, PolicyTypeCorrect, PTL DEF Spec, CoherenceIsKept

(* Only an explicit reopen clears completed. *)
LEMMA NextReopensStartable ==
  ASSUME row \in Row, [Next]_row, row.completed, ~row'.completed
  PROVE  row'.lifecycle = "CURRENT" /\ NoWait(row') /\ ExactAction(row')
<1>1. ASSUME NEW p \in Patch, Update(p)
      PROVE  row'.lifecycle = "CURRENT" /\ NoWait(row') /\ ExactAction(row')
  <2>1. PICK q \in Patch : row' = Candidate(row, q) /\ ReopenRule(row, q, row')
    BY <1>1, UpdateStep
  <2>2. Transition(q)
    BY <2>1, UntouchedTransition
  <2>3. ReopensExplicitly(q)
    BY <2>1, <2>2 DEF ReopenRule
  <2> QED
    BY <2>1, <2>3, PolicyConstants
    DEF PolicyConstants, Candidate, Choose, ReopensExplicitly, NoWait, ExactAction
<1>2. CASE CloseSource
  BY <1>2 DEF CloseSource, Finished
<1>3. CASE UNCHANGED row
  BY <1>3
<1> QED
  BY <1>1, <1>2, <1>3 DEF Next

(* Finished work comes back only as current work with an exact next action and  *)
(* no wait: the reopen rule of protected_update is checked before the candidate *)
(* row is written and no other write clears completed.                         *)
THEOREM ReopenedWorkIsStartable == Spec => FinishedWorkReopensStartable
<1>1. PolicyTypeOK /\ [Next]_row =>
        ((row.completed /\ ~row'.completed) =>
           row'.lifecycle = "CURRENT" /\ NoWait(row)' /\ ExactAction(row)')
  BY NextReopensStartable DEF PolicyTypeOK
<1> QED
  BY <1>1, PolicyTypeCorrect, PTL DEF Spec, FinishedWorkReopensStartable

(* A row whose wait rule was checked has all three wait columns. *)
LEMMA CheckedWaitIsWhole ==
  ASSUME NEW r \in Row, r.lifecycle \in Lifecycle, WaitRule(r)
  PROVE  Null \notin {r.wait, r.unblock, r.due}
BY PolicyConstants DEF PolicyConstants, WaitRule, NoWait

(* Every write keeps waits whole. *)
LEMMA NextKeepsWaitsWhole ==
  ASSUME row \in Row, [Next]_row, WaitsAreWhole PROVE WaitsAreWhole'
<1>1. ASSUME NEW p \in Patch, Update(p) PROVE WaitsAreWhole'
  <2>1. PICK q \in Patch : row' = Candidate(row, q) /\ ValidateResultantState(row', q)
    BY <1>1, UpdateStep
  <2>2. CASE Waits(q)
    <3>1. row' \in Row /\ row'.lifecycle \in Lifecycle /\ WaitRule(row')
      BY <2>1, <2>2, CandidateTyped DEF ValidateResultantState, Actions
    <3> QED
      BY <3>1, CheckedWaitIsWhole DEF WaitsAreWhole
  <2>3. CASE ~Waits(q)
    <3>1. /\ row'.wait = row.wait /\ row'.unblock = row.unblock /\ row'.due = row.due
          /\ row'.lifecycle = row.lifecycle
      BY <2>1, <2>3, UntouchedWaits, UntouchedTransition
    <3> QED
      BY <3>1 DEF WaitsAreWhole, WaitRule, NoWait
  <2> QED
    BY <2>2, <2>3
<1>2. CASE CloseSource
  BY <1>2, PolicyConstants
  DEF PolicyConstants, CloseSource, Finished, WaitsAreWhole, WaitRule, NoWait
<1>3. CASE UNCHANGED row
  BY <1>3 DEF WaitsAreWhole, WaitRule, NoWait
<1> QED
  BY <1>1, <1>2, <1>3 DEF Next

(* No write leaves a wait half recorded: a row has none of the three wait        *)
(* columns or all of them, and then they fit its lifecycle.                     *)
THEOREM WaitsStayWhole == Spec => []WaitsAreWhole
<1>1. Init => WaitsAreWhole
  <2>1. ASSUME row \in Bare PROVE WaitsAreWhole
    BY <2>1 DEF Bare, WaitsAreWhole
  <2>2. ASSUME row \in Created PROVE WaitsAreWhole
    BY <2>2, PolicyConstants
    DEF PolicyConstants, Created, Row, Triage, Evidence, Substantive, ExactWait, NoWait,
        WaitsAreWhole, WaitRule
  <2> QED
    BY <2>1, <2>2 DEF Init
<1>2. PolicyTypeOK /\ WaitsAreWhole /\ [Next]_row => WaitsAreWhole'
  BY NextKeepsWaitsWhole DEF PolicyTypeOK
<1> QED
  BY <1>1, <1>2, PolicyTypeCorrect, PTL DEF Spec

(* Whatever patches protected_update admits, the row keeps its types and its     *)
(* waits stay whole.                                                           *)
THEOREM RowsStayWhole == Spec => []RowIsWhole
<1>1. PolicyTypeOK /\ WaitsAreWhole => RowIsWhole
  BY DEF RowIsWhole
<1> QED
  BY <1>1, PolicyTypeCorrect, WaitsStayWhole, PTL

(* No admitted write of protected_update, and no closing of a feedback source,   *)
(* breaks a coherent row or reopens finished work that cannot be started.       *)
THEOREM EveryStepKeepsThePolicy == Spec => StepsKeepThePolicy
<1>1. PolicyTypeOK /\ [Next]_row =>
        /\ Coherent(row) => Coherent(row)'
        /\ (row.completed /\ ~row'.completed) =>
             row'.lifecycle = "CURRENT" /\ NoWait(row)' /\ ExactAction(row)'
  BY NextKeepsCoherence, NextReopensStartable DEF PolicyTypeOK
<1> QED
  BY <1>1, PolicyTypeCorrect, PTL DEF Spec, StepsKeepThePolicy
=============================================================================
