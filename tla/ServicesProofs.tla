---------------------------- MODULE ServicesProofs ----------------------------
(***************************************************************************)
(* Theorems about the services around the mailbox system: the coordinator's *)
(* workers, the synchronisation of checkouts, the edge monitor, deployment  *)
(* and maintenance of the edge, and the agent broker's leases.  Each        *)
(* section names the state its argument is about, the inductive invariant,  *)
(* and the steps that keep it.                                              *)
(***************************************************************************)
EXTENDS CoordinatorWorkers, CheckoutSync, EdgeMonitor, EdgeDeploy, AgentLeases,
        EdgeMaintenance, SequenceTheorems, FiniteSetTheorems, TLAPS

-----------------------------------------------------------------------------
(* CoordinatorWorkers.                                                      *)

CwPhases == {"PREPARED", "RUNNING", "TERMINAL"}
CwSeen == [phase : CwPhases, cancelled : BOOLEAN]

\* The part of the state the argument is about.
WorkersTyped ==
  /\ cwRecords \in [CwSpawns -> {NoRecord} \cup CwSeen]
  /\ cwSpawner \in CwSpawns \cup {NoSpawn}
  /\ cwUnits \in [CwSpawns -> {"absent", "late", "queued", "active", "gone"}]
  /\ cwWrapper \in [CwSpawns -> {"none", "enter", "launch", "run", "leave"}]
  /\ cwStarts \in [CwSpawns -> Nat]
  /\ cwCalls \in [CwCancels -> [at : {"idle"}] \cup [at : {"stop", "mark"}, spawn : CwSpawns]]

\* What a spawn has come to: nothing is asked for before its record is there, the wrapper
\* lives in an active unit, and the launcher has not started before the wrapper starts it.
\* A record that is TERMINAL before its wrapper has ended was cancelled: the wrapper writes
\* TERMINAL only as it ends.
SpawnFits(s) ==
  /\ cwRecords[s].phase = "none" => cwUnits[s] = "absent"
  /\ cwSpawner = s => cwRecords[s].phase = "PREPARED" /\ cwUnits[s] = "absent"
  /\ cwWrapper[s] # "none" => cwUnits[s] = "active"
  /\ cwStarts[s] <= 1
  /\ cwUnits[s] \in {"absent", "late", "queued"} \/ cwWrapper[s] \in {"enter", "launch"} => cwStarts[s] = 0
  /\ /\ cwWrapper[s] # "none" \/ cwUnits[s] \in {"absent", "late", "queued"}
     /\ cwRecords[s].phase = "TERMINAL"
     => cwRecords[s].cancelled

WorkersInv ==
  /\ WorkersTyped
  /\ \A s \in CwSpawns : SpawnFits(s)
  /\ \A c \in CwCancels : cwCalls[c].at # "idle" => cwRecords[cwCalls[c].spawn].phase # "none"

\* Nothing is recorded or running at first.
LEMMA WorkersStart == CwInit => WorkersInv
BY WorkerConstants DEF WorkerConstants, CwInit, WorkersInv, WorkersTyped, SpawnFits, NoRecord, NoSpawn

\* A step of one spawn leaves what is said of the others.
LEMMA WorkersStep ==
  ASSUME WorkersInv, [CwNext]_cwVars
  PROVE  WorkersInv' /\ [WorkerOutcomeStands /\ AdmittedBesideNoWorker]_cwVars
<1> USE WorkerConstants DEF WorkerConstants, LockFree, NoRecord, NoSpawn, CwSeen, CwPhases
<1>i. WorkersTyped /\ \A s \in CwSpawns : SpawnFits(s)
  BY DEF WorkersInv
<1>c. \A c \in CwCancels : cwCalls[c].at # "idle" => cwRecords[cwCalls[c].spawn].phase # "none"
  BY DEF WorkersInv
<1>t. \A s \in CwSpawns : cwRecords[s].phase # "none" => cwRecords[s] \in CwSeen
  BY <1>i DEF WorkersTyped
<1> DEFINE Kept(s) == /\ cwRecords'[s] = cwRecords[s] /\ cwUnits'[s] = cwUnits[s]
                      /\ cwWrapper'[s] = cwWrapper[s] /\ cwStarts'[s] = cwStarts[s]
                      /\ cwSpawner' = cwSpawner \/ cwSpawner' # s
           Good == WorkersInv' /\ WorkerOutcomeStands /\ AdmittedBesideNoWorker
<1>k. ASSUME NEW s \in CwSpawns, Kept(s) PROVE SpawnFits(s)'
  BY <1>i, <1>k DEF SpawnFits
<1>f. ASSUME WorkersTyped', \A s \in CwSpawns : SpawnFits(s)',
             \A c \in CwCancels : cwCalls'[c] = cwCalls[c] \/ cwCalls'[c].at = "idle"
                                    \/ cwRecords'[cwCalls'[c].spawn].phase # "none",
             \A s \in CwSpawns : /\ cwRecords[s].phase # "none" => cwRecords'[s].phase \in CwPhases
                                 /\ cwRecords[s].phase = "TERMINAL" => cwRecords'[s] = cwRecords[s]
                                 /\ cwRecords[s].phase = "none" => cwRecords'[s] = cwRecords[s]
      PROVE  Good
  <2>1. ASSUME NEW c \in CwCancels, cwCalls'[c].at # "idle"
        PROVE  cwRecords'[cwCalls'[c].spawn].phase # "none"
    BY <1>i, <1>c, <1>f, <2>1 DEF WorkersTyped
  <2> QED BY <1>f, <2>1 DEF WorkersInv, WorkerOutcomeStands, AdmittedBesideNoWorker
<1>1. ASSUME NEW s \in CwSpawns, SpawnAdmit(s) PROVE Good
  <2> USE <1>1 DEF SpawnAdmit
  <2>1. WorkersTyped'
    BY <1>i DEF WorkersTyped
  <2>2. \A t \in CwSpawns \ {s} : cwRecords'[t] = cwRecords[t]
    BY <1>i DEF WorkersTyped
  <2>3. cwRecords'[s] = [phase |-> "PREPARED", cancelled |-> FALSE]
    BY <1>i DEF WorkersTyped
  <2>4. \A t \in CwSpawns : SpawnFits(t)'
    BY <1>i, <2>2, <2>3 DEF SpawnFits
  <2>5. \A c \in CwCancels : cwCalls'[c].at # "idle" => cwRecords'[cwCalls'[c].spawn].phase # "none"
    BY <1>i, <1>c, <2>2, <2>3 DEF WorkersTyped
  <2>6. WorkerOutcomeStands
    BY <2>2, <2>3 DEF WorkerOutcomeStands
  <2>7. ASSUME NEW r \in CwSpawns, NEW t \in CwSpawns,
               cwRecords[r].phase = "none", cwRecords'[r].phase = "PREPARED",
               cwWork[t] = cwWork[r], Running(t)
        PROVE  cwRecords[t].phase = "TERMINAL" /\ cwRecords[t].cancelled
    <3>1. r = s
      BY <2>2, <2>7
    <3>2. ~ActiveWorker(t)
      BY <3>1, <2>7
    <3>3. cwUnits[t] = "active" /\ cwRecords[t].phase # "none"
      BY <1>i, <2>7 DEF SpawnFits, Running
    <3> QED BY <1>i, <1>t, <2>7, <3>2, <3>3 DEF ActiveWorker, SpawnFits, Running
  <2> QED BY <2>1, <2>4, <2>5, <2>6, <2>7 DEF WorkersInv, AdmittedBesideNoWorker
<1>2. ASSUME RequestUnit PROVE Good
  <2> USE <1>2 DEF RequestUnit
  <2>1. WorkersTyped'
    BY <1>i DEF WorkersTyped
  <2>2. \A t \in CwSpawns : SpawnFits(t)'
    BY <1>i DEF WorkersTyped, SpawnFits
  <2> QED BY <1>f, <1>t, <2>1, <2>2
<1>3. ASSUME NEW s \in CwSpawns, UnitMoves(s) PROVE Good
  <2> USE <1>3 DEF UnitMoves
  <2>1. WorkersTyped'
    BY <1>i DEF WorkersTyped
  <2>2. \A t \in CwSpawns : SpawnFits(t)'
    BY <1>i DEF WorkersTyped, SpawnFits
  <2> QED BY <1>f, <1>t, <2>1, <2>2
<1>4. ASSUME NEW s \in CwSpawns, UnitDies(s) PROVE Good
  <2> USE <1>4 DEF UnitDies
  <2>1. WorkersTyped'
    BY <1>i DEF WorkersTyped
  <2>2. \A t \in CwSpawns : SpawnFits(t)'
    BY <1>i DEF WorkersTyped, SpawnFits
  <2> QED BY <1>f, <1>t, <2>1, <2>2
<1>5. ASSUME NEW s \in CwSpawns, LauncherExits(s) PROVE Good
  <2> USE <1>5 DEF LauncherExits, Running
  <2>1. WorkersTyped'
    BY <1>i DEF WorkersTyped
  <2>2. \A t \in CwSpawns : SpawnFits(t)'
    BY <1>i DEF WorkersTyped, SpawnFits
  <2> QED BY <1>f, <1>t, <2>1, <2>2
<1>6. ASSUME NEW s \in CwSpawns, ExecuteEnter(s) PROVE Good
  <2> USE <1>6 DEF ExecuteEnter
  <2>0. cwRecords[s] \in CwSeen
    BY <1>i, <1>t DEF SpawnFits, WorkersTyped
  <2>1. WorkersTyped'
    BY <1>i, <2>0 DEF WorkersTyped
  <2>2. \A t \in CwSpawns : SpawnFits(t)'
    BY <1>i, <2>0 DEF WorkersTyped, SpawnFits
  <2>3. \A t \in CwSpawns : /\ cwRecords[t].phase # "none" => cwRecords'[t].phase \in CwPhases
                            /\ cwRecords[t].phase = "TERMINAL" => cwRecords'[t] = cwRecords[t]
                            /\ cwRecords[t].phase = "none" => cwRecords'[t] = cwRecords[t]
    BY <1>i, <1>t, <2>0 DEF WorkersTyped
  <2> QED BY <1>f, <2>1, <2>2, <2>3
<1>7. ASSUME NEW s \in CwSpawns, ExecuteLaunch(s) PROVE Good
  <2> USE <1>7 DEF ExecuteLaunch
  <2>1. WorkersTyped'
    BY <1>i DEF WorkersTyped
  <2>2. \A t \in CwSpawns : SpawnFits(t)'
    BY <1>i DEF WorkersTyped, SpawnFits
  <2> QED BY <1>f, <1>t, <2>1, <2>2
<1>8. ASSUME NEW s \in CwSpawns, ExecuteLeave(s) PROVE Good
  <2> USE <1>8 DEF ExecuteLeave
  <2>0. cwRecords[s] \in CwSeen
    BY <1>i, <1>t DEF SpawnFits, WorkersTyped
  <2>1. WorkersTyped'
    BY <1>i, <2>0 DEF WorkersTyped
  <2>2. \A t \in CwSpawns : SpawnFits(t)'
    BY <1>i, <2>0 DEF WorkersTyped, SpawnFits
  <2>3. \A t \in CwSpawns : /\ cwRecords[t].phase # "none" => cwRecords'[t].phase \in CwPhases
                            /\ cwRecords[t].phase = "TERMINAL" => cwRecords'[t] = cwRecords[t]
                            /\ cwRecords[t].phase = "none" => cwRecords'[t] = cwRecords[t]
    BY <1>i, <1>t, <2>0 DEF WorkersTyped
  <2> QED BY <1>f, <2>1, <2>2, <2>3
<1>9. ASSUME NEW c \in CwCancels, CancelLook(c) PROVE Good
  <2> USE <1>9 DEF CancelLook, SetCall
  <2>1. WorkersTyped'
    BY <1>i DEF WorkersTyped
  <2>2. \A t \in CwSpawns : SpawnFits(t)'
    BY <1>k
  <2>3. \A d \in CwCancels : cwCalls'[d] = cwCalls[d] \/ cwCalls'[d].at = "idle"
                                    \/ cwRecords'[cwCalls'[d].spawn].phase # "none"
    BY <1>i DEF WorkersTyped
  <2> QED BY <1>f, <1>t, <2>1, <2>2, <2>3
<1>10. ASSUME NEW c \in CwCancels, CancelStop(c) PROVE Good
  <2> USE <1>10 DEF CancelStop, SetCall
  <2>0. cwCalls[c].spawn \in CwSpawns
    BY <1>i DEF WorkersTyped
  <2>1. WorkersTyped'
    BY <1>i, <2>0 DEF WorkersTyped
  <2>2. \A t \in CwSpawns : SpawnFits(t)'
    BY <1>i, <2>0 DEF WorkersTyped, SpawnFits
  <2>3. \A d \in CwCancels : cwCalls'[d] = cwCalls[d] \/ cwCalls'[d].at = "idle"
                                    \/ cwRecords'[cwCalls'[d].spawn].phase # "none"
    BY <1>i, <1>c DEF WorkersTyped
  <2> QED BY <1>f, <1>t, <2>1, <2>2, <2>3
<1>11. ASSUME NEW c \in CwCancels, CancelMark(c) PROVE Good
  <2> USE <1>11 DEF CancelMark, SetCall
  <2>0. cwCalls[c].spawn \in CwSpawns /\ cwRecords[cwCalls[c].spawn].phase # "none"
    BY <1>i, <1>c DEF WorkersTyped
  <2>1. WorkersTyped'
    BY <1>i, <2>0 DEF WorkersTyped
  <2>2. \A t \in CwSpawns : SpawnFits(t)'
    BY <1>i, <2>0 DEF WorkersTyped, SpawnFits
  <2>3. \A d \in CwCancels : cwCalls'[d] = cwCalls[d] \/ cwCalls'[d].at = "idle"
    BY <1>i DEF WorkersTyped
  <2>4. \A t \in CwSpawns : /\ cwRecords[t].phase # "none" => cwRecords'[t].phase \in CwPhases
                            /\ cwRecords[t].phase = "TERMINAL" => cwRecords'[t] = cwRecords[t]
                            /\ cwRecords[t].phase = "none" => cwRecords'[t] = cwRecords[t]
    BY <1>i, <1>t, <2>0 DEF WorkersTyped
  <2> QED BY <1>f, <2>1, <2>2, <2>3, <2>4
<1>12. CASE UNCHANGED cwVars
  <2> USE <1>12 DEF cwVars
  <2>1. WorkersTyped'
    BY <1>i DEF WorkersTyped
  <2>2. \A t \in CwSpawns : SpawnFits(t)'
    BY <1>k
  <2> QED BY <1>f, <1>t, <2>1, <2>2
<1> HIDE DEF Good
<1>13. CASE CwNext
  <2>1. Good
    BY <1>13, <1>1, <1>2, <1>3, <1>4, <1>5, <1>6, <1>7, <1>8, <1>9, <1>10, <1>11 DEF CwNext
  <2> QED BY <2>1 DEF Good
<1> QED BY <1>12, <1>13 DEF Good

\* Workers of the Coordinator, for any set of spawn ids, works and cancellations
\* (coordinator_workers.py): one start per operation, one outcome, and none admitted beside
\* a worker of its work unless that one was marked cancelled.
THEOREM WorkersStaySound == CwSpec => WorkersAreSound
<1>1. WorkersInv /\ [CwNext]_cwVars =>
        WorkersInv' /\ [WorkerOutcomeStands /\ AdmittedBesideNoWorker]_cwVars
  BY WorkersStep
<1>2. WorkersInv => LauncherStartsOnce
  BY DEF WorkersInv, SpawnFits, LauncherStartsOnce
<1> QED BY WorkersStart, <1>1, <1>2, PTL DEF CwSpec, WorkersAreSound

-----------------------------------------------------------------------------
(* CheckoutSync.                                                            *)

CsCommits == [remote : Nat, local : BOOLEAN]
CsStarted ==
  [at : {"check", "fetch", "merge", "readback", "done"}, kind : {"sync", "handoff"},
   observed : CsCommits, target : Nat, moved : BOOLEAN, started : CsCommits, failed : BOOLEAN,
   effect : {"none", "not_sent", "current", "applied", "unknown"}, read : CsCommits]

SyncTyped ==
  /\ csHead \in CsCommits
  /\ csRemote \in Nat
  /\ csCalls \in [CsCalls -> [at : {"idle"}] \cup CsStarted]

\* What a call relies on.  The checkout only moves forward along the remote's line, so a
\* merge that moved it past what was observed cannot be mistaken for one that did not.
SyncFits(c) ==
  /\ c.at \in {"check", "fetch", "merge"} => ~c.moved
  /\ c.at = "fetch" => c.observed # Pushed(c.target)
  /\ c.at \in {"merge", "readback"} => c.observed.remote < c.target
  /\ c.moved => c.target <= csHead.remote
  /\ c.at = "done" => /\ c.effect \in {"not_sent", "current"} => ~c.moved
                      /\ c.effect \in {"applied", "current"} =>
                           c.read = Pushed(c.target) /\ c.target <= csHead.remote
  /\ c.kind = "handoff" => ~c.started.local

SyncInv == SyncTyped /\ \A c \in CsCalls : csCalls[c].at # "idle" => SyncFits(csCalls[c])

\* No call is under way at first.
LEMMA SyncStarts == CsInit => SyncInv
BY SyncConstants DEF SyncConstants, CsInit, SyncInv, SyncTyped, CsCommits, Pushed

\* Whoever moves the checkout, a call that does nothing meanwhile keeps what it relies on.
LEMMA SyncStands ==
  ASSUME SyncInv, csHead' \in CsCommits, Ancestor(csHead, csHead'),
         NEW c \in CsCalls, csCalls[c].at # "idle", csCalls'[c] = csCalls[c]
  PROVE  SyncFits(csCalls[c])'
BY DEF SyncInv, SyncTyped, CsStarted, CsCommits, SyncFits, Ancestor

\* One step of a call, by what it leaves the call with.
LEMMA CallMoves ==
  ASSUME SyncInv, csHead' \in CsCommits, csRemote' = csRemote, Ancestor(csHead, csHead'),
         NEW c \in CsCalls, NEW v, csCalls' = [csCalls EXCEPT ![c] = v],
         v \in [at : {"idle"}] \cup CsStarted, v.at # "idle" => SyncFits(v)'
  PROVE  SyncInv'
<1>1. SyncTyped'
  BY DEF SyncInv, SyncTyped
<1>2. ASSUME NEW d \in CsCalls, csCalls'[d].at # "idle" PROVE SyncFits(csCalls[d])'
  <2>1. CASE d = c
    <3>1. csCalls'[d] = v
      BY <2>1 DEF SyncInv, SyncTyped
    <3> QED BY <3>1, <1>2 DEF SyncFits
  <2>2. CASE d # c
    <3>1. csCalls'[d] = csCalls[d]
      BY <2>2 DEF SyncInv, SyncTyped
    <3> QED BY <3>1, <1>2, SyncStands
  <2> QED BY <2>1, <2>2
<1> QED BY <1>1, <1>2 DEF SyncInv

\* Every step keeps the invariant and the history of the checkout.
LEMMA SyncStep ==
  ASSUME SyncInv, [CsNext]_csVars
  PROVE  SyncInv' /\ HistoryIsKept
<1> USE DEF HistoryIsKept
<1>t. SyncTyped /\ csHead \in CsCommits
  BY DEF SyncInv, SyncTyped
<1>h. Ancestor(csHead, csHead)
  BY DEF Ancestor
<1>r. ASSUME NEW c \in CsCalls, csCalls[c].at # "idle"
      PROVE csCalls[c] \in CsStarted /\ SyncFits(csCalls[c])
  BY <1>r DEF SyncInv, SyncTyped
<1>m. ASSUME NEW c \in CsCalls, NEW v \in CsStarted, SyncFits(v),
             csCalls' = [csCalls EXCEPT ![c] = v], UNCHANGED <<csHead, csRemote>>
      PROVE  SyncInv' /\ HistoryIsKept
  <2>1. SyncFits(v)'
    BY <1>m DEF SyncFits
  <2> QED BY <1>h, <1>t, <1>m, <2>1, CallMoves
<1>b. ASSUME NEW c \in CsCalls, NEW kind \in {"sync", "handoff"}, NEW target \in Nat,
             NEW started \in CsCommits, kind = "handoff" => ~started.local,
             csCalls' = [csCalls EXCEPT ![c] = Started(kind, target, started)],
             UNCHANGED <<csHead, csRemote>>
      PROVE  SyncInv' /\ HistoryIsKept
  <2>1. Started(kind, target, started) \in CsStarted
    BY <1>t DEF Started, CsStarted, Pushed, CsCommits
  <2>2. SyncFits(Started(kind, target, started))
    BY <1>b, <2>1 DEF SyncFits, Started
  <2> QED BY <1>b, <1>m, <2>1, <2>2
<1>1. ASSUME NEW c \in CsCalls, Begin(c) PROVE SyncInv' /\ HistoryIsKept
  <2>1. UNCHANGED <<csHead, csRemote>>
    BY <1>1 DEF Begin
  <2>2. CASE \E target \in 1..CsRemotes :
               csCalls' = [csCalls EXCEPT ![c] = Started("sync", target, csHead)]
    <3>1. PICK target \in 1..CsRemotes :
            csCalls' = [csCalls EXCEPT ![c] = Started("sync", target, csHead)]
      BY <2>2
    <3>2. target \in Nat
      BY SyncConstants DEF SyncConstants
    <3> QED BY <1>b, <1>t, <2>1, <3>1, <3>2
  <2>3. CASE \E started \in 1..csHead.remote :
               csCalls' = [csCalls EXCEPT ![c] = Started("handoff", csRemote, Pushed(started))]
    <3>1. PICK started \in 1..csHead.remote :
            csCalls' = [csCalls EXCEPT ![c] = Started("handoff", csRemote, Pushed(started))]
      BY <2>3
    <3>2. Pushed(started) \in CsCommits /\ ~Pushed(started).local /\ csRemote \in Nat
      BY <1>t DEF Pushed, CsCommits, SyncTyped
    <3> QED BY <1>b, <2>1, <3>1, <3>2
  <2> QED BY <1>1, <2>2, <2>3 DEF Begin, Go
<1>a. ASSUME NEW c \in CsCalls, NEW w, w = csCalls[c], w \in CsStarted, SyncFits(w),
             NEW effect \in {"not_sent", "current", "applied", "unknown"}, Answers(c, effect),
             effect \in {"not_sent", "current"} => ~w.moved,
             effect \in {"applied", "current"} => csHead = Pushed(w.target),
             UNCHANGED <<csHead, csRemote>>
      PROVE  SyncInv' /\ HistoryIsKept
  <2> DEFINE v == [w EXCEPT !.at = "done", !.effect = effect, !.read = csHead]
  <2>1. v \in CsStarted
    BY <1>a, <1>t DEF CsStarted
  <2>2. /\ v.at = "done" /\ v.effect = effect /\ v.read = csHead /\ v.moved = w.moved
        /\ v.kind = w.kind /\ v.started = w.started /\ v.target = w.target
    BY <1>a DEF CsStarted
  <2>3. effect \in {"applied", "current"} => w.target <= csHead.remote
    BY <1>a DEF CsStarted, Pushed
  <2>4. csCalls' = [csCalls EXCEPT ![c] = v]
    BY <1>a DEF Answers, Go
  <2> HIDE DEF v
  <2>5. SyncFits(v)
    BY <1>a, <2>2, <2>3 DEF SyncFits
  <2> QED BY <1>a, <1>m, <2>1, <2>4, <2>5
<1>p. ASSUME NEW c \in CsCalls, NEW w, w = csCalls[c], w \in CsStarted, SyncFits(w),
             NEW at \in {"fetch", "merge"}, Proceed(c, at), ~w.moved,
             at = "fetch" => w.observed # Pushed(w.target),
             at = "merge" => w.observed.remote < w.target,
             UNCHANGED <<csHead, csRemote>>
      PROVE  SyncInv' /\ HistoryIsKept
  <2> DEFINE v == [w EXCEPT !.at = at]
  <2>1. v \in CsStarted
    BY <1>p DEF CsStarted
  <2>2. /\ v.at = at /\ v.moved = w.moved /\ v.observed = w.observed
        /\ v.kind = w.kind /\ v.started = w.started /\ v.target = w.target
    BY <1>p DEF CsStarted
  <2>3. csCalls' = [csCalls EXCEPT ![c] = v]
    BY <1>p DEF Proceed, Go
  <2> HIDE DEF v
  <2>4. SyncFits(v)
    BY <1>p, <2>2 DEF SyncFits
  <2> QED BY <1>p, <1>m, <2>1, <2>3, <2>4
<1>2. ASSUME NEW c \in CsCalls, Check(c) PROVE SyncInv' /\ HistoryIsKept
  <2>1. PICK w : w = csCalls[c] /\ w \in CsStarted /\ SyncFits(w) /\ w.at = "check"
    BY <1>2, <1>r DEF Check
  <2>2. /\ ~w.moved /\ UNCHANGED <<csHead, csRemote>>
        /\ \/ Answers(c, "not_sent")
           \/ Answers(c, "current") /\ csHead = Pushed(w.target)
           \/ Proceed(c, "fetch") /\ w.observed # Pushed(w.target)
    BY <1>2, <2>1 DEF Check, SyncFits
  <2> QED BY <1>a, <1>p, <2>1, <2>2
<1>3. ASSUME NEW c \in CsCalls, Fetch(c) PROVE SyncInv' /\ HistoryIsKept
  <2>1. PICK w : w = csCalls[c] /\ w \in CsStarted /\ SyncFits(w) /\ w.at = "fetch"
    BY <1>3, <1>r DEF Fetch
  <2>2. /\ ~w.moved /\ UNCHANGED <<csHead, csRemote>> /\ w.observed # Pushed(w.target)
        /\ \/ Answers(c, "not_sent")
           \/ Proceed(c, "merge") /\ Ancestor(w.observed, Pushed(w.target))
    BY <1>3, <2>1 DEF Fetch, SyncFits
  <2>3. ASSUME Ancestor(w.observed, Pushed(w.target)) PROVE w.observed.remote < w.target
    <3>1. w.observed \in CsCommits /\ w.target \in Nat
      BY <2>1 DEF CsStarted
    <3>2. w.observed.local = FALSE /\ w.observed.remote <= w.target
      BY <2>2, <2>3, <3>1 DEF Ancestor, Pushed, CsCommits
    <3>3. w.observed.remote = w.target => w.observed = Pushed(w.target)
      BY <3>1, <3>2 DEF CsCommits, Pushed
    <3> QED BY <2>2, <3>1, <3>2, <3>3 DEF CsCommits
  <2> QED BY <1>a, <1>p, <2>1, <2>2, <2>3
<1>4. ASSUME NEW c \in CsCalls, Merge(c) PROVE SyncInv' /\ HistoryIsKept
  <2>1. PICK w : w = csCalls[c] /\ w \in CsStarted /\ SyncFits(w) /\ w.at = "merge"
    BY <1>4, <1>r DEF Merge
  <2> DEFINE Left(failed, moved) == [w EXCEPT !.at = "readback", !.failed = failed, !.moved = moved]
  <2>2. ASSUME NEW failed \in BOOLEAN, NEW moved \in BOOLEAN, csHead' \in CsCommits,
               csCalls' = [csCalls EXCEPT ![c] = Left(failed, moved)],
               Ancestor(csHead, csHead'), moved => csHead' = Pushed(w.target)
        PROVE  SyncInv' /\ HistoryIsKept
    <3>1. PICK v : v = Left(failed, moved)
      OBVIOUS
    <3>2. /\ v \in CsStarted /\ v.at = "readback" /\ v.moved = moved /\ v.observed = w.observed
          /\ v.kind = w.kind /\ v.started = w.started /\ v.target = w.target
      BY <2>1, <3>1 DEF CsStarted
    <3>3. moved => w.target <= csHead'.remote
      BY <2>1, <2>2 DEF CsStarted, Pushed
    <3>4. SyncFits(v)'
      BY <2>1, <3>2, <3>3 DEF SyncFits
    <3>5. csRemote' = csRemote
      BY <1>4 DEF Merge
    <3> QED BY <2>2, <3>1, <3>2, <3>4, <3>5, CallMoves
  <2>3. Pushed(w.target) \in CsCommits
    BY <2>1 DEF CsStarted, CsCommits, Pushed
  <2>4. \/ \E failed \in BOOLEAN : /\ Ancestor(csHead, Pushed(w.target)) /\ csHead' = Pushed(w.target)
                                   /\ csCalls' = [csCalls EXCEPT ![c] = Left(failed, csHead # Pushed(w.target))]
        \/ csHead' = csHead /\ csCalls' = [csCalls EXCEPT ![c] = Left(TRUE, FALSE)]
    BY <1>4, <2>1 DEF Merge, Go
  <2> HIDE DEF Left
  <2>5. (csHead # Pushed(w.target)) \in BOOLEAN
    OBVIOUS
  <2> QED BY <1>h, <1>t, <2>2, <2>3, <2>4, <2>5
<1>5. ASSUME NEW c \in CsCalls, Readback(c) PROVE SyncInv' /\ HistoryIsKept
  <2>1. PICK w : w = csCalls[c] /\ w \in CsStarted /\ SyncFits(w) /\ w.at = "readback"
    BY <1>5, <1>r DEF Readback
  <2>2. /\ UNCHANGED <<csHead, csRemote>>
        /\ \/ Answers(c, "applied") /\ csHead = Pushed(w.target)
           \/ Answers(c, "not_sent") /\ csHead = w.observed
           \/ Answers(c, "unknown")
    BY <1>5, <2>1 DEF Readback
  <2>3. csHead = w.observed => ~w.moved
    BY <2>1 DEF SyncFits, CsStarted, CsCommits
  <2> QED BY <1>a, <2>1, <2>2, <2>3
<1>6. ASSUME NEW c \in CsCalls, Dies(c) \/ Forget(c) PROVE SyncInv' /\ HistoryIsKept
  <2>1. csCalls' = [csCalls EXCEPT ![c] = [at |-> "idle"]] /\ UNCHANGED <<csHead, csRemote>>
    BY <1>6 DEF Dies, Forget, Go
  <2> QED BY <1>h, <1>t, <2>1, CallMoves
<1>7. ASSUME UNCHANGED csCalls, csRemote' \in Nat, csHead' \in CsCommits, Ancestor(csHead, csHead')
      PROVE SyncInv' /\ HistoryIsKept
  <2>1. \A c \in CsCalls : csCalls[c].at # "idle" => SyncFits(csCalls[c])'
    BY <1>7, SyncStands
  <2> QED BY <1>7, <1>t, <2>1 DEF SyncInv, SyncTyped
<1>8. CASE GuardCleared \/ RemoteMoves \/ UNCHANGED csVars
  <2>1. csRemote' \in Nat /\ UNCHANGED <<csHead, csCalls>>
    BY <1>8, <1>t, SyncConstants DEF SyncConstants, GuardCleared, RemoteMoves, csVars, SyncTyped
  <2> QED BY <1>h, <1>t, <1>7, <2>1
<1>9. CASE Edited
  <2>1. csHead' \in CsCommits /\ Ancestor(csHead, csHead')
    <3>1. [csHead EXCEPT !.local = TRUE] \in CsCommits
      BY <1>t DEF CsCommits
    <3>2. Ancestor(csHead, [csHead EXCEPT !.local = TRUE])
      <4>1. csHead.local => csHead = [csHead EXCEPT !.local = TRUE]
        BY <1>t DEF CsCommits
      <4>2. csHead.remote <= [csHead EXCEPT !.local = TRUE].remote
        BY <1>t DEF CsCommits
      <4> QED BY <4>1, <4>2 DEF Ancestor
    <3> QED BY <1>9, <1>t, <1>h, <3>1, <3>2 DEF Edited
  <2> QED BY <1>9, <1>t, <1>7, <2>1 DEF Edited, SyncTyped
<1> QED BY <1>1, <1>2, <1>3, <1>4, <1>5, <1>6, <1>8, <1>9 DEF CsNext

\* The Coordinator's checkout, for any number of calls and any length of the remote's
\* history (coordinator_sync.py sync, handoff, _sync_locked): no call takes a commit out of
\* the checkout's history, and every answer is true of it, through timeouts, deaths, edits and
\* commits made under the call.
THEOREM SyncStaysSound == CsSpec => SyncIsSound
<1>1. SyncInv /\ [CsNext]_csVars => SyncInv' /\ [HistoryIsKept]_csVars
  BY SyncStep
<1>2. ASSUME SyncInv PROVE SyncAnswerIsTrue
  <2>1. ASSUME NEW c \in CsCalls, csCalls[c].at = "done", Ready(c)
        PROVE  Ancestor(csCalls[c].started, csHead)
    <3>1. csCalls[c] \in CsStarted /\ SyncFits(csCalls[c]) /\ csHead \in CsCommits
      BY <1>2, <2>1 DEF SyncInv, SyncTyped
    <3>2. /\ csCalls[c].read = Pushed(csCalls[c].target) /\ csCalls[c].target <= csHead.remote
          /\ ~csCalls[c].started.local
      BY <3>1, <2>1 DEF SyncFits, Ready
    <3>3. csCalls[c].started.remote <= csCalls[c].target
      BY <3>1, <3>2, <2>1 DEF Ready, Ancestor, Pushed, CsStarted, CsCommits
    <3> QED BY <3>1, <3>2, <3>3 DEF Ancestor, CsStarted, CsCommits
  <2> QED BY <1>2, <2>1 DEF SyncInv, SyncFits, SyncAnswerIsTrue
<1>3. SyncInv => SyncAnswerIsTrue
  BY <1>2
<1> QED BY SyncStarts, <1>1, <1>3, PTL DEF CsSpec, SyncIsSound

-----------------------------------------------------------------------------
(* EdgeMonitor.                                                             *)

MonConditions == {"transport", "oauth", "functional", "shared_ingress", "missing_capability",
                  "provider", "healthy"}
MonEvents == [kind : MonConditions, created : Nat, delivered : BOOLEAN]
MonCycles == [at : {"idle", "acquire", "observe", "complete"}, owner : Nat, cursor : Nat,
              next : Nat, condition : MonConditions \cup {"none"}, observed : Nat]

MonitorTyped ==
  /\ monClock \in Nat /\ monTaken \in Nat
  /\ monLog \in Seq(BOOLEAN)
  /\ monStore \in [cursor : Nat, condition : MonConditions \cup {"none"}, streak : Nat,
                   lease : [owner : Nat, expires : Nat]]
  /\ monOutbox \in Seq(MonEvents)
  /\ monRun \in [Monitors -> MonCycles]
  /\ monHistory \in Seq(MonConditions)

\* A cycle past its acquisition has a lease number of its own time, and as long as the
\* lease is still its own, nobody has moved the cursor past what it is about to store.
CycleFits(c) ==
  /\ c.at \in {"observe", "complete"} => c.owner \in 1..monTaken
  /\ c.at = "complete" => /\ c.condition # "none"
                          /\ monStore.lease.owner = c.owner => monStore.cursor <= c.next
                          /\ c.next <= Len(monLog)

\* A healthy streak was begun by the cycle completed last.
StreakIsEarned ==
  monStore.streak > 0 => Len(monHistory) > 0 /\ monHistory[Len(monHistory)] = "healthy"

MonitorInv ==
  /\ MonitorTyped /\ EventsAreTransitions /\ StreakIsEarned
  /\ monStore.cursor <= Len(monLog)
  /\ \A p \in Monitors : CycleFits(monRun[p])

MonitorMoves == CursorNeverGoesBack /\ RecoveryIsConfirmed

\* Nothing is known at first.
LEMMA MonitorStarts == MonInit => MonitorInv
<1> SUFFICES ASSUME MonInit PROVE MonitorInv
  OBVIOUS
<1> USE DEF MonInit
<1>1. MonitorTyped
  BY DEF MonitorTyped, NoCycle, MonCycles, NoMonLease
<1>2. EventsAreTransitions
  BY DEF EventsAreTransitions
<1>3. \A p \in Monitors : CycleFits(monRun[p])
  BY DEF CycleFits, NoCycle
<1> QED BY <1>1, <1>2, <1>3 DEF MonitorInv, StreakIsEarned

\* Classification always names a condition.
LEMMA ClassifyTyped == \A batch, o : Classify(batch, o) \in MonConditions
BY DEF Classify, MonConditions

\* What complete_cycle stores, read with the events told so far.
LEMMA ConfirmedFits ==
  ASSUME NEW s, s.condition \in MonConditions \cup {"none"}, s.streak \in Nat,
         NEW condition \in MonConditions, NEW n, n = Confirmed(s, condition)
  PROVE  /\ n.condition \in MonConditions /\ n.streak \in Nat /\ n.emit \in BOOLEAN
         /\ n.streak > 0 => condition = "healthy"
         /\ n.emit => n.condition = condition /\ condition # s.condition
         /\ n.emit /\ condition = "healthy" => s.streak > 0
         /\ ~n.emit => \/ n.condition = s.condition
                       \/ s.condition \in {"none", "healthy"} /\ n.condition = "healthy"
<1>1. CASE condition # "healthy"
  <2>1. CASE condition = s.condition
    <3>1. n = [condition |-> condition, streak |-> 0, emit |-> FALSE]
      BY <1>1, <2>1 DEF Confirmed
    <3>2. n.condition = condition /\ n.streak = 0 /\ n.emit \in BOOLEAN /\ ~n.emit
      BY <3>1
    <3> QED BY <1>1, <2>1, <3>2
  <2>2. CASE condition # s.condition
    <3>1. n = [condition |-> condition, streak |-> 0, emit |-> TRUE]
      BY <1>1, <2>2 DEF Confirmed
    <3> QED BY <1>1, <2>2, <3>1
  <2> QED BY <2>1, <2>2
<1>2. CASE condition = "healthy" /\ s.condition \in {"none", "healthy"}
  BY <1>2 DEF Confirmed, MonConditions
<1>3. CASE condition = "healthy" /\ s.condition \notin {"none", "healthy"} /\ s.streak + 1 >= 2
  BY <1>3 DEF Confirmed, MonConditions
<1>4. CASE condition = "healthy" /\ s.condition \notin {"none", "healthy"} /\ ~(s.streak + 1 >= 2)
  BY <1>4 DEF Confirmed, MonConditions
<1> QED BY <1>1, <1>2, <1>3, <1>4

\* complete_cycle, the only step that tells anything.
LEMMA CompleteKeeps ==
  ASSUME MonitorInv, NEW p \in Monitors, CycleComplete(p)
  PROVE  MonitorInv' /\ MonitorMoves
<1>t. MonitorTyped /\ EventsAreTransitions /\ StreakIsEarned
  BY DEF MonitorInv
<1>1. PICK c, new : /\ c = monRun[p] /\ c \in MonCycles /\ c.at = "complete" /\ CycleFits(c)
                    /\ new = NewState(monStore, c.condition)
  BY DEF MonitorInv, MonitorTyped, CycleComplete
<1>2. /\ monStore.lease.owner = c.owner
      /\ monStore' = [cursor |-> c.next, condition |-> new.condition, streak |-> new.streak,
                      lease |-> NoMonLease]
      /\ monOutbox' = IF new.emit
                      THEN Append(monOutbox, [kind |-> c.condition, created |-> c.observed,
                                              delivered |-> FALSE])
                      ELSE monOutbox
      /\ monHistory' = Append(monHistory, c.condition)
      /\ monRun' = [monRun EXCEPT ![p] = NoCycle]
      /\ UNCHANGED <<monClock, monLog, monTaken>>
  BY <1>1 DEF CycleComplete, LeaseHeld
<1>3. c.condition \in MonConditions /\ c.next \in Nat /\ monStore.cursor <= c.next /\ c.next <= Len(monLog)
  BY <1>1, <1>2 DEF CycleFits, MonCycles
<1>4. /\ new.condition \in MonConditions /\ new.streak \in Nat /\ new.emit \in BOOLEAN
      /\ new.streak > 0 => c.condition = "healthy"
      /\ new.emit => new.condition = c.condition /\ c.condition # monStore.condition
      /\ new.emit /\ c.condition = "healthy" => monStore.streak > 0
      /\ ~new.emit => \/ new.condition = monStore.condition
                      \/ monStore.condition \in {"none", "healthy"} /\ new.condition = "healthy"
  <2>1. monStore.condition \in MonConditions \cup {"none"} /\ monStore.streak \in Nat
    BY <1>t DEF MonitorTyped
  <2>2. new = Confirmed(monStore, c.condition)
    BY <1>1 DEF NewState
  <2> QED BY <1>3, <2>1, <2>2, ConfirmedFits
<1>e. PICK e \in MonEvents : e = [kind |-> c.condition, created |-> c.observed, delivered |-> FALSE]
                             /\ e.kind = c.condition
  <2>1. c.observed \in Nat
    BY <1>1 DEF MonCycles
  <2>2. [kind |-> c.condition, created |-> c.observed, delivered |-> FALSE] \in MonEvents
    BY <1>3, <2>1 DEF MonEvents
  <2> QED BY <2>2
<1>5. MonitorTyped'
  <2>1. monOutbox' \in Seq(MonEvents) /\ monHistory' \in Seq(MonConditions)
    BY <1>t, <1>2, <1>3, <1>4, <1>e DEF MonitorTyped
  <2>2. monRun' \in [Monitors -> MonCycles]
    BY <1>t, <1>2 DEF MonitorTyped, MonCycles, NoCycle
  <2>3. monStore' \in [cursor : Nat, condition : MonConditions \cup {"none"}, streak : Nat,
                       lease : [owner : Nat, expires : Nat]]
    BY <1>2, <1>3, <1>4 DEF NoMonLease
  <2> QED BY <1>t, <1>2, <2>1, <2>2, <2>3 DEF MonitorTyped
<1>6. StreakIsEarned'
  BY <1>t, <1>2, <1>3, <1>4 DEF StreakIsEarned, MonitorTyped
<1>o. /\ monOutbox \in Seq(MonEvents) /\ Len(monOutbox) \in Nat
      /\ monOutbox # <<>> => Len(monOutbox) > 0 /\ monOutbox[Len(monOutbox)].kind \in MonConditions
  <2>1. monOutbox \in Seq(MonEvents) /\ Len(monOutbox) \in Nat
    BY <1>t DEF MonitorTyped
  <2>2. ASSUME monOutbox # <<>>
        PROVE Len(monOutbox) > 0 /\ monOutbox[Len(monOutbox)].kind \in MonConditions
    <3>1. Len(monOutbox) \in 1..Len(monOutbox)
      BY <2>1, <2>2
    <3>2. monOutbox[Len(monOutbox)] \in MonEvents
      BY <2>1, <3>1
    <3> QED BY <3>1, <3>2 DEF MonEvents
  <2> QED BY <2>1, <2>2
<1>7. EventsAreTransitions'
  <2>1. CASE new.emit
    <3>1. monOutbox' = Append(monOutbox, e) /\ monStore'.condition = c.condition
      BY <1>2, <1>4, <1>e, <2>1
    <3>2. /\ Len(monOutbox') = Len(monOutbox) + 1
          /\ monOutbox'[Len(monOutbox) + 1] = e
          /\ \A i \in 1..Len(monOutbox) : monOutbox'[i] = monOutbox[i]
          /\ monOutbox' # <<>>
      BY <1>o, <3>1
    <3>3. ASSUME NEW i \in 1..Len(monOutbox) PROVE monOutbox'[i].kind # monOutbox'[i + 1].kind
      <4>1. CASE i = Len(monOutbox)
        <5>1. monOutbox # <<>>
          BY <1>o, <4>1
        <5>2. monOutbox[i].kind = monStore.condition
          BY <1>t, <4>1, <5>1 DEF EventsAreTransitions
        <5> QED BY <1>4, <1>e, <2>1, <3>2, <4>1, <5>2
      <4>2. CASE i # Len(monOutbox)
        <5>1. i \in 1..(Len(monOutbox) - 1) /\ i + 1 \in 1..Len(monOutbox)
          BY <1>o, <4>2
        <5> QED BY <1>t, <3>2, <5>1 DEF EventsAreTransitions
      <4> QED BY <4>1, <4>2
    <3>4. Len(monOutbox') - 1 = Len(monOutbox)
      BY <1>o, <3>2
    <3> QED BY <3>1, <3>2, <3>3, <3>4, <1>e DEF EventsAreTransitions
  <2>2. CASE ~new.emit
    <3>1. monOutbox' = monOutbox /\ monStore'.condition = new.condition
      BY <1>2, <2>2
    <3>2. CASE monOutbox = <<>>
      BY <1>t, <1>4, <2>2, <3>1, <3>2 DEF EventsAreTransitions
    <3>3. CASE monOutbox # <<>>
      <4>1. monStore.condition = monOutbox[Len(monOutbox)].kind /\ monStore.condition # "none"
        BY <1>t, <1>o, <3>3 DEF EventsAreTransitions, MonConditions
      <4>2. new.condition = monStore.condition
        BY <1>4, <2>2, <4>1
      <4> QED BY <1>t, <3>1, <3>3, <4>1, <4>2 DEF EventsAreTransitions
    <3> QED BY <3>2, <3>3
  <2> QED BY <1>4, <2>1, <2>2
<1>8. ASSUME NEW q \in Monitors PROVE CycleFits(monRun[q])'
  <2>1. CASE q = p
    BY <1>t, <1>2, <2>1 DEF CycleFits, NoCycle, MonitorTyped
  <2>2. CASE q # p
    <3>1. monRun'[q] = monRun[q] /\ CycleFits(monRun[q])
      BY <1>t, <1>2, <2>2 DEF MonitorInv, MonitorTyped
    <3>2. monStore'.lease.owner = 0
      BY <1>2 DEF NoMonLease
    <3> QED BY <1>t, <1>2, <3>1, <3>2 DEF CycleFits, MonitorTyped
  <2> QED BY <2>1, <2>2
<1>9. CursorNeverGoesBack
  BY <1>t, <1>2, <1>3 DEF CursorNeverGoesBack, MonitorTyped
<1>10. RecoveryIsConfirmed
  <2> SUFFICES ASSUME Len(monOutbox') > Len(monOutbox), monOutbox'[Len(monOutbox')].kind = "healthy"
               PROVE  monStore.streak > 0
    BY <1>t DEF RecoveryIsConfirmed, StreakIsEarned
  <2>1. new.emit /\ monOutbox' = Append(monOutbox, e)
    BY <1>o, <1>2, <1>4, <1>e
  <2>2. monOutbox'[Len(monOutbox')] = e
    BY <1>o, <2>1
  <2> QED BY <1>4, <1>e, <2>1, <2>2
<1>11. monStore'.cursor <= Len(monLog)'
  BY <1>2, <1>3
<1> QED BY <1>5, <1>6, <1>7, <1>8, <1>9, <1>10, <1>11 DEF MonitorInv, MonitorMoves

\* A step that tells nothing: the stored condition, streak and cursor stay.
LEMMA QuietStep ==
  ASSUME MonitorInv, MonitorTyped', UNCHANGED <<monOutbox, monHistory>>,
         monStore'.cursor = monStore.cursor, monStore'.condition = monStore.condition,
         monStore'.streak = monStore.streak, Len(monLog') >= Len(monLog),
         \A p \in Monitors : CycleFits(monRun[p])'
  PROVE  MonitorInv' /\ MonitorMoves
<1>1. MonitorTyped
  BY DEF MonitorInv
<1>2. EventsAreTransitions' /\ StreakIsEarned'
  BY DEF MonitorInv, EventsAreTransitions, StreakIsEarned
<1>3. CursorNeverGoesBack
  BY <1>1 DEF CursorNeverGoesBack, MonitorTyped
<1>4. RecoveryIsConfirmed
  BY <1>1 DEF RecoveryIsConfirmed, MonitorTyped
<1>5. monStore'.cursor <= Len(monLog)'
  BY <1>1 DEF MonitorInv, MonitorTyped
<1> QED BY <1>2, <1>3, <1>4, <1>5 DEF MonitorInv, MonitorMoves

\* The other steps tell nothing.
LEMMA MonitorStep ==
  ASSUME MonitorInv, [MonNext]_monVars
  PROVE  MonitorInv' /\ [MonitorMoves]_monVars
<1>t. MonitorTyped /\ monStore.cursor <= Len(monLog) /\ \A p \in Monitors : CycleFits(monRun[p])
  BY DEF MonitorInv
<1> DEFINE Good == MonitorInv' /\ MonitorMoves
<1>k. ASSUME monTaken' >= monTaken, Len(monLog') >= Len(monLog), monTaken' \in Nat, monLog' \in Seq(BOOLEAN),
             monStore'.cursor = monStore.cursor,
             NEW p \in Monitors, monRun'[p] = monRun[p],
             monStore'.lease.owner \in {monStore.lease.owner, 0, monTaken + 1}
      PROVE  CycleFits(monRun[p])'
  BY <1>t, <1>k DEF CycleFits, MonitorTyped, MonCycles
<1>1. ASSUME Tick PROVE Good
  <2> USE <1>1 DEF Tick
  <2>1. MonitorTyped'
    BY <1>t DEF MonitorTyped
  <2>2. \A p \in Monitors : CycleFits(monRun[p])'
    BY <1>t, <1>k DEF MonitorTyped
  <2> QED BY <1>t, <2>1, <2>2, QuietStep DEF MonitorTyped
<1>2. ASSUME NEW marker \in BOOLEAN, ServiceLogs(marker) PROVE Good
  <2> USE <1>2 DEF ServiceLogs
  <2>0. monLog' \in Seq(BOOLEAN) /\ Len(monLog') >= Len(monLog)
    BY <1>t DEF MonitorTyped
  <2>1. MonitorTyped'
    BY <1>t, <2>0 DEF MonitorTyped
  <2>2. \A p \in Monitors : CycleFits(monRun[p])'
    BY <1>t, <1>k, <2>0 DEF MonitorTyped
  <2> QED BY <1>t, <2>0, <2>1, <2>2, QuietStep DEF MonitorTyped
<1>3. ASSUME NEW p \in Monitors, CycleBegin(p) PROVE Good
  <2> USE <1>3 DEF CycleBegin
  <2>1. MonitorTyped'
    BY <1>t DEF MonitorTyped, NoCycle, MonCycles
  <2>2. ASSUME NEW q \in Monitors PROVE CycleFits(monRun[q])'
    <3>1. CASE q = p
      BY <1>t, <3>1 DEF MonitorTyped, CycleFits, NoCycle
    <3> QED BY <1>t, <1>k, <3>1 DEF MonitorTyped
  <2> QED BY <1>t, <2>1, <2>2, QuietStep DEF MonitorTyped
<1>d. ASSUME NEW p \in Monitors, monRun' = [monRun EXCEPT ![p] = NoCycle],
             UNCHANGED <<monClock, monLog, monOutbox, monTaken, monHistory>>,
             \/ monStore' = monStore
             \/ monStore' = [monStore EXCEPT !.lease = NoMonLease]
      PROVE  Good
  <2>0. /\ monStore'.cursor = monStore.cursor /\ monStore'.condition = monStore.condition
        /\ monStore'.streak = monStore.streak
        /\ monStore'.lease.owner \in {monStore.lease.owner, 0}
    BY <1>t, <1>d DEF MonitorTyped, NoMonLease
  <2>1. MonitorTyped'
    <3>1. monRun' \in [Monitors -> MonCycles]
      BY <1>t, <1>d DEF MonitorTyped, NoCycle, MonCycles
    <3>2. monStore' \in [cursor : Nat, condition : MonConditions \cup {"none"}, streak : Nat,
                         lease : [owner : Nat, expires : Nat]]
      <4>1. NoMonLease \in [owner : Nat, expires : Nat]
        BY DEF NoMonLease
      <4> QED BY <1>t, <1>d, <4>1 DEF MonitorTyped
    <3> QED BY <1>t, <1>d, <3>1, <3>2 DEF MonitorTyped
  <2>2. ASSUME NEW q \in Monitors PROVE CycleFits(monRun[q])'
    <3>1. CASE q = p
      BY <1>t, <1>d, <3>1 DEF MonitorTyped, CycleFits, NoCycle
    <3> QED BY <1>t, <1>d, <1>k, <2>0, <3>1 DEF MonitorTyped
  <2> QED BY <1>t, <1>d, <2>0, <2>1, <2>2, QuietStep DEF MonitorTyped
<1>4. ASSUME NEW p \in Monitors, CycleAcquire(p) PROVE Good
  <2>1. CASE LeaseBusy \/ monTaken = MaxCycles
    BY <1>4, <1>d, <2>1 DEF CycleAcquire
  <2>2. CASE ~(LeaseBusy \/ monTaken = MaxCycles)
    <3> DEFINE lease == [owner |-> monTaken + 1, expires |-> monClock + MonLease]
               v == [monRun[p] EXCEPT !.at = "observe", !.owner = monTaken + 1, !.cursor = monStore.cursor]
    <3>1. /\ monTaken' = monTaken + 1
          /\ monStore' = [monStore EXCEPT !.lease = lease]
          /\ monRun' = [monRun EXCEPT ![p] = v]
          /\ UNCHANGED <<monClock, monLog, monOutbox, monHistory>>
      BY <1>4, <1>t, <2>2 DEF CycleAcquire, MonitorTyped
    <3>2. lease \in [owner : Nat, expires : Nat]
      BY <1>t, MonitorConstants DEF MonitorConstants, MonitorTyped
    <3>3. v \in MonCycles /\ v.at = "observe" /\ v.owner = monTaken + 1
      <4>1. monRun[p] \in MonCycles /\ monTaken + 1 \in Nat /\ monStore.cursor \in Nat
        BY <1>t DEF MonitorTyped
      <4> QED BY <4>1 DEF MonCycles
    <3>0. /\ monStore'.cursor = monStore.cursor /\ monStore'.condition = monStore.condition
          /\ monStore'.streak = monStore.streak
          /\ monStore'.lease.owner = monTaken + 1
      BY <1>t, <3>1 DEF MonitorTyped
    <3> HIDE DEF lease, v
    <3>4. MonitorTyped'
      <4>1. monRun' \in [Monitors -> MonCycles] /\ monTaken' \in Nat
        BY <1>t, <3>1, <3>3 DEF MonitorTyped
      <4>2. monStore' \in [cursor : Nat, condition : MonConditions \cup {"none"}, streak : Nat,
                           lease : [owner : Nat, expires : Nat]]
        BY <1>t, <3>1, <3>2 DEF MonitorTyped
      <4> QED BY <1>t, <3>1, <4>1, <4>2 DEF MonitorTyped
    <3>5. ASSUME NEW q \in Monitors PROVE CycleFits(monRun[q])'
      <4>1. CASE q = p
        <5>1. monRun'[q] = v
          BY <1>t, <3>1, <4>1 DEF MonitorTyped
        <5> QED BY <1>t, <3>1, <3>3, <5>1 DEF MonitorTyped, CycleFits
      <4> QED BY <1>t, <1>k, <3>1, <3>0, <4>1 DEF MonitorTyped
    <3> QED BY <1>t, <3>0, <3>1, <3>4, <3>5, QuietStep DEF MonitorTyped
  <2> QED BY <2>1, <2>2
<1>5. ASSUME NEW p \in Monitors, NEW o \in MonObservations, CycleObserve(p, o) PROVE Good
  <2> USE <1>5 DEF CycleObserve
  <2>c. Classify(Batch(monRun[p].cursor), o) \in MonConditions
    BY ClassifyTyped
  <2> DEFINE v == [monRun[p] EXCEPT !.at = "complete", !.next = Len(monLog),
                              !.condition = Classify(Batch(monRun[p].cursor), o)]
  <2>1. monRun' = [monRun EXCEPT ![p] = v]
    BY <1>t DEF MonitorTyped
  <2>2. /\ v \in MonCycles /\ v.at = "complete" /\ v.owner = monRun[p].owner
        /\ v.next = Len(monLog) /\ v.condition \in MonConditions
    <3>1. monRun[p] \in MonCycles /\ Len(monLog) \in Nat
      BY <1>t DEF MonitorTyped
    <3>2. PICK d \in MonConditions : d = Classify(Batch(monRun[p].cursor), o)
      BY <2>c
    <3>3. v = [monRun[p] EXCEPT !.at = "complete", !.next = Len(monLog), !.condition = d]
      BY <3>2
    <3> HIDE DEF v
    <3> QED BY <3>1, <3>2, <3>3 DEF MonCycles
  <2> HIDE DEF v
  <2>3. MonitorTyped'
    <3>1. UNCHANGED <<monClock, monTaken, monLog, monStore, monOutbox, monHistory>>
      OBVIOUS
    <3> HIDE <1>5
    <3>2. monRun' \in [Monitors -> MonCycles]
      BY <1>t, <2>1, <2>2 DEF MonitorTyped
    <3> QED BY <1>t, <3>1, <3>2 DEF MonitorTyped
  <2>4. ASSUME NEW q \in Monitors PROVE CycleFits(monRun[q])'
    <3>1. CASE q = p
      <4>1. monRun'[q] = v
        BY <1>t, <2>1, <3>1 DEF MonitorTyped
      <4>2. v.condition # "none" /\ Len(monLog) \in Nat
        BY <1>t, <2>2 DEF MonConditions, MonitorTyped
      <4>3. monRun[p].owner \in 1..monTaken
        BY <1>t DEF CycleFits
      <4>4. UNCHANGED <<monStore, monTaken, monLog>>
        OBVIOUS
      <4> HIDE <1>5
      <4>5. monStore.cursor <= v.next /\ v.next <= Len(monLog) /\ v.owner \in 1..monTaken
        BY <1>t, <2>2, <4>2, <4>3
      <4> QED BY <2>2, <4>1, <4>2, <4>4, <4>5 DEF CycleFits
    <3> QED BY <1>t, <1>k, <2>1, <3>1 DEF MonitorTyped
  <2> QED BY <1>t, <2>3, <2>4, QuietStep DEF MonitorTyped
<1>6. ASSUME NEW p \in Monitors, CycleAbandon(p) PROVE Good
  <2>1. \/ monStore' = [monStore EXCEPT !.lease = NoMonLease]
        \/ monStore' = [monStore EXCEPT !.lease = monStore.lease]
    BY <1>6 DEF CycleAbandon
  <2>2. [monStore EXCEPT !.lease = monStore.lease] = monStore
    BY <1>t DEF MonitorTyped
  <2> QED BY <1>6, <1>d, <2>1, <2>2 DEF CycleAbandon
<1>7. ASSUME NEW p \in Monitors, CycleDies(p) PROVE Good
  BY <1>7, <1>d DEF CycleDies
<1>8. ASSUME NEW i, Deliver(i) PROVE Good
  <2> USE <1>8 DEF Deliver
  <2>0. i \in 1..Len(monOutbox) /\ monOutbox[i] \in MonEvents
    BY <1>t DEF MonitorTyped
  <2> DEFINE v == [monOutbox[i] EXCEPT !.delivered = TRUE]
  <2>1. v \in MonEvents /\ v.kind = monOutbox[i].kind /\ monOutbox' = [monOutbox EXCEPT ![i] = v]
    BY <2>0 DEF MonEvents
  <2> HIDE DEF v
  <2>2. /\ monOutbox' \in Seq(MonEvents) /\ Len(monOutbox') = Len(monOutbox)
        /\ \A j \in 1..Len(monOutbox) : monOutbox'[j] = IF j = i THEN v ELSE monOutbox[j]
    <3>1. monOutbox \in Seq(MonEvents)
      BY <1>t DEF MonitorTyped
    <3> HIDE <1>8
    <3> QED BY <3>1, <2>0, <2>1, ExceptSeq
  <2>3. \A j \in 1..Len(monOutbox) : monOutbox'[j].kind = monOutbox[j].kind
    BY <2>1, <2>2
  <2>4. MonitorTyped'
    BY <1>t, <2>2 DEF MonitorTyped
  <2>5. EventsAreTransitions'
    <3>1. monOutbox # <<>> /\ monOutbox' # <<>> /\ Len(monOutbox) \in 1..Len(monOutbox)
      BY <1>t, <2>0, <2>2 DEF MonitorTyped
    <3>2. \A j \in 1..(Len(monOutbox) - 1) : j \in 1..Len(monOutbox) /\ j + 1 \in 1..Len(monOutbox)
      BY <3>1
    <3> QED BY <2>2, <2>3, <3>1, <3>2 DEF MonitorInv, EventsAreTransitions
  <2>6. \A p \in Monitors : CycleFits(monRun[p])'
    BY <1>t, <1>k DEF MonitorTyped
  <2>7. CursorNeverGoesBack /\ RecoveryIsConfirmed
    BY <1>t, <2>2 DEF CursorNeverGoesBack, RecoveryIsConfirmed, MonitorTyped
  <2> QED BY <2>4, <2>5, <2>6, <2>7 DEF MonitorInv, StreakIsEarned, MonitorMoves
<1>9. ASSUME UNCHANGED monVars PROVE Good
  <2> USE <1>9 DEF monVars
  <2>1. MonitorTyped'
    BY <1>t DEF MonitorTyped
  <2>2. \A p \in Monitors : CycleFits(monRun[p])'
    BY <1>t, <1>k DEF MonitorTyped
  <2> QED BY <1>t, <2>1, <2>2, QuietStep DEF MonitorTyped
<1>10. ASSUME NEW p \in Monitors, CycleComplete(p) PROVE Good
  BY <1>10, CompleteKeeps
<1> HIDE DEF Good
<1>11. CASE MonNext
  <2>1. Good
    BY <1>11, <1>1, <1>2, <1>3, <1>4, <1>5, <1>6, <1>7, <1>8, <1>10 DEF MonNext
  <2> QED BY <2>1 DEF Good
<1> QED BY <1>9, <1>11 DEF Good

\* The edge's monitor, for any number of overlapping cycles, any lease and any journal
\* (edge_monitor.py run_once, wakeful.py acquire_cycle, complete_cycle, abandon_cycle): the
\* outbox stays a list of transitions that ends in the stored condition, the cursor never
\* goes back, and recovery is announced only by the second healthy cycle in a row.
THEOREM MonitorStaysSound == MonSpec => MonitorIsSound
<1>1. MonitorInv /\ [MonNext]_monVars => MonitorInv' /\ [MonitorMoves]_monVars
  BY MonitorStep
<1>2. MonitorInv => EventsAreTransitions
  BY DEF MonitorInv
<1>3. MonitorMoves => CursorNeverGoesBack /\ RecoveryIsConfirmed
  BY DEF MonitorMoves
<1> QED BY MonitorStarts, <1>1, <1>2, <1>3, PTL DEF MonSpec, MonitorIsSound

-----------------------------------------------------------------------------
(* EdgeDeploy.                                                              *)

DeployPlaces == {"idle", "prepare", "record", "backup", "stop", "apply", "swap", "restart",
                 "smoke", "rbStop", "rbDatabase", "rbLauncher", "rbRestart"}

\* What a run in progress relies on: where the way back leads, by the place it has reached.
\* d is the run, s the site and a the attempt directory.
DeployFits(d, s, a) ==
  /\ d.backup.taken => d.mode = "full"
  /\ d.at # "idle" /\ d.mode # "full" => s.db.schema = d.pre.db.schema
  /\ d.at \in {"prepare", "record", "backup", "stop", "rbLauncher", "rbRestart"} =>
       s.db.schema = d.pre.db.schema
  /\ d.at = "prepare" => s.launcher = d.pre.launcher /\ (d.mode = "code" => s.launcher = "old")
  /\ d.at \notin {"idle", "prepare"} => a.before = IF d.mode = "return" THEN "old" ELSE d.pre.launcher
  /\ d.at = "record" => d.mode = "code" /\ a.before = "old"
  /\ d.at \in {"prepare", "swap", "restart", "smoke"} => d.mode # "return"
  /\ d.at \in {"backup", "stop", "apply"} => d.mode = "full"
  /\ d.at \in {"stop", "apply", "swap", "restart", "smoke", "rbStop", "rbDatabase"} /\ d.mode = "full" =>
       d.backup.taken /\ d.backup.db.schema = d.pre.db.schema
  /\ d.at = "rbRestart" => s.launcher = a.before

DeployInv ==
  /\ DeployTypeOK
  /\ attempt.record => attempt.before = "old"
  /\ DeployFits(deployer, site, attempt)

DeployMoves == RollbackRestoresThePreimage /\ CodeOnlyKeepsWrites

\* A run that is over relies on nothing.
LEMMA DeployIdleFits ==
  ASSUME NEW s, NEW t, NEW a, s \in Sites, DeployConstants
  PROVE  /\ DeployIdle(s) \in Deployers /\ DeployIdle(s).at = "idle"
         /\ DeployFits(DeployIdle(s), t, a)
<1>1. NoBackup \in [taken : BOOLEAN, db : Databases] /\ NoBackup.taken = FALSE
  BY DEF NoBackup, Databases, DeployConstants
<1>2. DeployIdle(s) \in Deployers
  BY <1>1 DEF DeployIdle, Deployers
<1>3. /\ DeployIdle(s).at = "idle" /\ DeployIdle(s).mode = "full" /\ DeployIdle(s).backup = NoBackup
  BY DEF DeployIdle
<1> QED BY <1>1, <1>2, <1>3 DEF DeployFits

\* A run that goes on changes only its place.
LEMMA AtDeployFields ==
  ASSUME DeployTypeOK, NEW at \in DeployPlaces, NEW d, d = AtDeploy(at)
  PROVE  /\ d \in Deployers /\ d.at = at /\ d.mode = deployer.mode /\ d.cutover = deployer.cutover
         /\ d.backup = deployer.backup /\ d.pre = deployer.pre
BY DEF DeployTypeOK, AtDeploy, Deployers, DeployPlaces

\* Nothing is deployed at first.
LEMMA DeployStarts == DeployInit => DeployInv
<1> SUFFICES ASSUME DeployInit PROVE DeployInv
  OBVIOUS
<1>1. [schema |-> "before", writes |-> 0] \in Databases
  BY DeployConstants DEF DeployConstants, Databases
<1>2. site \in Sites
  BY <1>1 DEF DeployInit, Sites, Launchers
<1>3. attempt \in Attempts /\ ~attempt.record
  BY DEF DeployInit, Attempts
<1> QED BY <1>2, <1>3, DeployIdleFits, DeployConstants DEF DeployInit, DeployInv, DeployTypeOK

\* A step that ends the run, whatever it leaves of the site.
LEMMA DeployEnds ==
  ASSUME DeployInv, site' \in Sites, attempt' \in Attempts, attempt'.record => attempt'.before = "old",
         deployer' = DeployIdle(site)
  PROVE  DeployInv'
<1>1. DeployIdle(site) \in Deployers /\ DeployFits(DeployIdle(site), site', attempt')
  BY DeployIdleFits, DeployConstants DEF DeployInv, DeployTypeOK
<1> QED BY <1>1 DEF DeployInv, DeployTypeOK

\* A step that goes on, or turns to the rollback.
LEMMA DeployGoesOn ==
  ASSUME DeployInv, site' \in Sites, attempt' \in Attempts, attempt'.record => attempt'.before = "old",
         deployer' \in Deployers, DeployFits(deployer', site', attempt')
  PROVE  DeployInv'
BY DEF DeployInv, DeployTypeOK

\* run's except clause after the cutover.
LEMMA DeployFailing ==
  ASSUME DeployInv, NEW cutover \in BOOLEAN, DeployFails(cutover),
         deployer.at \in {"stop", "apply", "swap", "restart", "smoke"},
         site' \in Sites, attempt' = attempt,
         deployer.mode # "full" => site'.db.schema = site.db.schema
  PROVE  DeployInv'
<1>1. CASE ~cutover
  BY <1>1, DeployEnds DEF DeployFails, DeployInv, DeployTypeOK
<1>2. CASE cutover
  <2>1. deployer' = [deployer EXCEPT !.at = "rbStop", !.cutover = TRUE]
    BY <1>2 DEF DeployFails
  <2>2. /\ deployer' \in Deployers /\ deployer'.at = "rbStop" /\ deployer'.mode = deployer.mode
        /\ deployer'.backup = deployer.backup /\ deployer'.pre = deployer.pre
    BY <2>1 DEF DeployInv, DeployTypeOK, Deployers
  <2>3. DeployFits(deployer', site', attempt')
    BY <2>2 DEF DeployInv, DeployFits
  <2> QED BY <2>2, <2>3, DeployGoesOn DEF DeployInv, DeployTypeOK
<1> QED BY <1>1, <1>2

\* The fields a step of the site keeps.
LEMMA SiteFields ==
  ASSUME site \in Sites, DeployConstants
  PROVE  /\ \A v \in Launchers \cup {"down"} :
              LET t == [site EXCEPT !.service = v] IN
              t \in Sites /\ t.service = v /\ t.launcher = site.launcher /\ t.db = site.db
         /\ \A v \in Launchers :
              LET t == [site EXCEPT !.launcher = v] IN
              t \in Sites /\ t.service = site.service /\ t.launcher = v /\ t.db = site.db
         /\ \A v \in Databases :
              LET t == [site EXCEPT !.db = v] IN
              t \in Sites /\ t.service = site.service /\ t.launcher = site.launcher /\ t.db = v
BY DEF Sites

\* A change of the schema leaves the rest of the site as it is.
LEMMA SchemaFields ==
  ASSUME site \in Sites
  PROVE  LET t == [site EXCEPT !.db.schema = "after"] IN
         t \in Sites /\ t.launcher = site.launcher /\ t.db.writes = site.db.writes
<1>1. [site.db EXCEPT !.schema = "after"] \in Databases
      /\ [site.db EXCEPT !.schema = "after"].writes = site.db.writes
  BY DEF Sites, Databases
<1>2. [site EXCEPT !.db.schema = "after"] = [site EXCEPT !.db = [site.db EXCEPT !.schema = "after"]]
  BY DEF Sites
<1> QED BY <1>1, <1>2 DEF Sites

\* Every step keeps the invariant, takes writes back only from a backup of its own, and
\* ends a rollback where its run began.
LEMMA DeployStepKeeps ==
  ASSUME DeployInv, [DeployNext]_deployVars
  PROVE  DeployInv' /\ [DeployMoves]_deployVars
<1> USE DeployConstants
<1>t. /\ DeployTypeOK /\ DeployFits(deployer, site, attempt)
      /\ attempt.record => attempt.before = "old"
      /\ site \in Sites /\ attempt \in Attempts /\ deployer \in Deployers
  BY DEF DeployInv, DeployTypeOK
<1>w. site.db \in Databases /\ site.db.writes \in Nat /\ site.launcher \in Launchers
  BY <1>t DEF Sites, Databases, DeployConstants
<1> DEFINE Good == DeployInv' /\ DeployMoves
<1>q. ASSUME site'.db.writes >= site.db.writes, site'.db.writes \in Nat,
             deployer.at # "rbRestart" \/ deployer'.at # "idle"
      PROVE  DeployMoves
  BY <1>q, <1>w DEF DeployMoves, RollbackRestoresThePreimage, CodeOnlyKeepsWrites
<1>i. DeployIdle(site).at = "idle"
  BY DEF DeployIdle
<1>1. ASSUME EdgeWrites PROVE Good
  <2>1. /\ site'.db.schema = site.db.schema /\ site'.db.writes = site.db.writes + 1
        /\ site'.launcher = site.launcher /\ site' \in Sites
    <3>1. PICK db : db = [site.db EXCEPT !.writes = @ + 1]
      OBVIOUS
    <3>2. db \in Databases /\ db.schema = site.db.schema /\ db.writes = site.db.writes + 1
      BY <1>1, <1>w, <3>1 DEF EdgeWrites, Databases
    <3>3. site' = [site EXCEPT !.db = db]
      BY <1>1, <1>t, <3>1 DEF EdgeWrites, Sites
    <3> QED BY <1>t, <3>2, <3>3 DEF Sites
  <2>2. UNCHANGED <<attempt, deployer>>
    BY <1>1 DEF EdgeWrites
  <2>3. DeployFits(deployer', site', attempt')
    BY <1>t, <2>1, <2>2 DEF DeployFits
  <2>4. DeployInv'
    BY <1>t, <2>1, <2>2, <2>3, DeployGoesOn
  <2>5. DeployMoves
    BY <1>w, <2>1, <2>2 DEF DeployMoves, RollbackRestoresThePreimage, CodeOnlyKeepsWrites
  <2> QED BY <2>4, <2>5
<1>2. ASSUME NEW mode \in {"full", "code"}, DeployBegin(mode) PROVE Good
  <2>1. PICK d : d = [DeployIdle(site) EXCEPT !.at = "prepare", !.mode = mode]
    OBVIOUS
  <2>2. d \in Deployers /\ d.at = "prepare" /\ d.mode = mode /\ d.backup = NoBackup /\ d.pre = site
    <3>1. DeployIdle(site) \in Deployers /\ DeployIdle(site).backup = NoBackup /\ DeployIdle(site).pre = site
      <4>1. DeployIdle(site) \in Deployers
        BY <1>t, DeployIdleFits
      <4> QED BY <4>1 DEF DeployIdle
    <3> QED BY <2>1, <3>1 DEF Deployers
  <2>3. deployer' = d /\ UNCHANGED <<site, attempt>> /\ deployer.at = "idle"
        /\ (mode = "code" => site.launcher = "old")
    BY <1>2, <2>1 DEF DeployBegin
  <2>4. DeployFits(d, site, attempt)
    BY <2>2, <2>3 DEF DeployFits, NoBackup
  <2> QED BY <1>q, <1>t, <1>w, <2>2, <2>3, <2>4, DeployGoesOn
<1>3. ASSUME DeployPrepare PROVE Good
  <2>0. site' = site /\ deployer.at = "prepare"
    BY <1>3 DEF DeployPrepare
  <2>1. CASE UNCHANGED attempt /\ deployer' = DeployIdle(site)
    BY <1>q, <1>t, <1>w, <2>0, <2>1, DeployEnds
  <2>2. CASE /\ ~attempt.record /\ attempt' = [attempt EXCEPT !.before = site.launcher]
             /\ deployer' \in {AtDeploy(IF deployer.mode = "code" THEN "record" ELSE "backup"),
                               DeployIdle(site)}
    <3>1. attempt' \in Attempts /\ attempt'.before = site.launcher /\ attempt'.record = attempt.record
      BY <1>t, <1>w, <2>2 DEF Attempts, Launchers
    <3>2. CASE deployer' = DeployIdle(site)
      BY <1>q, <1>t, <1>w, <2>0, <2>2, <3>1, <3>2, DeployEnds
    <3>3. CASE deployer' = AtDeploy("record") /\ deployer.mode = "code"
      <4>1. /\ deployer' \in Deployers /\ deployer'.at = "record" /\ deployer'.mode = "code"
            /\ deployer'.backup = deployer.backup /\ deployer'.pre = deployer.pre
        BY <1>t, <3>3, AtDeployFields DEF DeployPlaces
      <4>a. /\ site.launcher = "old" /\ deployer.pre.launcher = "old" /\ attempt'.before = "old"
            /\ site.db.schema = deployer.pre.db.schema /\ ~deployer.backup.taken
        <5>1. deployer.backup.taken \in BOOLEAN
          BY <1>t DEF Deployers
        <5> QED BY <1>t, <2>0, <3>1, <3>3, <5>1 DEF DeployFits
      <4>b. DeployFits(deployer', site', attempt') <=> DeployFits(deployer', site, attempt')
        BY <2>0
      <4>2. DeployFits(deployer', site', attempt')
        BY <4>1, <4>a, <4>b DEF DeployFits
      <4> QED BY <1>q, <1>t, <1>w, <2>0, <2>2, <3>1, <4>1, <4>2, DeployGoesOn
    <3>4. CASE deployer' = AtDeploy("backup") /\ deployer.mode # "code"
      <4>1. /\ deployer' \in Deployers /\ deployer'.at = "backup" /\ deployer'.mode = deployer.mode
            /\ deployer'.backup = deployer.backup /\ deployer'.pre = deployer.pre
        BY <1>t, <3>4, AtDeployFields DEF DeployPlaces
      <4>2. deployer.mode = "full"
        BY <1>t, <2>0, <3>4 DEF DeployFits, Deployers
      <4>3. DeployFits(deployer', site', attempt')
        BY <1>t, <2>0, <3>1, <4>1, <4>2 DEF DeployFits
      <4> QED BY <1>q, <1>t, <1>w, <2>0, <2>2, <3>1, <4>1, <4>3, DeployGoesOn
    <3> QED BY <2>2, <3>2, <3>3, <3>4
  <2> QED BY <1>3, <2>1, <2>2 DEF DeployPrepare
<1>4. ASSUME DeployRecord PROVE Good
  <2>0. site' = site /\ deployer.at = "record"
    BY <1>4 DEF DeployRecord
  <2>1. attempt' \in Attempts /\ attempt'.before = attempt.before /\ attempt'.before = "old"
    <3>1. [attempt EXCEPT !.record = TRUE] \in Attempts
          /\ [attempt EXCEPT !.record = TRUE].before = attempt.before
      BY <1>t DEF Attempts
    <3> QED BY <1>4, <1>t, <2>0, <3>1 DEF DeployRecord, DeployFits
  <2>2. CASE deployer' = DeployIdle(site)
    BY <1>q, <1>t, <1>w, <2>0, <2>1, <2>2, DeployEnds
  <2>3. CASE deployer' = [AtDeploy("swap") EXCEPT !.cutover = TRUE]
    <3>1. /\ deployer' \in Deployers /\ deployer'.at = "swap" /\ deployer'.mode = deployer.mode
          /\ deployer'.backup = deployer.backup /\ deployer'.pre = deployer.pre
      BY <1>t, <2>3 DEF AtDeploy, Deployers
    <3>2. DeployFits(deployer', site', attempt')
      BY <1>t, <2>0, <2>1, <3>1 DEF DeployFits
    <3> QED BY <1>q, <1>t, <1>w, <2>0, <2>1, <3>1, <3>2, DeployGoesOn
  <2> QED BY <1>4, <2>2, <2>3 DEF DeployRecord
<1>5. ASSUME DeployBackup PROVE Good
  <2>0. UNCHANGED <<site, attempt>> /\ deployer.at = "backup"
    BY <1>5 DEF DeployBackup
  <2>2. CASE deployer' = DeployIdle(site)
    BY <1>q, <1>t, <1>w, <2>0, <2>2, DeployEnds
  <2>3. CASE deployer' = [AtDeploy("stop") EXCEPT !.backup = [taken |-> TRUE, db |-> site.db]]
    <3>0. [taken |-> TRUE, db |-> site.db] \in [taken : BOOLEAN, db : Databases]
      BY <1>w
    <3>1. /\ deployer' \in Deployers /\ deployer'.at = "stop" /\ deployer'.mode = deployer.mode
          /\ deployer'.backup = [taken |-> TRUE, db |-> site.db] /\ deployer'.pre = deployer.pre
      BY <1>t, <2>3, <3>0 DEF AtDeploy, Deployers
    <3>2. DeployFits(deployer', site', attempt')
      BY <1>t, <2>0, <3>1 DEF DeployFits
    <3> QED BY <1>q, <1>t, <1>w, <2>0, <3>1, <3>2, DeployGoesOn
  <2> QED BY <1>5, <2>2, <2>3 DEF DeployBackup
<1>6. ASSUME DeployStop PROVE Good
  <2>0. /\ attempt' = attempt /\ deployer.at = "stop"
        /\ site' \in Sites /\ site'.db = site.db
    <3>1. PICK down : down = [site EXCEPT !.service = "down"]
      OBVIOUS
    <3>2. down \in Sites /\ down.db = site.db
      BY <1>t, <3>1, SiteFields
    <3> QED BY <1>6, <1>t, <3>1, <3>2 DEF DeployStop
  <2>1. CASE deployer' = DeployIdle(site)
    BY <1>q, <1>t, <1>w, <2>0, <2>1, DeployEnds
  <2>2. CASE DeployFails(TRUE)
    <3>1. DeployInv'
      BY <2>0, <2>2, DeployFailing
    <3>2. DeployMoves
      BY <1>q, <1>w, <2>0
    <3> QED BY <3>1, <3>2
  <2>3. CASE deployer' = [AtDeploy("apply") EXCEPT !.cutover = TRUE]
    <3>1. /\ deployer' \in Deployers /\ deployer'.at = "apply" /\ deployer'.mode = deployer.mode
          /\ deployer'.backup = deployer.backup /\ deployer'.pre = deployer.pre
      BY <1>t, <2>3 DEF AtDeploy, Deployers
    <3>2. DeployFits(deployer', site', attempt')
      BY <1>t, <2>0, <3>1 DEF DeployFits
    <3> QED BY <1>q, <1>t, <1>w, <2>0, <3>1, <3>2, DeployGoesOn
  <2> QED BY <1>6, <2>1, <2>2, <2>3 DEF DeployStop
<1>s. ASSUME NEW from \in {"apply", "swap", "restart"}, NEW done \in Sites, NEW to \in {"swap", "restart", "smoke"},
             done.db.writes = site.db.writes, deployer.mode # "full" => done.db.schema = site.db.schema,
             DeployStep(from, done, to)
      PROVE  Good
  <2>0. /\ attempt' = attempt /\ deployer.at = from /\ site' \in {site, done} /\ site' \in Sites
        /\ site'.db.writes = site.db.writes
    BY <1>s, <1>t DEF DeployStep
  <2>1. CASE deployer' = DeployIdle(site)
    BY <1>q, <1>t, <1>w, <2>0, <2>1, DeployEnds
  <2>2. CASE DeployFails(deployer.cutover)
    <3>1. deployer.cutover \in BOOLEAN
      BY <1>t DEF Deployers
    <3> QED BY <1>q, <1>s, <1>t, <1>w, <2>0, <2>2, <3>1, DeployFailing
  <2>3. CASE deployer' = AtDeploy(to)
    <3>1. /\ deployer' \in Deployers /\ deployer'.at = to /\ deployer'.mode = deployer.mode
          /\ deployer'.backup = deployer.backup /\ deployer'.pre = deployer.pre
      BY <1>t, <2>3, AtDeployFields DEF DeployPlaces
    <3>2. DeployFits(deployer', site', attempt')
      BY <1>s, <1>t, <2>0, <3>1 DEF DeployFits
    <3> QED BY <1>q, <1>t, <1>w, <2>0, <3>1, <3>2, DeployGoesOn
  <2> QED BY <1>s, <2>1, <2>2, <2>3 DEF DeployStep
<1>7. ASSUME DeployApply PROVE Good
  <2>1. deployer.mode = "full"
    BY <1>7, <1>t DEF DeployApply, DeployStep, DeployFits
  <2> QED BY <1>7, <1>s, <1>t, <2>1, SchemaFields DEF DeployApply
<1>8. ASSUME DeploySwap \/ DeployRestart PROVE Good
  <2>1. CASE DeploySwap
    BY <1>s, <1>t, <2>1, SiteFields DEF DeploySwap, Launchers
  <2>2. CASE DeployRestart
    BY <1>s, <1>t, <1>w, <2>2, SiteFields DEF DeployRestart
  <2> QED BY <1>8, <2>1, <2>2
<1>9. ASSUME DeploySmoke PROVE Good
  <2>0. UNCHANGED <<site, attempt>> /\ deployer.at = "smoke" /\ deployer.cutover \in BOOLEAN
    BY <1>9, <1>t DEF DeploySmoke, Deployers
  <2>1. CASE deployer' = DeployIdle(site)
    BY <1>q, <1>t, <1>w, <2>0, <2>1, DeployEnds
  <2>2. CASE DeployFails(deployer.cutover)
    BY <1>q, <1>t, <1>w, <2>0, <2>2, DeployFailing
  <2> QED BY <1>9, <2>1, <2>2 DEF DeploySmoke
<1>u. ASSUME NEW from \in {"rbStop", "rbDatabase", "rbLauncher"}, NEW done \in Sites,
             NEW to \in {"rbDatabase", "rbLauncher", "rbRestart"}, UndoStep(from, done, to),
             done.db.writes < site.db.writes => deployer.mode = "full" /\ deployer.backup.taken,
             DeployFits([deployer EXCEPT !.at = to], done, attempt)
      PROVE  Good
  <2>0. attempt' = attempt /\ deployer.at = from /\ site' \in {site, done} /\ site' \in Sites
    BY <1>u, <1>t DEF UndoStep
  <2>1. DeployInv'
    <3>1. CASE deployer' = DeployIdle(site)
      BY <1>t, <2>0, <3>1, DeployEnds
    <3>2. CASE site' = done /\ deployer' = AtDeploy(to)
      <4>1. deployer' \in Deployers
        BY <1>t, <3>2, AtDeployFields DEF DeployPlaces
      <4>2. DeployFits(deployer', site', attempt')
        BY <1>u, <2>0, <3>2 DEF AtDeploy
      <4> QED BY <1>t, <2>0, <4>1, <4>2, DeployGoesOn
    <3> QED BY <1>u, <3>1, <3>2 DEF UndoStep
  <2>2. DeployMoves
    BY <1>u, <1>w, <2>0 DEF DeployMoves, RollbackRestoresThePreimage, CodeOnlyKeepsWrites
  <2> QED BY <2>1, <2>2
<1>f. ASSUME NEW to \in DeployPlaces
      PROVE  LET d == [deployer EXCEPT !.at = to] IN
             d.at = to /\ d.mode = deployer.mode /\ d.backup = deployer.backup /\ d.pre = deployer.pre
  BY <1>t, AtDeployFields DEF AtDeploy
<1>10. ASSUME DeployRollbackStop PROVE Good
  <2>1. PICK done : done = [site EXCEPT !.service = "down"]
    OBVIOUS
  <2>2. done \in Sites /\ done.db = site.db /\ done.launcher = site.launcher
    BY <1>t, <2>1, SiteFields
  <2>3. deployer.at = "rbStop" /\ UndoStep("rbStop", done, "rbDatabase")
    BY <1>10, <2>1 DEF DeployRollbackStop, UndoStep
  <2>4. DeployFits([deployer EXCEPT !.at = "rbDatabase"], done, attempt)
    BY <1>f, <1>t, <2>2, <2>3 DEF DeployFits, DeployPlaces
  <2> QED BY <1>u, <1>w, <2>2, <2>3, <2>4
<1>11. ASSUME DeployRestoreDatabase PROVE Good
  <2>1. PICK done : done = [site EXCEPT !.db = Restored]
    OBVIOUS
  <2>0. deployer.backup \in [taken : BOOLEAN, db : Databases]
    BY <1>t DEF Deployers
  <2>a. Restored \in Databases
    BY <1>w, <2>0 DEF Restored
  <2>2. done \in Sites /\ done.db = Restored /\ done.launcher = site.launcher
    BY <1>t, <2>a, <2>1, SiteFields
  <2>3. deployer.at = "rbDatabase" /\ UndoStep("rbDatabase", done, "rbLauncher")
    BY <1>11, <2>1 DEF DeployRestoreDatabase, UndoStep
  <2>4. Restored.schema = deployer.pre.db.schema
    BY <1>t, <2>3 DEF DeployFits, Restored
  <2>5. DeployFits([deployer EXCEPT !.at = "rbLauncher"], done, attempt)
    BY <1>f, <1>t, <2>2, <2>3, <2>4 DEF DeployFits, DeployPlaces
  <2>6. done.db.writes < site.db.writes => deployer.mode = "full" /\ deployer.backup.taken
    BY <1>t, <1>w, <2>2 DEF Restored, DeployFits
  <2> QED BY <1>u, <2>2, <2>3, <2>5, <2>6
<1>12. ASSUME DeployRestoreLauncher PROVE Good
  <2>1. PICK done : done = [site EXCEPT !.launcher = attempt.before]
    OBVIOUS
  <2>3. deployer.at = "rbLauncher" /\ UndoStep("rbLauncher", done, "rbRestart")
    BY <1>12, <2>1 DEF DeployRestoreLauncher, UndoStep
  <2>a. attempt.before \in Launchers
    BY <1>t, <2>3 DEF DeployFits, Deployers, Sites, Launchers
  <2>2. done \in Sites /\ done.db = site.db /\ done.launcher = attempt.before
    BY <1>t, <2>a, <2>1, SiteFields
  <2>5. DeployFits([deployer EXCEPT !.at = "rbRestart"], done, attempt)
    BY <1>f, <1>t, <2>2, <2>3 DEF DeployFits, DeployPlaces
  <2> QED BY <1>u, <1>w, <2>2, <2>3, <2>5
<1>13. ASSUME DeployRollbackEnds PROVE Good
  <2>0. /\ attempt' = attempt /\ deployer.at = "rbRestart"
        /\ site' \in {site, [site EXCEPT !.service = site.launcher]}
        /\ deployer' \in {AtDeploy("idle"), DeployIdle(site)}
    BY <1>13 DEF DeployRollbackEnds, UndoStep
  <2>1. site' \in Sites /\ site'.db = site.db /\ site'.launcher = site.launcher
    <3>1. PICK up : up = [site EXCEPT !.service = site.launcher]
      OBVIOUS
    <3>2. up \in Sites /\ up.db = site.db /\ up.launcher = site.launcher
      BY <1>t, <1>w, <3>1, SiteFields
    <3> QED BY <1>t, <2>0, <3>1, <3>2
  <2>2. DeployInv'
    <3>1. CASE deployer' = DeployIdle(site)
      BY <1>t, <2>0, <2>1, <3>1, DeployEnds
    <3>2. CASE deployer' = AtDeploy("idle")
      <4>1. /\ deployer' \in Deployers /\ deployer'.at = "idle" /\ deployer'.mode = deployer.mode
            /\ deployer'.backup = deployer.backup
        BY <1>t, <3>2, AtDeployFields DEF DeployPlaces
      <4>2. DeployFits(deployer', site', attempt')
        BY <1>t, <4>1 DEF DeployFits
      <4> QED BY <1>t, <2>0, <2>1, <4>1, <4>2, DeployGoesOn
    <3> QED BY <2>0, <3>1, <3>2
  <2>3. /\ site.launcher = IF deployer.mode = "return" THEN "old" ELSE deployer.pre.launcher
        /\ site.db.schema = deployer.pre.db.schema
    BY <1>t, <2>0 DEF DeployFits
  <2>4. DeployMoves
    BY <1>w, <2>1, <2>3 DEF DeployMoves, RollbackRestoresThePreimage, CodeOnlyKeepsWrites
  <2> QED BY <2>2, <2>4
<1>14. ASSUME DeployReturn PROVE Good
  <2>0. UNCHANGED <<site, attempt>> /\ deployer.at = "idle" /\ attempt.record
    BY <1>14 DEF DeployReturn
  <2>1. deployer' = [DeployIdle(site) EXCEPT !.at = "rbStop", !.mode = "return", !.cutover = TRUE]
    BY <1>14 DEF DeployReturn
  <2>2. DeployIdle(site) \in Deployers /\ DeployIdle(site).backup = NoBackup /\ DeployIdle(site).pre = site
    <3>1. DeployIdle(site) \in Deployers
      BY <1>t, DeployIdleFits
    <3> QED BY <3>1 DEF DeployIdle
  <2>3. /\ deployer' \in Deployers /\ deployer'.at = "rbStop" /\ deployer'.mode = "return"
        /\ deployer'.backup = NoBackup /\ deployer'.pre = site
    BY <2>1, <2>2 DEF Deployers
  <2>4. DeployFits(deployer', site', attempt')
    BY <1>t, <2>0, <2>3 DEF DeployFits, NoBackup
  <2> QED BY <1>q, <1>t, <1>w, <2>0, <2>3, <2>4, DeployGoesOn
<1> HIDE DEF Good
<1>15. CASE DeployNext
  <2>1. Good
    BY <1>15, <1>1, <1>2, <1>3, <1>4, <1>5, <1>6, <1>7, <1>8, <1>9, <1>10, <1>11, <1>12, <1>13, <1>14
       DEF DeployNext
  <2> QED BY <2>1 DEF Good
<1>16. CASE UNCHANGED deployVars
  BY <1>16 DEF deployVars, DeployInv, DeployTypeOK
<1> QED BY <1>15, <1>16

\* The one-command deployment, for any number of writes under it (edge_deploy.py
\* Deployer.run, rollback, rollback_code_only): killed or failing anywhere, a rollback that
\* ends leads back to what the run found, and only a full run that restores its own backup
\* takes writes back.
THEOREM DeploymentStaysReversible == DeploySpec => DeploymentIsReversible
<1>1. DeployInv /\ [DeployNext]_deployVars => DeployInv' /\ [DeployMoves]_deployVars
  BY DeployStepKeeps
<1>2. DeployInv => DeployTypeOK
  BY DEF DeployInv
<1>3. DeployMoves => RollbackRestoresThePreimage /\ CodeOnlyKeepsWrites
  BY DEF DeployMoves
<1> QED BY DeployStarts, <1>1, <1>2, <1>3, PTL DEF DeploySpec, DeploymentIsReversible

-----------------------------------------------------------------------------
(* AgentLeases.                                                             *)

LeaseStates == {"none", "reserved", "refused", "execution_active", "abandoned", "completed", "cancelled"}
LeaseRecords == [state : LeaseStates, parent : Workers \cup {TheRoot}, children : Nat, boot : Nat, expired : BOOLEAN]
LaunchSteps == {"idle", "reserved", "prepared", "attached", "claimed", "waiting", "finished", "recording",
                "unproven", "done"}
UnitStates == {"absent", "starting", "running", "lingering", "ended", "gone"}
ReceiptStates == {"none", "starting", "not_started", "unknown", "ended"}

\* Values of the broker's state.
LeaseTypes ==
  /\ alLeases \in [Workers -> LeaseRecords]
  /\ alReceipts \in [Workers -> ReceiptStates]
  /\ alUnits \in [Workers -> UnitStates]
  /\ alLaunchers \in [Workers -> LaunchSteps]
  /\ alBoot \in Nat

\* A launcher and what it has done: a unit exists only once it was started, under an attached
\* lease; a receipt that says nothing was started is the last word on the attempt.
LauncherFits(w) ==
  /\ alLaunchers[w] \in {"idle", "reserved", "prepared", "attached", "claimed"} => alUnits[w] = "absent"
  /\ alLeases[w].state = "none" => alLaunchers[w] = "idle"
  /\ alLaunchers[w] \in {"attached", "claimed"} => alLeases[w].state = "execution_active"
  /\ alReceipts[w] = "not_started" => alLaunchers[w] = "done" /\ alUnits[w] = "absent"

\* What a recovery has read is still true when it acts on it.
RecoveryFits ==
  \/ alRecovery = NoRecovery
  \/ /\ alRecovery.kind = "reservation" /\ alRecovery.worker \in Workers
  \/ /\ alRecovery.kind = "execution" /\ alRecovery.worker \in Workers
     /\ alRecovery.receipt # "starting" => alReceipts[alRecovery.worker] = "not_started"
     /\ alRecovery.proof.empty => alUnits[alRecovery.worker] \in {"ended", "gone"}

\* The inductive invariant of the broker.
LeaseInv ==
  /\ LeaseTypes
  /\ \A w \in Workers : LauncherFits(w)
  /\ RecoveryFits
  /\ RunningUnitHoldsLease
  /\ ChildrenHaveActiveParents
  /\ \A p \in Workers \cup {TheRoot} : IsFiniteSet(UnitsOf(p))
  /\ NoOvercommit

\* The budget's part of it.
BudgetInv ==
  /\ ChildrenHaveActiveParents
  /\ \A p \in Workers \cup {TheRoot} : IsFiniteSet(UnitsOf(p))
  /\ NoOvercommit

\* Leases that end, or stay as they were, take nothing.
LEMMA UnitsShrink ==
  ASSUME NEW p,
         \A v \in Workers : Active(v)' => /\ Active(v) /\ alLeases'[v].parent = alLeases[v].parent
                                          /\ alLeases'[v].children = alLeases[v].children
  PROVE  UnitsOf(p)' \subseteq UnitsOf(p)
<1> SUFFICES ASSUME NEW u \in UnitsOf(p)' PROVE u \in UnitsOf(p)
  OBVIOUS
<1>1. PICK w \in Workers : Active(w)' /\ alLeases'[w].parent = p /\ u \in {w} \X (1..(Own + alLeases'[w].children))
  BY DEF UnitsOf, ChildrenOf, Total
<1>2. w \in ChildrenOf(p) /\ u \in {w} \X (1..Total(w))
  BY <1>1 DEF ChildrenOf, Total
<1> QED BY <1>2 DEF UnitsOf

\* A step in which leases end or keep what they hold keeps the budget, provided that those
\* that end have nobody below them.
LEMMA BudgetKept ==
  ASSUME LeaseTypes, BudgetInv,
         \A v \in Workers : Active(v)' => /\ Active(v) /\ alLeases'[v].parent = alLeases[v].parent
                                          /\ alLeases'[v].children = alLeases[v].children,
         \A v \in Workers : Active(v) /\ ~Active(v)' => Childless(v)
  PROVE  BudgetInv'
<1>1. \A p : UnitsOf(p)' \subseteq UnitsOf(p)
  BY UnitsShrink
<1>2. \A p \in Workers \cup {TheRoot} :
        /\ IsFiniteSet(UnitsOf(p)') /\ Cardinality(UnitsOf(p)') <= Cardinality(UnitsOf(p))
        /\ Cardinality(UnitsOf(p)') \in Nat /\ Cardinality(UnitsOf(p)) \in Nat
  <2> SUFFICES ASSUME NEW p \in Workers \cup {TheRoot}
               PROVE  /\ IsFiniteSet(UnitsOf(p)') /\ Cardinality(UnitsOf(p)') <= Cardinality(UnitsOf(p))
                      /\ Cardinality(UnitsOf(p)') \in Nat /\ Cardinality(UnitsOf(p)) \in Nat
    OBVIOUS
  <2>1. IsFiniteSet(UnitsOf(p)) /\ UnitsOf(p)' \in SUBSET UnitsOf(p)
    BY <1>1 DEF BudgetInv
  <2>2. IsFiniteSet(UnitsOf(p)') /\ Cardinality(UnitsOf(p)') <= Cardinality(UnitsOf(p))
    BY <2>1, FS_Subset
  <2> QED BY <2>1, <2>2, FS_CardinalityType
<1>3. ChildrenHaveActiveParents'
  <2> SUFFICES ASSUME NEW w \in Workers, Active(w)', alLeases'[w].parent # TheRoot
               PROVE  Active(alLeases[w].parent)' /\ alLeases'[w].parent = alLeases[w].parent
    BY DEF ChildrenHaveActiveParents
  <2>1. /\ Active(w) /\ alLeases'[w].parent = alLeases[w].parent /\ Active(alLeases[w].parent)
        /\ alLeases[w].parent \in Workers
    BY DEF BudgetInv, ChildrenHaveActiveParents, LeaseTypes, LeaseRecords
  <2>2. w \in ChildrenOf(alLeases[w].parent)
    BY <2>1 DEF ChildrenOf
  <2> QED BY <2>1, <2>2 DEF Childless
<1>4. NoOvercommit'
  <2> SUFFICES ASSUME NEW p \in Workers \cup {TheRoot}, p = TheRoot \/ Active(p)' PROVE UsedBy(p)' <= Limit(p)'
    BY DEF NoOvercommit
  <2>0. (p = TheRoot \/ Active(p)) => Cardinality(UnitsOf(p)) <= Limit(p)
    BY DEF BudgetInv, NoOvercommit, UsedBy
  <2>1. CASE p = TheRoot
    <3>1. Limit(p)' = RootBudget /\ Limit(p) = RootBudget /\ RootBudget \in Nat
      BY <2>1, LeaseConstants DEF Limit, LeaseConstants
    <3> QED BY <1>2, <2>0, <2>1, <3>1 DEF UsedBy
  <2>2. CASE p # TheRoot
    <3>1. p \in Workers /\ Limit(p)' = alLeases'[p].children /\ Limit(p) = alLeases[p].children
      BY <2>2 DEF Limit
    <3>2. Active(p) /\ alLeases'[p].children = alLeases[p].children /\ alLeases[p].children \in Nat
      BY <2>2, <3>1 DEF LeaseTypes, LeaseRecords
    <3>3. Cardinality(UnitsOf(p)) <= Limit(p)
      BY <2>0, <3>2
    <3> QED BY <1>2, <3>1, <3>2, <3>3 DEF UsedBy
  <2> QED BY <2>1, <2>2
<1> QED BY <1>2, <1>3, <1>4 DEF BudgetInv

\* A reservation that fits is added below its parent.
LEMMA BudgetTaken ==
  ASSUME LeaseTypes, BudgetInv, NEW w \in Workers, NEW p \in (Workers \ {w}) \cup {TheRoot}, NEW share \in Nat,
         alLeases[w].state = "none", p = TheRoot \/ Active(p), Fits(p, share),
         NEW l, l.state = "reserved", l.parent = p, l.children = share,
         alLeases' = [alLeases EXCEPT ![w] = l]
  PROVE  BudgetInv'
<1>t. /\ \A v \in Workers : alLeases'[v] = IF v = w THEN l ELSE alLeases[v]
      /\ w # p /\ TheRoot \notin Workers /\ RootBudget \in Nat
      /\ \A v \in Workers : alLeases[v].children \in Nat /\ alLeases[v].parent \in Workers \cup {TheRoot}
  BY LeaseConstants DEF LeaseTypes, LeaseRecords, LeaseConstants
<1>a. /\ Active(w)' /\ ~Active(w) /\ \A v \in Workers \ {w} : Active(v)' <=> Active(v)
  BY <1>t DEF Active
<1>b. \A v \in Workers : Active(v) => alLeases[v].parent # w
  BY <1>a, <1>t DEF BudgetInv, ChildrenHaveActiveParents
<1>c. \A v \in Workers : Active(v)' => alLeases'[v].parent # w
  BY <1>a, <1>b, <1>t
<1>1. \A q \in Workers \cup {TheRoot} : q # p => ChildrenOf(q)' = ChildrenOf(q)
  BY <1>a, <1>t DEF ChildrenOf
<1>2. ChildrenOf(p)' = ChildrenOf(p) \cup {w} /\ w \notin ChildrenOf(p)
  BY <1>a, <1>t DEF ChildrenOf
<1>3. \A v \in Workers \ {w} : Total(v)' = Total(v)
  BY <1>t DEF Total
<1>4. Total(w)' = Own + share
  BY <1>t DEF Total
<1> DEFINE Mine == {w} \X (1..(Own + share))
<1>5. \A q \in Workers \cup {TheRoot} : q # p => UnitsOf(q)' = UnitsOf(q)
  <2> SUFFICES ASSUME NEW q \in Workers \cup {TheRoot}, q # p PROVE UnitsOf(q)' = UnitsOf(q)
    OBVIOUS
  <2>1. ChildrenOf(q)' = ChildrenOf(q) /\ \A v \in ChildrenOf(q) : v \in Workers \ {w}
    BY <1>1, <1>a DEF ChildrenOf
  <2>2. \A u : u \in UnitsOf(q)' <=> \E v \in ChildrenOf(q)' : u \in {v} \X (1..Total(v)')
    BY DEF UnitsOf
  <2>3. \A u : u \in UnitsOf(q) <=> \E v \in ChildrenOf(q) : u \in {v} \X (1..Total(v))
    BY DEF UnitsOf
  <2> QED BY <1>3, <2>1, <2>2, <2>3
<1>6. UnitsOf(p)' = UnitsOf(p) \cup Mine /\ UnitsOf(p) \cap Mine = {}
  <2>1. \A v \in ChildrenOf(p) : v \in Workers \ {w}
    BY <1>a DEF ChildrenOf
  <2>2. \A u : u \in UnitsOf(p)' <=> \E v \in ChildrenOf(p)' : u \in {v} \X (1..Total(v)')
    BY DEF UnitsOf
  <2>3. \A u : u \in UnitsOf(p) <=> \E v \in ChildrenOf(p) : u \in {v} \X (1..Total(v))
    BY DEF UnitsOf
  <2>4. \A u : u \in UnitsOf(p)' <=> u \in UnitsOf(p) \/ u \in Mine
    BY <1>2, <1>3, <1>4, <2>1, <2>2, <2>3
  <2>5. \A u : ~(u \in UnitsOf(p) /\ u \in Mine)
    BY <2>1, <2>3
  <2> QED BY <2>4, <2>5
<1>7. IsFiniteSet(Mine) /\ Cardinality(Mine) = Own + share
  <2>1. IsFiniteSet(1..(Own + share)) /\ Cardinality(1..(Own + share)) = Own + share
    BY FS_Interval DEF Own
  <2>2. IsFiniteSet({w}) /\ Cardinality({w}) = 1
    BY FS_Singleton
  <2>3. IsFiniteSet(Mine) /\ Cardinality(Mine) = Cardinality({w}) * Cardinality(1..(Own + share))
    BY <2>1, <2>2, FS_Product
  <2> QED BY <2>1, <2>2, <2>3 DEF Own
<1> HIDE DEF Mine
<1>8. /\ IsFiniteSet(UnitsOf(p)') /\ Cardinality(UnitsOf(p)') = Cardinality(UnitsOf(p)) + (Own + share)
      /\ Cardinality(UnitsOf(p)) \in Nat
  <2>1. IsFiniteSet(UnitsOf(p))
    BY DEF BudgetInv
  <2>2. /\ IsFiniteSet(UnitsOf(p) \cup Mine)
        /\ Cardinality(UnitsOf(p) \cup Mine) = Cardinality(UnitsOf(p)) + Cardinality(Mine) - Cardinality(UnitsOf(p) \cap Mine)
    BY <1>7, <2>1, FS_Union
  <2>3. Cardinality(UnitsOf(p) \cap Mine) = 0
    BY <1>6, FS_EmptySet
  <2>4. Cardinality(UnitsOf(p)) \in Nat
    BY <2>1, FS_CardinalityType
  <2> QED BY <1>6, <1>7, <2>2, <2>3, <2>4 DEF Own
<1>9. \A q \in Workers \cup {TheRoot} : IsFiniteSet(UnitsOf(q)')
  BY <1>5, <1>8 DEF BudgetInv
<1>10. ChildrenHaveActiveParents'
  <2> SUFFICES ASSUME NEW v \in Workers, Active(v)', alLeases'[v].parent # TheRoot
               PROVE  Active(alLeases[v].parent)'
    BY DEF ChildrenHaveActiveParents
  <2>1. CASE v = w
    BY <1>a, <1>t, <2>1 DEF Active
  <2>2. CASE v # w
    <3>1. Active(v) /\ alLeases'[v] = alLeases[v]
      BY <1>a, <1>t, <2>2
    <3>2. alLeases[v].parent \in Workers \ {w} /\ Active(alLeases[v].parent)
      BY <1>b, <1>t, <3>1 DEF BudgetInv, ChildrenHaveActiveParents
    <3>3. PICK q \in Workers \ {w} : q = alLeases[v].parent /\ Active(q)
      BY <3>2
    <3>4. Active(q)'
      BY <1>a, <3>3
    <3> QED BY <3>1, <3>3, <3>4 DEF Active
  <2> QED BY <2>1, <2>2
<1>11. NoOvercommit'
  <2> SUFFICES ASSUME NEW q \in Workers \cup {TheRoot}, q = TheRoot \/ Active(q)' PROVE UsedBy(q)' <= Limit(q)'
    BY DEF NoOvercommit
  <2>1. CASE q = w
    <3>1. ChildrenOf(w)' = {}
      BY <1>c DEF ChildrenOf
    <3>2. UnitsOf(w)' = {}
      BY <3>1 DEF UnitsOf
    <3>3. Cardinality(UnitsOf(w)') = 0
      BY <3>2, FS_EmptySet
    <3>4. Limit(w)' = share
      BY <1>t DEF Limit
    <3> QED BY <2>1, <3>3, <3>4 DEF UsedBy
  <2>2. CASE q # w
    <3>1. Limit(q)' = Limit(q) /\ (q = TheRoot \/ Active(q)) /\ Limit(q) \in Nat
      BY <1>a, <1>t, <2>2 DEF Limit
    <3>2. CASE q = p
      <4>1. Cardinality(UnitsOf(p)) + Own + share <= Limit(p)
        BY DEF Fits, UsedBy
      <4> QED BY <1>8, <3>1, <3>2, <4>1 DEF UsedBy, Own
    <3>3. CASE q # p
      BY <1>5, <3>1, <3>3 DEF BudgetInv, NoOvercommit, UsedBy
    <3> QED BY <3>2, <3>3
  <2> QED BY <2>1, <2>2
<1> QED BY <1>9, <1>10, <1>11 DEF BudgetInv

\* The broker starts with nothing.
LEMMA LeasesStart == AlInit => LeaseInv
<1> SUFFICES ASSUME AlInit PROVE LeaseInv
  OBVIOUS
<1>1. \A w \in Workers : /\ alLeases[w] = NoLease /\ alReceipts[w] = "none" /\ alUnits[w] = "absent"
                         /\ alLaunchers[w] = "idle"
  BY DEF AlInit
<1>2. NoLease \in LeaseRecords /\ NoLease.state = "none"
  BY DEF NoLease, LeaseRecords, LeaseStates
<1>3. LeaseTypes
  BY <1>2 DEF AlInit, LeaseTypes, LaunchSteps, UnitStates, ReceiptStates
<1>4. \A w \in Workers : LauncherFits(w) /\ ~Active(w)
  BY <1>1, <1>2 DEF LauncherFits, Active
<1>5. RunningUnitHoldsLease /\ ChildrenHaveActiveParents /\ RecoveryFits
  BY <1>1, <1>4 DEF RunningUnitHoldsLease, ChildrenHaveActiveParents, RecoveryFits, AlInit
<1>6. \A p \in Workers \cup {TheRoot} : UnitsOf(p) = {}
  BY <1>4 DEF UnitsOf, ChildrenOf
<1>7. NoOvercommit
  <2>1. \A p \in Workers \cup {TheRoot} : p = TheRoot \/ Active(p) => p = TheRoot
    BY <1>4
  <2>2. UsedBy(TheRoot) = 0
    BY <1>6, FS_EmptySet DEF UsedBy
  <2>3. Limit(TheRoot) = RootBudget /\ RootBudget \in Nat /\ TheRoot \notin Workers
    BY LeaseConstants DEF Limit, LeaseConstants
  <2> QED BY <2>1, <2>2, <2>3 DEF NoOvercommit
<1> QED BY <1>3, <1>4, <1>5, <1>6, <1>7, FS_EmptySet DEF LeaseInv

\* A step that leaves the leases alone keeps the budget.
LEMMA BudgetSame == ASSUME LeaseTypes, BudgetInv, alLeases' = alLeases PROVE BudgetInv'
<1>1. \A v \in Workers : (Active(v)' <=> Active(v)) /\ alLeases'[v] = alLeases[v]
  BY DEF Active
<1> QED BY <1>1, BudgetKept

\* One lease changes its state, its boot or its expiry.
LEMMA LeaseChanges ==
  ASSUME LeaseTypes, NEW w \in Workers, NEW l \in LeaseRecords, alLeases' = [alLeases EXCEPT ![w] = l],
         BudgetInv, Active(w) => l.parent = alLeases[w].parent /\ l.children = alLeases[w].children,
         l.state \in {"reserved", "execution_active"} => Active(w),
         Active(w) /\ l.state \notin {"reserved", "execution_active"} => Childless(w)
  PROVE  BudgetInv' /\ alLeases' \in [Workers -> LeaseRecords]
<1>1. \A v \in Workers : alLeases'[v] = IF v = w THEN l ELSE alLeases[v]
  BY DEF LeaseTypes
<1>2. \A v \in Workers : Active(v)' => /\ Active(v) /\ alLeases'[v].parent = alLeases[v].parent
                                       /\ alLeases'[v].children = alLeases[v].children
  BY <1>1 DEF Active
<1>3. \A v \in Workers : Active(v) /\ ~Active(v)' => Childless(v)
  BY <1>1 DEF Active
<1> QED BY <1>2, <1>3, BudgetKept DEF LeaseTypes

\* What a release leaves of a lease.
LEMMA ReleasedLease ==
  ASSUME LeaseTypes, NEW w \in Workers, NEW state \in LeaseStates
  PROVE  LET l == [alLeases[w] EXCEPT !.state = state] IN
         /\ l \in LeaseRecords /\ l.state = state /\ l.parent = alLeases[w].parent
         /\ l.children = alLeases[w].children
         /\ [alLeases EXCEPT ![w].state = state] = [alLeases EXCEPT ![w] = l]
BY DEF LeaseTypes, LeaseRecords

\* A lease is released: nobody is below it, nothing of it runs or will.
LEMMA ReleaseKeeps ==
  ASSUME LeaseTypes, BudgetInv, RunningUnitHoldsLease, NEW w \in Workers, Active(w), Childless(w),
         NEW state \in {"abandoned", "completed", "cancelled"}, ReleaseTo(w, state),
         alUnits[w] \notin {"starting", "running", "lingering"}
  PROVE  /\ BudgetInv' /\ alLeases' \in [Workers -> LeaseRecords]
         /\ \A v \in Workers : alUnits[v] \in {"starting", "running", "lingering"} =>
                                 alLeases'[v].state = "execution_active"
         /\ \A v \in Workers \ {w} : alLeases'[v] = alLeases[v]
         /\ alLeases'[w].state = state
<1>1. PICK l : l = [alLeases[w] EXCEPT !.state = state]
  OBVIOUS
<1>2. /\ l \in LeaseRecords /\ l.state = state /\ l.parent = alLeases[w].parent
      /\ l.children = alLeases[w].children /\ alLeases' = [alLeases EXCEPT ![w] = l]
  <2>1. state \in LeaseStates /\ alLeases' = [alLeases EXCEPT ![w].state = state]
    BY DEF LeaseStates, ReleaseTo
  <2> QED BY <1>1, <2>1, ReleasedLease
<1>3. BudgetInv' /\ alLeases' \in [Workers -> LeaseRecords]
  BY <1>2, LeaseChanges
<1>4. \A v \in Workers : alLeases'[v] = IF v = w THEN l ELSE alLeases[v]
  BY <1>2 DEF LeaseTypes
<1> QED BY <1>2, <1>3, <1>4 DEF RunningUnitHoldsLease

\* Every step keeps the invariant and touches no lease that was released.
LEMMA LeaseStepKeeps ==
  ASSUME LeaseInv, [AlNext]_alVars PROVE LeaseInv' /\ [ReleaseIsFinal]_alVars
<1> USE DEF LaunchSteps, UnitStates, ReceiptStates
<1>t. /\ LeaseTypes /\ RecoveryFits /\ RunningUnitHoldsLease /\ BudgetInv /\ \A w \in Workers : LauncherFits(w)
      /\ alLeases \in [Workers -> LeaseRecords] /\ alReceipts \in [Workers -> ReceiptStates]
      /\ alUnits \in [Workers -> UnitStates] /\ alLaunchers \in [Workers -> LaunchSteps] /\ alBoot \in Nat
  BY DEF LeaseInv, LeaseTypes, BudgetInv
<1> DEFINE Good == LeaseInv' /\ ReleaseIsFinal
<1>g. ASSUME LeaseTypes', RecoveryFits', RunningUnitHoldsLease', BudgetInv', \A v \in Workers : LauncherFits(v)',
             ReleaseIsFinal
      PROVE  Good
  BY <1>g DEF LeaseInv, BudgetInv
<1>f. alLeases' = alLeases => ReleaseIsFinal
  BY DEF ReleaseIsFinal
<1>r. ASSUME alRecovery' = alRecovery,
             \A v \in Workers : /\ alReceipts[v] = "not_started" => alReceipts'[v] = "not_started"
                                /\ alUnits[v] \in {"ended", "gone"} => alUnits'[v] \in {"ended", "gone"}
      PROVE  RecoveryFits'
  BY <1>r, <1>t DEF RecoveryFits
\* The broker.
<1>1. ASSUME NEW w \in Workers, NEW p \in (Workers \ {w}) \cup {TheRoot}, NEW share \in Shares, NEW free \in 0..RootBudget,
             AlReserve(w, p, share, free)
      PROVE  Good
  <2>0. /\ alLeases[w].state = "none" /\ alLaunchers[w] = "idle" /\ (p = TheRoot \/ Active(p))
        /\ UNCHANGED <<alManifests, alReceipts, alUnits, alRecovery, alBoot>> /\ share \in Nat
    <3>1. share \in Nat
      BY LeaseConstants DEF LeaseConstants
    <3> QED BY <1>1, <3>1 DEF AlReserve
  <2>1. PICK l : l = [state |-> IF Refusal(p, share, free) \/ ~Fits(p, share) THEN "refused" ELSE "reserved",
                      parent |-> p, children |-> share, boot |-> alBoot, expired |-> FALSE]
    OBVIOUS
  <2>2. /\ l \in LeaseRecords /\ l.state \in {"refused", "reserved"} /\ l.parent = p /\ l.children = share
        /\ l.state = "reserved" => Fits(p, share)
    BY <1>t, <2>0, <2>1 DEF LeaseRecords, LeaseStates
  <2>3. alLeases' = [alLeases EXCEPT ![w] = l]
    BY <1>1, <2>1 DEF AlReserve
  <2>4. \A v \in Workers : alLeases'[v] = IF v = w THEN l ELSE alLeases[v]
    BY <1>t, <2>3
  <2>5. alLaunchers' = [alLaunchers EXCEPT ![w] = IF l.state = "reserved" THEN "reserved" ELSE "done"]
    BY <1>1, <2>4 DEF AlReserve
  <2>6. \A v \in Workers : alLaunchers'[v] = IF v = w THEN (IF l.state = "reserved" THEN "reserved" ELSE "done")
                                             ELSE alLaunchers[v]
    BY <1>t, <2>5
  <2>7. LeaseTypes'
    BY <1>t, <2>0, <2>2, <2>3, <2>5 DEF LeaseTypes
  <2>8. BudgetInv'
    <3>1. CASE l.state = "reserved"
      BY <1>t, <2>0, <2>2, <2>3, <3>1, BudgetTaken
    <3>2. CASE l.state = "refused"
      <4>1. ~Active(w)
        BY <2>0 DEF Active
      <4> QED BY <1>t, <2>2, <2>3, <3>2, <4>1, LeaseChanges
    <3> QED BY <2>2, <3>1, <3>2
  <2>9. \A v \in Workers : LauncherFits(v)'
    BY <1>t, <2>0, <2>2, <2>4, <2>6 DEF LauncherFits
  <2>10. RunningUnitHoldsLease'
    BY <1>t, <2>0, <2>4 DEF RunningUnitHoldsLease
  <2>11. RecoveryFits'
    BY <1>r, <2>0
  <2>12. ReleaseIsFinal
    BY <2>0, <2>4 DEF ReleaseIsFinal
  <2> QED BY <1>g, <2>7, <2>8, <2>9, <2>10, <2>11, <2>12
<1>2. ASSUME NEW w \in Workers, AlExpire(w) PROVE Good
  <2>0. Active(w) /\ UNCHANGED <<alManifests, alReceipts, alUnits, alLaunchers, alRecovery, alBoot>>
    BY <1>2 DEF AlExpire
  <2>1. PICK l : l = [alLeases[w] EXCEPT !.expired = TRUE]
    OBVIOUS
  <2>2. l \in LeaseRecords /\ l.state = alLeases[w].state /\ l.parent = alLeases[w].parent /\ l.children = alLeases[w].children
    BY <1>t, <2>1 DEF LeaseRecords
  <2>3. alLeases' = [alLeases EXCEPT ![w] = l]
    BY <1>2, <1>t, <2>1 DEF AlExpire
  <2>4. \A v \in Workers : alLeases'[v] = IF v = w THEN l ELSE alLeases[v]
    BY <1>t, <2>3
  <2>5. BudgetInv' /\ alLeases' \in [Workers -> LeaseRecords]
    BY <1>t, <2>0, <2>2, <2>3, LeaseChanges DEF Active
  <2>6. LeaseTypes'
    BY <1>t, <2>0, <2>5 DEF LeaseTypes
  <2>7. \A v \in Workers : LauncherFits(v)'
    BY <1>t, <2>0, <2>2, <2>4 DEF LauncherFits
  <2>8. RunningUnitHoldsLease'
    BY <1>t, <2>0, <2>2, <2>4 DEF RunningUnitHoldsLease
  <2>9. RecoveryFits'
    BY <1>r, <2>0
  <2>10. ReleaseIsFinal
    BY <2>0, <2>4 DEF ReleaseIsFinal, Active
  <2> QED BY <1>g, <2>5, <2>6, <2>7, <2>8, <2>9, <2>10
\* systemd.
<1>3. ASSUME NEW w \in Workers, AlUnit(w) PROVE Good
  <2>0. PICK step \in UnitSteps : alUnits[w] = step[1] /\ alUnits' = [alUnits EXCEPT ![w] = step[2]]
    BY <1>3 DEF AlUnit
  <2>1. UNCHANGED <<alLeases, alManifests, alReceipts, alLaunchers, alRecovery, alBoot>>
    BY <1>3 DEF AlUnit
  <2>2. /\ step[2] \in {"running", "gone", "ended", "lingering"}
        /\ step[1] \in {"starting", "running", "lingering", "ended"}
        /\ step[2] \in {"running", "lingering"} => step[1] \in {"starting", "running"}
        /\ step[1] = "ended" => step[2] = "gone"
    BY DEF UnitSteps
  <2>3. \A v \in Workers : alUnits'[v] = IF v = w THEN step[2] ELSE alUnits[v]
    BY <1>t, <2>0
  <2>4. LeaseTypes'
    BY <1>t, <2>0, <2>1, <2>2 DEF LeaseTypes
  <2>5. \A v \in Workers : LauncherFits(v)'
    BY <1>t, <2>0, <2>1, <2>2, <2>3 DEF LauncherFits
  <2>6. RunningUnitHoldsLease'
    BY <1>t, <2>0, <2>1, <2>2, <2>3 DEF RunningUnitHoldsLease
  <2>7. RecoveryFits'
    BY <1>r, <2>0, <2>1, <2>2, <2>3
  <2> QED BY <1>f, <1>g, <1>t, <2>1, <2>4, <2>5, <2>6, <2>7, BudgetSame
\* The launcher.  A step of it that leaves leases and units alone.
<1>l. ASSUME NEW w \in Workers, NEW step \in LaunchSteps, Goes(w, step), UNCHANGED <<alLeases, alUnits, alRecovery, alBoot>>,
             alReceipts' \in [Workers -> ReceiptStates], \A v \in Workers \ {w} : alReceipts'[v] = alReceipts[v],
             alReceipts'[w] = "not_started" => step = "done" /\ alUnits[w] = "absent",
             alReceipts[w] = "not_started" => alReceipts'[w] = "not_started",
             alLeases[w].state # "none",
             step \in {"idle", "reserved", "prepared", "attached", "claimed"} =>
               alUnits[w] = "absent",
             step \in {"attached", "claimed"} => alLeases[w].state = "execution_active"
      PROVE  Good
  <2>1. \A v \in Workers : alLaunchers'[v] = IF v = w THEN step ELSE alLaunchers[v]
    BY <1>l, <1>t DEF Goes
  <2>2. LeaseTypes'
    BY <1>l, <1>t DEF LeaseTypes, Goes
  <2>3. \A v \in Workers : LauncherFits(v)'
    BY <1>l, <1>t, <2>1 DEF LauncherFits
  <2>4. RunningUnitHoldsLease'
    BY <1>l, <1>t DEF RunningUnitHoldsLease
  <2>5. RecoveryFits'
    BY <1>l, <1>r
  <2> QED BY <1>f, <1>g, <1>l, <1>t, <2>2, <2>3, <2>4, <2>5, BudgetSame
<1>4. ASSUME NEW w \in Workers, AlPrepare(w) PROVE Good
  <2>1. /\ alLaunchers[w] = "reserved" /\ alLeases[w].state = "reserved" /\ Goes(w, "prepared")
        /\ UNCHANGED <<alLeases, alReceipts, alUnits, alRecovery, alBoot>>
    BY <1>4 DEF AlPrepare
  <2>2. alUnits[w] = "absent" /\ alReceipts[w] # "not_started"
    BY <1>t, <2>1 DEF LauncherFits
  <2> QED BY <1>l, <1>t, <2>1, <2>2
<1>5. ASSUME NEW w \in Workers, AlPrepareFails(w) PROVE Good
  <2>1. PICK written \in BOOLEAN :
          /\ alLaunchers[w] = "reserved"
          /\ IF ReservationReleasable(w, ~written, FALSE) THEN ReleaseTo(w, "abandoned") ELSE UNCHANGED alLeases
          /\ Goes(w, "done") /\ UNCHANGED <<alReceipts, alUnits, alRecovery, alBoot>>
    BY <1>5 DEF AlPrepareFails
  <2>2. alUnits[w] = "absent" /\ alReceipts[w] # "not_started" /\ alLeases[w].state # "none"
    BY <1>t, <2>1 DEF LauncherFits
  <2>3. CASE UNCHANGED alLeases
    BY <1>l, <1>t, <2>1, <2>2, <2>3
  <2>4. CASE ReservationReleasable(w, ~written, FALSE) /\ ReleaseTo(w, "abandoned")
    <3>1. Active(w) /\ Childless(w) /\ alLeases[w].state = "reserved"
      BY <2>4 DEF ReservationReleasable, Active
    <3>2. /\ BudgetInv' /\ alLeases' \in [Workers -> LeaseRecords]
          /\ \A v \in Workers : alUnits[v] \in {"starting", "running", "lingering"} =>
                                  alLeases'[v].state = "execution_active"
          /\ \A v \in Workers \ {w} : alLeases'[v] = alLeases[v]
          /\ alLeases'[w].state = "abandoned"
      BY <1>t, <2>2, <2>4, <3>1, ReleaseKeeps
    <3>3. LeaseTypes'
      BY <1>t, <2>1, <3>2 DEF LeaseTypes, Goes
    <3>4. \A v \in Workers : alLaunchers'[v] = IF v = w THEN "done" ELSE alLaunchers[v]
      BY <1>t, <2>1 DEF Goes
    <3>5. \A v \in Workers : LauncherFits(v)'
      BY <1>t, <2>1, <2>2, <3>2, <3>4 DEF LauncherFits
    <3>6. RunningUnitHoldsLease'
      BY <2>1, <3>2 DEF RunningUnitHoldsLease
    <3>7. RecoveryFits'
      BY <1>r, <2>1
    <3>8. ReleaseIsFinal
      BY <3>1, <3>2 DEF ReleaseIsFinal
    <3> QED BY <1>g, <3>2, <3>3, <3>5, <3>6, <3>7, <3>8
  <2> QED BY <2>1, <2>3, <2>4
<1>6. ASSUME NEW w \in Workers, AlAttach(w) PROVE Good
  <2>0. /\ alLaunchers[w] = "prepared" /\ alLeases[w].state = "reserved" /\ Goes(w, "attached")
        /\ UNCHANGED <<alManifests, alReceipts, alUnits, alRecovery, alBoot>>
    BY <1>6 DEF AlAttach, Attachable
  <2>1. PICK l : l = [alLeases[w] EXCEPT !.state = "execution_active", !.expired = FALSE, !.boot = alBoot]
    OBVIOUS
  <2>2. l \in LeaseRecords /\ l.state = "execution_active" /\ l.parent = alLeases[w].parent /\ l.children = alLeases[w].children
    BY <1>t, <2>1 DEF LeaseRecords, LeaseStates
  <2>3. alLeases' = [alLeases EXCEPT ![w] = l]
    BY <1>6, <1>t, <2>1 DEF AlAttach
  <2>4. \A v \in Workers : alLeases'[v] = IF v = w THEN l ELSE alLeases[v]
    BY <1>t, <2>3
  <2>5. BudgetInv' /\ alLeases' \in [Workers -> LeaseRecords]
    BY <1>t, <2>0, <2>2, <2>3, LeaseChanges DEF Active
  <2>6. LeaseTypes'
    BY <1>t, <2>0, <2>5 DEF LeaseTypes, Goes
  <2>a. \A v \in Workers : alLaunchers'[v] = IF v = w THEN "attached" ELSE alLaunchers[v]
    BY <1>t, <2>0 DEF Goes
  <2>7. \A v \in Workers : LauncherFits(v)'
    BY <1>t, <2>0, <2>2, <2>4, <2>a DEF LauncherFits
  <2>8. RunningUnitHoldsLease'
    BY <1>t, <2>0, <2>2, <2>4 DEF RunningUnitHoldsLease
  <2>9. RecoveryFits'
    BY <1>r, <2>0
  <2>10. ReleaseIsFinal
    BY <2>0, <2>4 DEF ReleaseIsFinal
  <2> QED BY <1>g, <2>5, <2>6, <2>7, <2>8, <2>9, <2>10
<1>7. ASSUME NEW w \in Workers, AlWriteReceipt(w) PROVE Good
  <2>1. /\ alLaunchers[w] = "attached" /\ Goes(w, "claimed") /\ alReceipts' = [alReceipts EXCEPT ![w] = "starting"]
        /\ UNCHANGED <<alLeases, alUnits, alRecovery, alBoot>>
    BY <1>7 DEF AlWriteReceipt, Receipt
  <2>2. alUnits[w] = "absent" /\ alReceipts[w] # "not_started" /\ alLeases[w].state = "execution_active"
    BY <1>t, <2>1 DEF LauncherFits
  <2>3. /\ alReceipts' \in [Workers -> ReceiptStates] /\ alReceipts'[w] = "starting"
        /\ \A v \in Workers \ {w} : alReceipts'[v] = alReceipts[v]
    BY <1>t, <2>1
  <2> QED BY <1>l, <1>t, <2>1, <2>2, <2>3
<1>8. ASSUME NEW w \in Workers, AlStart(w) PROVE Good
  <2>1. alLaunchers[w] = "claimed" /\ UNCHANGED <<alLeases, alManifests, alRecovery, alBoot>>
    BY <1>8 DEF AlStart
  <2>2. alUnits[w] = "absent" /\ alReceipts[w] # "not_started" /\ alLeases[w].state = "execution_active"
    BY <1>t, <2>1 DEF LauncherFits
  <2>3. CASE alReceipts' = [alReceipts EXCEPT ![w] = "not_started"] /\ Goes(w, "done") /\ UNCHANGED alUnits
    <3>1. /\ alReceipts' \in [Workers -> ReceiptStates] /\ alReceipts'[w] = "not_started"
          /\ \A v \in Workers \ {w} : alReceipts'[v] = alReceipts[v]
      BY <1>t, <2>3
    <3> QED BY <1>l, <1>t, <2>1, <2>2, <2>3, <3>1
  <2>4. CASE alUnits' = [alUnits EXCEPT ![w] = "starting"] /\ Goes(w, "waiting") /\ UNCHANGED alReceipts
    <3>1. \A v \in Workers : /\ alUnits'[v] = IF v = w THEN "starting" ELSE alUnits[v]
                             /\ alLaunchers'[v] = IF v = w THEN "waiting" ELSE alLaunchers[v]
      BY <1>t, <2>4 DEF Goes
    <3>2. LeaseTypes'
      BY <1>t, <2>1, <2>4 DEF LeaseTypes, Goes
    <3>3. \A v \in Workers : LauncherFits(v)'
      BY <1>t, <2>1, <2>2, <2>4, <3>1 DEF LauncherFits
    <3>4. RunningUnitHoldsLease'
      BY <1>t, <2>1, <2>2, <3>1 DEF RunningUnitHoldsLease
    <3>5. RecoveryFits'
      BY <1>r, <2>1, <2>2, <2>4, <3>1
    <3> QED BY <1>f, <1>g, <1>t, <2>1, <3>2, <3>3, <3>4, <3>5, BudgetSame
  <2> QED BY <1>8, <2>3, <2>4 DEF AlStart, Receipt
<1>s. ASSUME NEW w \in Workers, alLaunchers[w] \notin {"idle", "done"}
      PROVE  alLeases[w].state # "none" /\ alReceipts[w] # "not_started"
  BY <1>s, <1>t DEF LauncherFits
<1>9. ASSUME NEW w \in Workers, AlWaited(w) \/ AlDie(w) PROVE Good
  <2>1. PICK step \in {"finished", "done"} : Goes(w, step)
    BY <1>9 DEF AlWaited, AlDie
  <2>2. UNCHANGED <<alLeases, alReceipts, alUnits, alRecovery, alBoot>> /\ alLaunchers[w] \notin {"idle", "done"}
    BY <1>9 DEF AlWaited, AlDie
  <2> QED BY <1>l, <1>s, <1>t, <2>1, <2>2
<1>10. ASSUME NEW w \in Workers, AlStop(w) PROVE Good
  <2>1. alLaunchers[w] = "waiting" /\ UNCHANGED <<alLeases, alManifests, alRecovery, alBoot>>
    BY <1>10 DEF AlStop
  <2>2. alReceipts[w] # "not_started" /\ alLeases[w].state # "none"
    BY <1>s, <2>1
  <2>3. CASE alReceipts' = [alReceipts EXCEPT ![w] = "unknown"] /\ Goes(w, "done") /\ UNCHANGED alUnits
    <3>1. /\ alReceipts' \in [Workers -> ReceiptStates] /\ alReceipts'[w] = "unknown"
          /\ \A v \in Workers \ {w} : alReceipts'[v] = alReceipts[v]
      BY <1>t, <2>3
    <3> QED BY <1>l, <1>t, <2>1, <2>2, <2>3, <3>1
  <2>4. CASE /\ alUnits' = [alUnits EXCEPT ![w] = IF @ = "starting" THEN "gone" ELSE IF @ = "running" THEN "ended" ELSE @]
             /\ Goes(w, "finished") /\ UNCHANGED alReceipts
    <3>1. PICK u \in UnitStates : /\ u = IF alUnits[w] = "starting" THEN "gone"
                                         ELSE IF alUnits[w] = "running" THEN "ended" ELSE alUnits[w]
      BY <1>t
    <3>2. \A v \in Workers : /\ alUnits'[v] = IF v = w THEN u ELSE alUnits[v]
                             /\ alLaunchers'[v] = IF v = w THEN "finished" ELSE alLaunchers[v]
      BY <1>t, <2>4, <3>1 DEF Goes
    <3>3. LeaseTypes'
      BY <1>t, <2>1, <2>4, <3>1 DEF LeaseTypes, Goes
    <3>4. \A v \in Workers : LauncherFits(v)'
      BY <1>t, <2>1, <2>2, <2>4, <3>2 DEF LauncherFits
    <3>5. RunningUnitHoldsLease'
      BY <1>t, <2>1, <3>1, <3>2 DEF RunningUnitHoldsLease
    <3>6. RecoveryFits'
      BY <1>r, <2>1, <2>2, <2>4, <3>1, <3>2
    <3> QED BY <1>f, <1>g, <1>t, <2>1, <3>3, <3>4, <3>5, <3>6, BudgetSame
  <2> QED BY <1>10, <2>3, <2>4 DEF AlStop, Receipt
<1>11. ASSUME NEW w \in Workers, AlFinish(w) PROVE Good
  <2>1. alLaunchers[w] = "finished" /\ UNCHANGED <<alManifests, alReceipts, alUnits, alRecovery, alBoot>>
    BY <1>11 DEF AlFinish
  <2>2. alReceipts[w] # "not_started" /\ alLeases[w].state # "none"
    BY <1>s, <2>1
  <2>3. CASE UNCHANGED alLeases /\ Goes(w, "unproven")
    BY <1>l, <1>t, <2>1, <2>2, <2>3
  <2>4. ASSUME Releasable(w, TRUE, RuntimeProof(w), FALSE), NEW state \in {"completed", "cancelled"},
               ReleaseTo(w, state), Goes(w, "recording")
        PROVE  Good
    <3>1. /\ Active(w) /\ Childless(w) /\ alLeases[w].state = "execution_active"
          /\ alUnits[w] \notin {"starting", "running", "lingering"}
      BY <2>4 DEF Releasable, Active, Proven, RuntimeProof
    <3>2. /\ BudgetInv' /\ alLeases' \in [Workers -> LeaseRecords]
          /\ \A v \in Workers : alUnits[v] \in {"starting", "running", "lingering"} =>
                                  alLeases'[v].state = "execution_active"
          /\ \A v \in Workers \ {w} : alLeases'[v] = alLeases[v]
          /\ alLeases'[w].state = state
      BY <1>t, <2>4, <3>1, ReleaseKeeps
    <3>3. LeaseTypes'
      BY <1>t, <2>1, <2>4, <3>2 DEF LeaseTypes, Goes
    <3>4. \A v \in Workers : alLaunchers'[v] = IF v = w THEN "recording" ELSE alLaunchers[v]
      BY <1>t, <2>4 DEF Goes
    <3>5. \A v \in Workers : LauncherFits(v)'
      BY <1>t, <2>1, <2>2, <3>2, <3>4 DEF LauncherFits
    <3>6. RunningUnitHoldsLease'
      BY <2>1, <3>2 DEF RunningUnitHoldsLease
    <3>7. RecoveryFits'
      BY <1>r, <2>1
    <3>8. ReleaseIsFinal
      BY <3>1, <3>2 DEF ReleaseIsFinal
    <3> QED BY <1>g, <3>2, <3>3, <3>5, <3>6, <3>7, <3>8
  <2> QED BY <1>11, <2>3, <2>4 DEF AlFinish
<1>12. ASSUME NEW w \in Workers, AlRecord(w) PROVE Good
  <2>1. /\ alLaunchers[w] \in {"recording", "unproven"} /\ Goes(w, "done")
        /\ UNCHANGED <<alLeases, alUnits, alRecovery, alBoot>>
    BY <1>12 DEF AlRecord
  <2>2. PICK state \in {"ended", "unknown"} : alReceipts' = [alReceipts EXCEPT ![w] = state]
    BY <1>12 DEF AlRecord, Receipt
  <2>3. /\ alReceipts' \in [Workers -> ReceiptStates] /\ alReceipts'[w] = state
        /\ \A v \in Workers \ {w} : alReceipts'[v] = alReceipts[v]
    BY <1>t, <2>2
  <2> QED BY <1>l, <1>s, <1>t, <2>1, <2>2, <2>3
\* Recovery.
<1>13. ASSUME NEW w \in Workers, AlSearchManifest(w) \/ AlReadReceipt(w) PROVE Good
  <2>1. UNCHANGED <<alLeases, alManifests, alReceipts, alUnits, alLaunchers, alBoot>>
    BY <1>13 DEF AlSearchManifest, AlReadReceipt
  <2>2. RecoveryFits'
    <3>1. CASE AlSearchManifest(w)
      BY <3>1 DEF AlSearchManifest, RecoveryFits
    <3>2. CASE AlReadReceipt(w)
      <4>1. /\ alReceipts[w] \in {"starting", "not_started"}
            /\ alRecovery' = [kind |-> "execution", worker |-> w, receipt |-> alReceipts[w], proof |-> RuntimeProof(w)]
        BY <3>2 DEF AlReadReceipt
      <4>2. RuntimeProof(w).empty => alUnits[w] = "ended"
        BY DEF RuntimeProof
      <4>3. /\ alRecovery'.kind = "execution" /\ alRecovery'.worker = w /\ alRecovery'.receipt = alReceipts[w]
            /\ alRecovery'.proof = RuntimeProof(w)
        BY <4>1
      <4> QED BY <2>1, <4>1, <4>2, <4>3 DEF RecoveryFits
    <3> QED BY <1>13, <3>1, <3>2
  <2>3. LeaseTypes' /\ RunningUnitHoldsLease'
    BY <1>t, <2>1 DEF LeaseTypes, RunningUnitHoldsLease
  <2>4. \A v \in Workers : LauncherFits(v)'
    BY <1>t, <2>1 DEF LauncherFits
  <2> QED BY <1>f, <1>g, <1>t, <2>1, <2>2, <2>3, <2>4, BudgetSame
<1>14. ASSUME AlRecover PROVE Good
  <2>1. /\ alRecovery # NoRecovery /\ alRecovery' = NoRecovery
        /\ UNCHANGED <<alManifests, alReceipts, alUnits, alLaunchers, alBoot>>
    BY <1>14 DEF AlRecover
  <2>2. PICK w \in Workers : w = alRecovery.worker
    BY <1>t, <2>1 DEF RecoveryFits
  <2>3. RecoveryFits'
    BY <2>1 DEF RecoveryFits
  <2>4. CASE UNCHANGED alLeases
    <3>1. LeaseTypes' /\ RunningUnitHoldsLease'
      BY <1>t, <2>1, <2>4 DEF LeaseTypes, RunningUnitHoldsLease
    <3>2. \A v \in Workers : LauncherFits(v)'
      BY <1>t, <2>1, <2>4 DEF LauncherFits
    <3> QED BY <1>f, <1>g, <1>t, <2>3, <2>4, <3>1, <3>2, BudgetSame
  <2>5. ASSUME NEW state \in {"abandoned", "cancelled"}, ReleaseTo(w, state), Active(w), Childless(w),
               alUnits[w] \notin {"starting", "running", "lingering"},
               alLeases[w].state = "reserved" \/ alLaunchers[w] \notin {"attached", "claimed"}
        PROVE  Good
    <3>2. /\ BudgetInv' /\ alLeases' \in [Workers -> LeaseRecords]
          /\ \A v \in Workers : alUnits[v] \in {"starting", "running", "lingering"} =>
                                  alLeases'[v].state = "execution_active"
          /\ \A v \in Workers \ {w} : alLeases'[v] = alLeases[v]
          /\ alLeases'[w].state = state
      BY <1>t, <2>5, ReleaseKeeps
    <3>3. LeaseTypes'
      BY <1>t, <2>1, <3>2 DEF LeaseTypes
    <3>4. \A v \in Workers : LauncherFits(v)'
      BY <1>t, <2>1, <2>5, <3>2 DEF LauncherFits
    <3>6. RunningUnitHoldsLease'
      BY <2>1, <3>2 DEF RunningUnitHoldsLease
    <3>8. ReleaseIsFinal
      BY <2>5, <3>2 DEF ReleaseIsFinal, Active
    <3> QED BY <1>g, <2>3, <3>2, <3>3, <3>4, <3>6, <3>8
  <2>6. CASE alRecovery.kind = "reservation" /\ ReservationReleasable(w, alRecovery.absent, TRUE) /\ ReleaseTo(w, "abandoned")
    <3>1. alLeases[w].state = "reserved" /\ Childless(w) /\ Active(w)
      BY <2>6 DEF ReservationReleasable, Active
    <3>2. alUnits[w] \notin {"starting", "running", "lingering"}
      BY <1>t, <3>1 DEF RunningUnitHoldsLease
    <3> QED BY <2>5, <2>6, <3>1, <3>2
  <2>7. ASSUME alRecovery.kind # "reservation", NEW begun \in BOOLEAN, begun = (alRecovery.receipt = "starting"),
               Releasable(w, begun, alRecovery.proof, begun),
               ReleaseTo(w, IF begun THEN "cancelled" ELSE "abandoned")
        PROVE  Good
    <3>0. /\ ~begun => alReceipts[w] = "not_started"
          /\ alRecovery.proof.empty => alUnits[w] \in {"ended", "gone"}
      BY <1>t, <2>1, <2>2, <2>7 DEF RecoveryFits
    <3>1. alLeases[w].state = "execution_active" /\ Childless(w) /\ Active(w)
      BY <2>7 DEF Releasable, Active
    <3>2. alUnits[w] \in {"ended", "gone"} \/ alReceipts[w] = "not_started"
      BY <2>7, <3>0 DEF Releasable, Proven
    <3>3. alUnits[w] \notin {"starting", "running", "lingering"} /\ alLaunchers[w] \notin {"attached", "claimed"}
      BY <1>t, <3>2 DEF LauncherFits
    <3> QED BY <2>5, <2>7, <3>1, <3>3
  <2> QED BY <1>14, <2>2, <2>4, <2>6, <2>7 DEF AlRecover
<1>15. ASSUME AlReboot PROVE Good
  <2>1. /\ alBoot' = alBoot + 1 /\ alUnits' = [w \in Workers |-> "absent"]
        /\ alLaunchers' = [w \in Workers |-> IF alLaunchers[w] = "idle" THEN "idle" ELSE "done"]
        /\ alRecovery' = NoRecovery /\ UNCHANGED <<alLeases, alManifests, alReceipts>>
    BY <1>15 DEF AlReboot
  <2>2. LeaseTypes'
    BY <1>t, <2>1 DEF LeaseTypes
  <2>3. \A v \in Workers : LauncherFits(v)'
    BY <1>t, <2>1 DEF LauncherFits
  <2>4. RunningUnitHoldsLease' /\ RecoveryFits'
    BY <2>1 DEF RunningUnitHoldsLease, RecoveryFits
  <2> QED BY <1>f, <1>g, <1>t, <2>1, <2>2, <2>3, <2>4, BudgetSame
<1> HIDE DEF Good
<1>16. CASE AlNext
  <2>1. Good
    BY <1>16, <1>1, <1>2, <1>3, <1>4, <1>5, <1>6, <1>7, <1>8, <1>9, <1>10, <1>11, <1>12, <1>13, <1>14, <1>15
       DEF AlNext
  <2> QED BY <2>1 DEF Good
<1>17. CASE UNCHANGED alVars
  <2>1. /\ alLeases' = alLeases /\ alReceipts' = alReceipts /\ alUnits' = alUnits /\ alLaunchers' = alLaunchers
        /\ alRecovery' = alRecovery /\ alBoot' = alBoot
    BY <1>17 DEF alVars
  <2>2. LeaseTypes' /\ RunningUnitHoldsLease' /\ RecoveryFits'
    BY <1>t, <2>1 DEF LeaseTypes, RunningUnitHoldsLease, RecoveryFits
  <2>3. \A v \in Workers : LauncherFits(v)'
    BY <1>t, <2>1 DEF LauncherFits
  <2>4. BudgetInv'
    BY <1>t, <2>1, BudgetSame
  <2>5. LeaseInv'
    BY <2>2, <2>3, <2>4 DEF LeaseInv, BudgetInv
  <2> QED BY <1>17, <2>5
<1> QED BY <1>16, <1>17

\* Leases of agent workers, for any workers, budgets and shares and any number of reboots
\* (agent_broker.py, managed_launch.py, agent_executor.py): what runs holds a lease, leases
\* fit in the budget of an active parent, and a released lease stays released, whatever
\* launchers and recoveries do in between.
THEOREM LeasesStaySound == AlSpec => LeasesAreSound
<1>1. LeaseInv /\ [AlNext]_alVars => LeaseInv' /\ [ReleaseIsFinal]_alVars
  BY LeaseStepKeeps
<1>2. LeaseInv => RunningUnitHoldsLease /\ NoOvercommit /\ ChildrenHaveActiveParents
  BY DEF LeaseInv
<1> QED BY LeasesStart, <1>1, <1>2, PTL DEF AlSpec, LeasesAreSound

-----------------------------------------------------------------------------
(* EdgeMaintenance.                                                         *)

\* Phases by what has been done to the host when an attempt is in one of them.
EdgeUnswapped == BeforeStop \cup {"STOPPED", "UPGRADE_PENDING", "UPGRADED"}
EdgeUnstarted == BeforeStop \cup {"STOPPED"}
EdgeBehindGate == {"STOPPED", "UPGRADE_PENDING", "UPGRADED", "SNAPSHOTTED", "SWAPPED"}
EdgeOver == {"COMPLETE", "ROLLED_BACK", "NO_EFFECT"}

\* Steps of the tool that run on what is recorded; the others handle a failure.
EdgeForward == {"preflight", "prepare", "deploy", "upgrade", "verify", "semantic", "ungate", "public"}

\* What a phase, recorded or in memory, says of the host.
PhaseFits(phase, h) ==
  /\ phase \in EdgeUnswapped => h.launcher = "old"
  /\ phase \in EdgeUnstarted => h.upgrades = 0
  /\ phase = "SNAPSHOTTED" => h.snapshot

\* What an attempt must have behind it before its candidate is public.
EdgeProven(mem) ==
  /\ mem.phase \in {"STARTED", "UNGATED"}
  /\ mem.upgrade = "NO_EFFECT" => mem.probed

\* The host by itself: the candidate runs from its own launcher, behind which the old
\* launcher and state are kept.
HostFits(h) ==
  /\ h.upgrades <= 1
  /\ h.service = "new" => h.launcher = "new"
  /\ h.launcher = "new" => h.backup /\ h.snapshot

\* The receipt on disk, whatever the tool is doing.
ReceiptFits(r, h) ==
  /\ r.mem.phase = r.phase
  /\ PhaseFits(r.phase, h)
  /\ r.status = "none" => r.phase = "PREFLIGHT" /\ h.service = "old" /\ ~h.gate
  /\ r.phase \in EdgeOver => r.status \in {"PASS", "FAIL"}
  /\ h.service = "new" /\ ~h.gate =>
       /\ r.phase \in {"STARTED", "UNGATED", "COMPLETE"}
       /\ r.mem.upgrade = "NO_EFFECT" => r.mem.probed
  /\ r.phase = "NO_EFFECT" => h.upgrader = "idle" /\ h.schema = "before"
  /\ r.status = "PASS" => h.service = "new" /\ ~h.gate
  /\ r.status = "FAIL" => h.service = "old" /\ h.launcher = "old" /\ ~h.gate

\* The tool at work on mem.
ToolFits(at, mem, r, h) ==
  /\ r.status \in {"RUNNING", "UNKNOWN"}
  /\ mem.phase \notin EdgeOver
  /\ PhaseFits(mem.phase, h)
  /\ h.service = "new" /\ ~h.gate => EdgeProven(mem)
  /\ at \in EdgeForward =>
       mem.phase = r.phase /\ mem.upgrade = r.mem.upgrade /\ mem.probed = r.mem.probed

\* Where the tool is: what it has established to be there.
PlaceFits(at, mem, prepared, h) ==
  /\ at \in {"preflight", "deploy", "rollback"} /\ mem.phase = "PREFLIGHT" =>
       h.service = "old" /\ ~h.gate
  /\ at = "preflight" => mem.phase = "PREFLIGHT"
  /\ at = "prepare" => mem.phase = "PREPARED" /\ prepared \in {"PREPARED", "GATED"}
  /\ at \in {"deploy", "rollback"} /\ mem.phase \in EdgeBehindGate => h.gate
  /\ at = "upgrade" => mem.phase = "UPGRADE_PENDING" /\ h.upgrades = 0 /\ h.gate
  /\ at \in {"verify", "semantic", "ungate", "public"} => mem.phase \in {"STARTED", "UNGATED"}
  /\ at \in {"ungate", "public"} => EdgeProven(mem)
  /\ at = "abort" => mem.phase = "GATED"
  /\ at = "rbRestore" => h.service = "down"
  /\ at = "rbStart" => h.launcher = "old" \/ h.gate
  /\ at = "rbUngate" => h.service # "new"
  /\ at = "rbSave" => h.service = "old" /\ h.launcher = "old" /\ ~h.gate

\* The inductive invariant of the maintenance attempt.
MaintenanceInv ==
  /\ EdgeTypeOK
  /\ HostFits(edgeHost)
  /\ ReceiptFits(edgeReceipt, edgeHost)
  /\ edgeProc.at # "idle" => /\ ToolFits(edgeProc.at, edgeProc.mem, edgeReceipt, edgeHost)
                             /\ PlaceFits(edgeProc.at, edgeProc.mem, edgeProc.prepared, edgeHost)

EdgeProcs == [at : EdgeSteps, mem : EdgeMemory, attempted : BOOLEAN, retained : BOOLEAN,
              prepared : EdgePhases]
EdgeHandlers == EdgeSteps \ (EdgeForward \cup {"idle"})

\* The type invariant in terms of the sets of receipts, hosts and processes.
LEMMA EdgeTypes == EdgeTypeOK <=> edgeReceipt \in EdgeReceipts /\ edgeHost \in EdgeHosts /\ edgeProc \in EdgeProcs
BY DEF EdgeTypeOK, EdgeProcs

\* A receipt written.
LEMMA EdgeSaved ==
  ASSUME NEW mem \in EdgeMemory, NEW phase \in EdgePhases,
         NEW status \in {"RUNNING", "UNKNOWN", "PASS", "FAIL"},
         NEW error \in {"none", "GateAbortUnknown", "GateRetentionUnknown", "other"},
         EdgeSave(mem, phase, status, error)
  PROVE  /\ edgeReceipt' \in EdgeReceipts
         /\ edgeReceipt'.phase = phase /\ edgeReceipt'.status = status
         /\ edgeReceipt'.mem.phase = phase /\ edgeReceipt'.mem.upgrade = mem.upgrade
         /\ edgeReceipt'.mem.probed = mem.probed
<1>1. PICK m : m = [mem EXCEPT !.phase = phase]
  OBVIOUS
<1>2. m \in EdgeMemory /\ m.phase = phase /\ m.upgrade = mem.upgrade /\ m.probed = mem.probed
  BY <1>1 DEF EdgeMemory
<1>3. edgeReceipt' = [phase |-> phase, status |-> status, error |-> error, mem |-> m]
  BY <1>1 DEF EdgeSave
<1> QED BY <1>2, <1>3 DEF EdgeReceipts

\* The tool goes to another step.
LEMMA EdgeGoes ==
  ASSUME edgeProc \in EdgeProcs, NEW at \in EdgeSteps
  PROVE  /\ EdgeGoto(at) \in EdgeProcs /\ EdgeGoto(at).at = at /\ EdgeGoto(at).mem = edgeProc.mem
         /\ EdgeGoto(at).prepared = edgeProc.prepared
BY DEF EdgeGoto, EdgeProcs

\* The tool is not running.
LEMMA EdgeIsIdle == EdgeIdle \in EdgeProcs /\ EdgeIdle.at = "idle"
<1>1. FreshMemory \in EdgeMemory
  BY DEF FreshMemory, EdgeMemory, EdgePhases, BeforeStop, UpgradeStates
<1> QED BY <1>1 DEF EdgeIdle, EdgeProcs, EdgeSteps, EdgePhases, BeforeStop

\* A step that ends the tool.
LEMMA EdgeStops ==
  ASSUME edgeProc' = EdgeIdle, edgeReceipt' \in EdgeReceipts, edgeHost' \in EdgeHosts,
         HostFits(edgeHost'), ReceiptFits(edgeReceipt', edgeHost')
  PROVE  MaintenanceInv'
BY EdgeIsIdle DEF MaintenanceInv, EdgeTypeOK, EdgeProcs

\* A step after which the tool goes on.
LEMMA EdgeContinues ==
  ASSUME edgeProc' \in EdgeProcs, edgeReceipt' \in EdgeReceipts, edgeHost' \in EdgeHosts,
         HostFits(edgeHost'), ReceiptFits(edgeReceipt', edgeHost'),
         ToolFits(edgeProc'.at, edgeProc'.mem, edgeReceipt', edgeHost'),
         PlaceFits(edgeProc'.at, edgeProc'.mem, edgeProc'.prepared, edgeHost')
  PROVE  MaintenanceInv'
BY DEF MaintenanceInv, EdgeTypeOK, EdgeProcs

\* A step that leaves host and receipt alone and goes to a handler or a step on what is
\* recorded.
LEMMA EdgeProbes ==
  ASSUME MaintenanceInv, edgeProc.at # "idle", NEW at \in EdgeSteps \ {"idle"},
         UNCHANGED <<edgeHost, edgeReceipt>>, edgeProc' = EdgeGoto(at),
         at \in EdgeForward => edgeProc.at \in EdgeForward,
         PlaceFits(at, edgeProc.mem, edgeProc.prepared, edgeHost)
  PROVE  MaintenanceInv'
<1>1. /\ edgeProc' \in EdgeProcs /\ edgeProc'.at = at /\ edgeProc'.mem = edgeProc.mem
      /\ edgeProc'.prepared = edgeProc.prepared
  BY EdgeGoes, EdgeTypes DEF MaintenanceInv
<1>2. ToolFits(at, edgeProc.mem, edgeReceipt, edgeHost)
  BY DEF MaintenanceInv, ToolFits
<1> QED BY <1>1, <1>2, EdgeContinues, EdgeTypes DEF MaintenanceInv

\* An operation and the receipt written after it.
LEMMA EdgePerforms ==
  ASSUME MaintenanceInv, edgeProc.at # "idle",
         NEW at \in EdgeForward, NEW mem \in EdgeMemory, NEW done \in EdgeHosts,
         NEW left \in SUBSET EdgeHosts, Perform(at, mem, done, left),
         mem.phase \notin EdgeOver,
         PhaseFits(mem.phase, done),
         done.service = "new" /\ ~done.gate => EdgeProven(mem),
         PlaceFits(at, mem, edgeProc.prepared, done),
         PlaceFits("rollback", mem, edgeProc.prepared, done),
         \A h \in left \cup {done} : HostFits(h) /\ ReceiptFits(edgeReceipt, h),
         \A h \in left : /\ PhaseFits(edgeProc.mem.phase, h)
                         /\ h.service = "new" /\ ~h.gate => EdgeProven(edgeProc.mem)
                         /\ PlaceFits("rollback", edgeProc.mem, edgeProc.prepared, h)
  PROVE  MaintenanceInv'
<1>t. /\ edgeProc \in EdgeProcs /\ edgeReceipt \in EdgeReceipts
      /\ ToolFits(edgeProc.at, edgeProc.mem, edgeReceipt, edgeHost) /\ mem.phase \in EdgePhases
      /\ edgeReceipt.status \in {"RUNNING", "UNKNOWN"} /\ edgeProc.mem.phase \notin EdgeOver
      /\ done \in left \cup {done}
  BY EdgeTypes DEF MaintenanceInv, EdgeMemory, ToolFits
<1>s. at \in EdgeSteps /\ {"rollback", "unknown"} \subseteq EdgeSteps /\ {"rollback", "unknown"} \cap EdgeForward = {}
      /\ at # "idle"
  BY DEF EdgeForward, EdgeSteps
<1>u. \A m, h : PlaceFits("unknown", m, edgeProc.prepared, h)
  BY DEF PlaceFits
<1>1. CASE /\ edgeHost' = done
           /\ edgeProc' = [edgeProc EXCEPT !.at = at, !.mem = mem]
           /\ EdgeSave(mem, mem.phase, "RUNNING", "none")
  <2>1. /\ edgeProc' \in EdgeProcs /\ edgeProc'.at = at /\ edgeProc'.mem = mem
        /\ edgeProc'.prepared = edgeProc.prepared
    BY <1>1, <1>s, <1>t DEF EdgeProcs
  <2>2. /\ edgeReceipt' \in EdgeReceipts
        /\ edgeReceipt'.phase = mem.phase /\ edgeReceipt'.status = "RUNNING"
        /\ edgeReceipt'.mem.phase = mem.phase /\ edgeReceipt'.mem.upgrade = mem.upgrade
        /\ edgeReceipt'.mem.probed = mem.probed
    BY <1>1, <1>t, EdgeSaved
  <2>3. ReceiptFits(edgeReceipt', done)
    <3>1. HostFits(done)
      BY <1>t
    <3>2. mem.phase # "NO_EFFECT"
      BY DEF EdgeOver
    <3> QED BY <2>2, <3>1, <3>2 DEF ReceiptFits, EdgeProven
  <2>4. ToolFits(at, mem, edgeReceipt', done)
    BY <2>2 DEF ToolFits
  <2> QED BY <1>1, <1>t, <2>1, <2>2, <2>3, <2>4, EdgeContinues
<1>2. ASSUME edgeHost' = done, UNCHANGED edgeReceipt, NEW handler \in {"rollback", "unknown"},
             edgeProc' = [edgeProc EXCEPT !.at = handler, !.mem = mem]
      PROVE  MaintenanceInv'
  <2>1. /\ edgeProc' \in EdgeProcs /\ edgeProc'.at = handler /\ edgeProc'.mem = mem
        /\ edgeProc'.prepared = edgeProc.prepared
    BY <1>2, <1>s, <1>t DEF EdgeProcs
  <2>2. ToolFits(handler, mem, edgeReceipt, done)
    BY <1>2, <1>s, <1>t DEF ToolFits
  <2>3. PlaceFits(handler, mem, edgeProc.prepared, done)
    BY <1>2, <1>u
  <2>4. HostFits(done) /\ ReceiptFits(edgeReceipt, done)
    BY <1>t
  <2> QED BY <1>2, <1>t, <2>1, <2>2, <2>3, <2>4, EdgeContinues
<1>3. ASSUME NEW h \in left, edgeHost' = h, UNCHANGED edgeReceipt, NEW handler \in {"rollback", "unknown"},
             edgeProc' = EdgeGoto(handler)
      PROVE  MaintenanceInv'
  <2>1. /\ edgeProc' \in EdgeProcs /\ edgeProc'.at = handler /\ edgeProc'.mem = edgeProc.mem
        /\ edgeProc'.prepared = edgeProc.prepared
    BY <1>3, <1>s, <1>t, EdgeGoes
  <2>2. ToolFits(handler, edgeProc.mem, edgeReceipt, h)
    BY <1>3, <1>s, <1>t DEF ToolFits
  <2>3. PlaceFits(handler, edgeProc.mem, edgeProc.prepared, h)
    BY <1>3, <1>u
  <2>4. HostFits(h) /\ ReceiptFits(edgeReceipt, h) /\ h \in EdgeHosts
    BY <1>3
  <2> QED BY <1>3, <1>t, <2>1, <2>2, <2>3, <2>4, EdgeContinues
<1>4. ASSUME NEW h \in left \cup {done}, edgeHost' = h, UNCHANGED edgeReceipt, edgeProc' = EdgeIdle
      PROVE  MaintenanceInv'
  BY <1>4, <1>t, EdgeStops
<1> QED BY <1>1, <1>2, <1>3, <1>4 DEF Perform

\* An operation of the rollback.
LEMMA EdgeUndoes ==
  ASSUME MaintenanceInv, edgeProc.at \in EdgeHandlers, NEW at \in EdgeHandlers,
         NEW done \in EdgeHosts, NEW proven, Undo(done, proven, at),
         HostFits(done), ReceiptFits(edgeReceipt, done), PhaseFits(edgeProc.mem.phase, done),
         done.service = "new" /\ ~done.gate => EdgeProven(edgeProc.mem),
         proven => PlaceFits(at, edgeProc.mem, edgeProc.prepared, done)
  PROVE  MaintenanceInv'
<1>t. /\ edgeProc \in EdgeProcs /\ edgeReceipt \in EdgeReceipts /\ edgeHost \in EdgeHosts
      /\ edgeProc.at # "idle"
      /\ HostFits(edgeHost) /\ ReceiptFits(edgeReceipt, edgeHost)
      /\ ToolFits(edgeProc.at, edgeProc.mem, edgeReceipt, edgeHost)
  BY EdgeTypes DEF MaintenanceInv, EdgeHandlers
<1>s. "rbUnknown" \in EdgeHandlers /\ EdgeHandlers \subseteq EdgeSteps /\ EdgeHandlers \cap EdgeForward = {}
  BY DEF EdgeHandlers, EdgeForward, EdgeSteps
<1>f. \A a \in EdgeHandlers, h \in {edgeHost, done} : ToolFits(a, edgeProc.mem, edgeReceipt, h)
  BY <1>s, <1>t DEF ToolFits
<1>1. CASE edgeHost' = done /\ proven /\ edgeProc' = EdgeGoto(at) /\ UNCHANGED edgeReceipt
  <2>1. /\ edgeProc' \in EdgeProcs /\ edgeProc'.at = at /\ edgeProc'.mem = edgeProc.mem
        /\ edgeProc'.prepared = edgeProc.prepared
    BY <1>1, <1>s, <1>t, EdgeGoes
  <2> QED BY <1>1, <1>f, <1>t, <2>1, EdgeContinues
<1>2. ASSUME NEW h \in {edgeHost, done}, edgeHost' = h, edgeProc' = EdgeGoto("rbUnknown"), UNCHANGED edgeReceipt
      PROVE  MaintenanceInv'
  <2>1. /\ edgeProc' \in EdgeProcs /\ edgeProc'.at = "rbUnknown" /\ edgeProc'.mem = edgeProc.mem
        /\ edgeProc'.prepared = edgeProc.prepared
    BY <1>2, <1>s, <1>t, EdgeGoes
  <2>2. PlaceFits("rbUnknown", edgeProc.mem, edgeProc.prepared, h)
    BY DEF PlaceFits
  <2>3. h \in EdgeHosts /\ HostFits(h) /\ ReceiptFits(edgeReceipt, h)
    BY <1>t
  <2>4. ToolFits("rbUnknown", edgeProc.mem, edgeReceipt, h)
    BY <1>f, <1>s
  <2> QED BY <1>2, <1>t, <2>1, <2>2, <2>3, <2>4, EdgeContinues
<1>3. ASSUME NEW h \in {edgeHost, done}, edgeHost' = h, edgeProc' = EdgeIdle, UNCHANGED edgeReceipt
      PROVE  MaintenanceInv'
  BY <1>3, <1>t, EdgeStops
<1> QED BY <1>1, <1>2, <1>3 DEF Undo

\* The host after one thing on it has changed.
LEMMA EdgeHostFields ==
  ASSUME edgeHost \in EdgeHosts
  PROVE  /\ \A v \in BOOLEAN : LET h == [edgeHost EXCEPT !.gate = v] IN
              /\ h \in EdgeHosts /\ h.gate = v /\ h.service = edgeHost.service
              /\ h.launcher = edgeHost.launcher /\ h.backup = edgeHost.backup /\ h.snapshot = edgeHost.snapshot
              /\ h.schema = edgeHost.schema /\ h.upgrader = edgeHost.upgrader /\ h.upgrades = edgeHost.upgrades
         /\ \A v \in {"old", "new", "down"} : LET h == [edgeHost EXCEPT !.service = v] IN
              /\ h \in EdgeHosts /\ h.gate = edgeHost.gate /\ h.service = v
              /\ h.launcher = edgeHost.launcher /\ h.backup = edgeHost.backup /\ h.snapshot = edgeHost.snapshot
              /\ h.schema = edgeHost.schema /\ h.upgrader = edgeHost.upgrader /\ h.upgrades = edgeHost.upgrades
BY DEF EdgeHosts

\* What holds of the tool at work.
LEMMA EdgeAtWork ==
  ASSUME MaintenanceInv, edgeProc.at # "idle"
  PROVE  /\ edgeProc \in EdgeProcs /\ edgeReceipt \in EdgeReceipts /\ edgeHost \in EdgeHosts
         /\ edgeProc.mem \in EdgeMemory /\ edgeProc.mem.phase \in EdgePhases
         /\ HostFits(edgeHost) /\ ReceiptFits(edgeReceipt, edgeHost)
         /\ ToolFits(edgeProc.at, edgeProc.mem, edgeReceipt, edgeHost)
         /\ PlaceFits(edgeProc.at, edgeProc.mem, edgeProc.prepared, edgeHost)
BY EdgeTypes DEF MaintenanceInv, EdgeProcs, EdgeMemory

\* The memory with another phase.
LEMMA EdgeReach ==
  ASSUME edgeProc.mem \in EdgeMemory, NEW phase \in EdgePhases
  PROVE  /\ Reach(phase) \in EdgeMemory /\ Reach(phase).phase = phase
         /\ Reach(phase).upgrade = edgeProc.mem.upgrade /\ Reach(phase).probed = edgeProc.mem.probed
BY DEF Reach, EdgeMemory

\* deploy without a receipt.
LEMMA EdgeBeginKeeps == ASSUME MaintenanceInv, EdgeBegin PROVE MaintenanceInv'
<1>0. /\ edgeHost \in EdgeHosts /\ HostFits(edgeHost) /\ ReceiptFits(edgeReceipt, edgeHost)
      /\ edgeReceipt = NoReceipt /\ UNCHANGED edgeHost
  BY EdgeTypes DEF MaintenanceInv, EdgeBegin
<1>1. NoReceipt.phase = "PREFLIGHT" /\ NoReceipt.status = "none"
  BY DEF NoReceipt
<1>2. FreshMemory \in EdgeMemory /\ FreshMemory.phase = "PREFLIGHT" /\ "PREFLIGHT" \in EdgePhases
      /\ FreshMemory.upgrade = "NOT_STARTED"
  BY DEF FreshMemory, EdgeMemory, EdgePhases, BeforeStop, UpgradeStates
<1>3. /\ edgeProc' \in EdgeProcs /\ edgeProc'.at = "preflight" /\ edgeProc'.mem = FreshMemory
  <2>1. edgeProc' = [EdgeIdle EXCEPT !.at = "preflight"]
    BY DEF EdgeBegin
  <2>2. EdgeIdle.mem = FreshMemory
    BY DEF EdgeIdle
  <2> QED BY <2>1, <2>2, EdgeIsIdle DEF EdgeProcs, EdgeSteps
<1>4. /\ edgeReceipt' \in EdgeReceipts /\ edgeReceipt'.phase = "PREFLIGHT"
      /\ edgeReceipt'.status = "RUNNING" /\ edgeReceipt'.mem.phase = "PREFLIGHT"
      /\ edgeReceipt'.mem.upgrade = FreshMemory.upgrade /\ edgeReceipt'.mem.probed = FreshMemory.probed
  BY <1>2, EdgeSaved DEF EdgeBegin
<1>5. edgeHost.service = "old" /\ ~edgeHost.gate /\ edgeHost.launcher = "old" /\ edgeHost.upgrades = 0
  BY <1>0, <1>1 DEF ReceiptFits, PhaseFits, EdgeUnswapped, EdgeUnstarted, BeforeStop
<1>6. ReceiptFits(edgeReceipt', edgeHost)
  BY <1>4, <1>5 DEF ReceiptFits, PhaseFits, EdgeOver
<1>7. ToolFits("preflight", FreshMemory, edgeReceipt', edgeHost)
  BY <1>2, <1>4, <1>5 DEF ToolFits, PhaseFits, EdgeOver
<1>8. PlaceFits("preflight", FreshMemory, edgeProc'.prepared, edgeHost)
  BY <1>2, <1>5 DEF PlaceFits
<1> QED BY <1>0, <1>3, <1>4, <1>6, <1>7, <1>8, EdgeContinues

\* preflight only checks, before anything is touched.
LEMMA EdgePreflightKeeps == ASSUME MaintenanceInv, EdgePreflight PROVE MaintenanceInv'
<1>0. edgeProc.at = "preflight" /\ edgeProc.at # "idle" /\ edgeProc.at \in EdgeForward
  BY DEF EdgePreflight, EdgeForward
<1>1. PICK at \in {"deploy", "rollback", "unknown"} :
        edgeProc' = EdgeGoto(at) /\ UNCHANGED <<edgeHost, edgeReceipt>>
  BY DEF EdgePreflight, Probe
<1>2. edgeProc.mem.phase = "PREFLIGHT" /\ edgeHost.service = "old" /\ ~edgeHost.gate
  BY <1>0, EdgeAtWork DEF PlaceFits
<1>3. PlaceFits(at, edgeProc.mem, edgeProc.prepared, edgeHost)
  BY <1>2 DEF PlaceFits, EdgeBehindGate
<1>4. at \in EdgeSteps \ {"idle"}
  BY DEF EdgeSteps
<1> QED BY <1>0, <1>1, <1>3, <1>4, EdgeProbes

\* prepare builds the migration image while the old edge serves.
LEMMA EdgePrepareKeeps == ASSUME MaintenanceInv, EdgePrepare PROVE MaintenanceInv'
<1>0. /\ edgeProc.at # "idle" /\ edgeProc.at \in {"deploy", "prepare"}
      /\ edgeProc.at = "deploy" => edgeProc.mem.phase = "PREFLIGHT"
  BY DEF EdgePrepare
<1>1. PICK phase : phase = IF edgeProc.at = "prepare" THEN edgeProc.prepared ELSE "PREPARED"
  OBVIOUS
<1>2. phase \in {"PREPARED", "GATED"} /\ edgeProc.mem.phase \in {"PREFLIGHT", "PREPARED"} /\ phase \in EdgePhases
  BY <1>0, <1>1, EdgeAtWork DEF PlaceFits, EdgePhases, BeforeStop
<1>3. PICK mem : mem = [Reach(phase) EXCEPT !.image = TRUE]
  OBVIOUS
<1>4. mem \in EdgeMemory /\ mem.phase = phase
  BY <1>2, <1>3, EdgeReach, EdgeAtWork, <1>0 DEF EdgeMemory
<1>5. Perform("deploy", mem, edgeHost, {edgeHost})
  BY <1>1, <1>3 DEF EdgePrepare
<1>6. /\ edgeHost.launcher = "old" /\ edgeHost.upgrades = 0 /\ edgeHost.service # "new"
  BY <1>0, <1>2, EdgeAtWork DEF ToolFits, PhaseFits, EdgeUnswapped, EdgeUnstarted, BeforeStop, HostFits
<1>7. PhaseFits(phase, edgeHost) /\ phase \notin EdgeOver
  BY <1>2, <1>6 DEF PhaseFits, EdgeOver
<1>8. PlaceFits("deploy", mem, edgeProc.prepared, edgeHost) /\ PlaceFits("rollback", mem, edgeProc.prepared, edgeHost)
  BY <1>2, <1>4 DEF PlaceFits, EdgeBehindGate
<1>9. PlaceFits("rollback", edgeProc.mem, edgeProc.prepared, edgeHost) /\ PhaseFits(edgeProc.mem.phase, edgeHost)
  BY <1>0, <1>2, EdgeAtWork DEF PlaceFits, EdgeBehindGate, ToolFits
<1>10. "deploy" \in EdgeForward
  BY DEF EdgeForward
<1>11. edgeHost \in EdgeHosts /\ HostFits(edgeHost) /\ ReceiptFits(edgeReceipt, edgeHost)
  BY <1>0, EdgeAtWork
<1> QED BY <1>0, <1>4, <1>5, <1>6, <1>7, <1>8, <1>9, <1>10, <1>11, EdgePerforms

\* The gate closes on a running old edge.
LEMMA EdgeGateKeeps == ASSUME MaintenanceInv, EdgeGate PROVE MaintenanceInv'
<1>0. edgeProc.at = "deploy" /\ edgeProc.at # "idle" /\ edgeProc.mem.phase = "PREPARED"
  BY DEF EdgeGate
<1> DEFINE gated == [edgeHost EXCEPT !.gate = TRUE]
           tried == [edgeProc EXCEPT !.attempted = TRUE]
<1>1. /\ gated \in EdgeHosts /\ gated.gate = TRUE /\ gated.service = edgeHost.service
      /\ gated.launcher = edgeHost.launcher /\ gated.backup = edgeHost.backup /\ gated.snapshot = edgeHost.snapshot
      /\ gated.schema = edgeHost.schema /\ gated.upgrader = edgeHost.upgrader /\ gated.upgrades = edgeHost.upgrades
  BY <1>0, EdgeAtWork, EdgeHostFields
<1>2. edgeHost.launcher = "old" /\ edgeHost.upgrades = 0 /\ edgeHost.service # "new"
      /\ edgeReceipt.phase = "PREPARED" /\ edgeReceipt.status \in {"RUNNING", "UNKNOWN"}
  BY <1>0, EdgeAtWork DEF ToolFits, PhaseFits, EdgeUnswapped, EdgeUnstarted, BeforeStop, HostFits, EdgeForward
<1>3. \A h \in {edgeHost, gated} : h \in EdgeHosts /\ HostFits(h) /\ ReceiptFits(edgeReceipt, h)
  <2>1. HostFits(gated)
    BY <1>0, <1>1, EdgeAtWork DEF HostFits
  <2>2. ReceiptFits(edgeReceipt, gated)
    BY <1>0, <1>1, <1>2, EdgeAtWork DEF ReceiptFits, PhaseFits
  <2> QED BY <1>0, <1>1, <2>1, <2>2, EdgeAtWork
<1>4. ASSUME NEW at \in {"deploy", "rollback", "unknown"}, NEW phase \in {"PREPARED", "GATED"}, NEW h \in {edgeHost, gated},
             NEW p, p \in EdgeProcs, p.at = at, p.mem.phase = phase,
             edgeProc' = p, edgeHost' = h,
             \/ UNCHANGED edgeReceipt /\ at # "deploy"
             \/ /\ EdgeSave(edgeProc.mem, "GATED", "RUNNING", "none") /\ phase = "GATED"
                /\ p.mem.upgrade = edgeProc.mem.upgrade /\ p.mem.probed = edgeProc.mem.probed
      PROVE  MaintenanceInv'
  <2>1. PhaseFits(phase, h)
    BY <1>1, <1>2, <1>4 DEF PhaseFits
  <2>2. PlaceFits(at, p.mem, p.prepared, h)
    BY <1>4 DEF PlaceFits, EdgeBehindGate
  <2>3. h.service # "new" /\ h.launcher = "old" /\ h.upgrades = 0
    BY <1>1, <1>2
  <2>4. CASE UNCHANGED edgeReceipt /\ at # "deploy"
    <3>1. ToolFits(at, p.mem, edgeReceipt, h)
      BY <1>2, <1>4, <2>1, <2>3, <2>4 DEF ToolFits, EdgeForward, EdgeOver
    <3> QED BY <1>3, <1>4, <2>2, <2>4, <3>1, EdgeContinues, EdgeAtWork, <1>0
  <2>5. CASE /\ EdgeSave(edgeProc.mem, "GATED", "RUNNING", "none") /\ phase = "GATED"
             /\ p.mem.upgrade = edgeProc.mem.upgrade /\ p.mem.probed = edgeProc.mem.probed
    <3>0. "GATED" \in EdgePhases
      BY DEF EdgePhases, BeforeStop
    <3>1. /\ edgeReceipt' \in EdgeReceipts /\ edgeReceipt'.phase = "GATED"
          /\ edgeReceipt'.status = "RUNNING" /\ edgeReceipt'.mem.phase = "GATED"
          /\ edgeReceipt'.mem.upgrade = edgeProc.mem.upgrade /\ edgeReceipt'.mem.probed = edgeProc.mem.probed
      BY <1>0, <2>5, <3>0, EdgeSaved, EdgeAtWork
    <3>2. ToolFits(at, p.mem, edgeReceipt', h)
      BY <1>4, <2>1, <2>3, <2>5, <3>1 DEF ToolFits, EdgeOver
    <3>3. ReceiptFits(edgeReceipt', h)
      BY <2>1, <2>3, <2>5, <3>1 DEF ReceiptFits, EdgeOver
    <3> QED BY <1>3, <1>4, <2>2, <3>1, <3>2, <3>3, EdgeContinues
  <2> QED BY <1>4, <2>4, <2>5
<1>5. PICK m : m = [edgeProc.mem EXCEPT !.phase = "GATED"]
  OBVIOUS
<1>6. m \in EdgeMemory /\ m.phase = "GATED" /\ m.upgrade = edgeProc.mem.upgrade /\ m.probed = edgeProc.mem.probed
  BY <1>0, <1>5, EdgeAtWork DEF EdgeMemory, EdgePhases, BeforeStop
<1>7. edgeProc \in EdgeProcs /\ {"deploy", "rollback", "unknown"} \subseteq EdgeSteps
  BY <1>0, EdgeAtWork DEF EdgeSteps
<1>8. tried \in EdgeProcs /\ tried.at = "deploy" /\ tried.mem = edgeProc.mem
  BY <1>0, <1>7 DEF EdgeProcs
<1> HIDE DEF gated
<1>9. CASE /\ edgeHost' = gated /\ edgeProc' = [tried EXCEPT !.mem.phase = "GATED"]
           /\ EdgeSave(edgeProc.mem, "GATED", "RUNNING", "none")
  <2>1. PICK p : p = [tried EXCEPT !.mem = m]
    OBVIOUS
  <2>2. p = edgeProc'
    BY <1>5, <1>8, <1>9, <2>1 DEF EdgeProcs
  <2>3. p \in EdgeProcs /\ p.at = "deploy" /\ p.mem = m
    BY <1>6, <1>8, <2>1 DEF EdgeProcs
  <2> QED BY <1>4, <1>6, <1>9, <2>2, <2>3
<1>10. CASE /\ edgeHost' = gated /\ edgeProc' = [tried EXCEPT !.mem.phase = "GATED", !.at = "rollback"]
            /\ UNCHANGED edgeReceipt
  <2>1. PICK p : p = [tried EXCEPT !.mem = m, !.at = "rollback"]
    OBVIOUS
  <2>2. p = edgeProc'
    BY <1>5, <1>8, <1>10, <2>1 DEF EdgeProcs
  <2>3. p \in EdgeProcs /\ p.at = "rollback" /\ p.mem = m
    BY <1>6, <1>7, <1>8, <2>1 DEF EdgeProcs
  <2> QED BY <1>4, <1>6, <1>10, <2>2, <2>3
<1>11. ASSUME NEW at \in {"unknown", "rollback"}, edgeHost' \in {edgeHost, gated}, UNCHANGED edgeReceipt,
              edgeProc' = [tried EXCEPT !.at = at]
       PROVE  MaintenanceInv'
  <2>1. PICK p : p = [tried EXCEPT !.at = at]
    OBVIOUS
  <2>3. p \in EdgeProcs /\ p.at = at /\ p.mem = edgeProc.mem
    BY <1>7, <1>8, <2>1 DEF EdgeProcs
  <2> QED BY <1>0, <1>4, <1>11, <2>1, <2>3
<1>12. CASE edgeHost' \in {edgeHost, gated} /\ UNCHANGED edgeReceipt /\ edgeProc' = EdgeIdle
  BY <1>0, <1>3, <1>12, EdgeStops, EdgeAtWork
<1> QED BY <1>9, <1>10, <1>11, <1>12 DEF EdgeGate, gated

\* The old edge stops behind the gate.
LEMMA EdgeStopKeeps == ASSUME MaintenanceInv, EdgeStop PROVE MaintenanceInv'
<1>0. edgeProc.at = "deploy" /\ edgeProc.at # "idle" /\ edgeProc.mem.phase = "GATED" /\ edgeProc.at \in EdgeForward
  BY DEF EdgeStop, EdgeForward
<1>1. CASE edgeProc' = EdgeGoto("abort") /\ UNCHANGED <<edgeHost, edgeReceipt>>
  <2>1. PlaceFits("abort", edgeProc.mem, edgeProc.prepared, edgeHost)
    BY <1>0 DEF PlaceFits
  <2>2. "abort" \in EdgeSteps \ {"idle"}
    BY DEF EdgeSteps
  <2> QED BY <1>0, <1>1, <2>1, <2>2, EdgeProbes
<1> DEFINE down == [edgeHost EXCEPT !.service = "down"]
<1>2. CASE edgeHost.gate /\ Perform("deploy", Reach("STOPPED"), down, {edgeHost, down})
  <2>1. /\ down \in EdgeHosts /\ down.gate = edgeHost.gate /\ down.service = "down"
        /\ down.launcher = edgeHost.launcher /\ down.backup = edgeHost.backup /\ down.snapshot = edgeHost.snapshot
        /\ down.upgrades = edgeHost.upgrades
    BY <1>0, EdgeAtWork, EdgeHostFields
  <2>2. edgeHost.launcher = "old" /\ edgeHost.upgrades = 0 /\ edgeHost.service # "new"
        /\ edgeReceipt.phase = "GATED" /\ edgeReceipt.status \in {"RUNNING", "UNKNOWN"}
    BY <1>0, EdgeAtWork DEF ToolFits, PhaseFits, EdgeUnswapped, EdgeUnstarted, BeforeStop, HostFits
  <2>3. PICK mem : mem = Reach("STOPPED")
    OBVIOUS
  <2>4. mem \in EdgeMemory /\ mem.phase = "STOPPED" /\ "STOPPED" \in EdgePhases
    BY <1>0, <2>3, EdgeReach, EdgeAtWork DEF EdgePhases
  <2> HIDE DEF down
  <2>5. HostFits(down) /\ ReceiptFits(edgeReceipt, down)
    <3>1. HostFits(down)
      BY <1>0, <2>1, EdgeAtWork DEF HostFits
    <3>2. ReceiptFits(edgeReceipt, down)
      BY <1>0, <2>1, <2>2, EdgeAtWork DEF ReceiptFits, PhaseFits
    <3> QED BY <3>1, <3>2
  <2>6. \A h \in {edgeHost, down} : h.gate /\ h.service # "new" /\ PhaseFits("STOPPED", h) /\ PhaseFits("GATED", h)
    BY <1>2, <2>1, <2>2 DEF PhaseFits
  <2>7. /\ PlaceFits("deploy", mem, edgeProc.prepared, down) /\ PlaceFits("rollback", mem, edgeProc.prepared, down)
        /\ \A h \in {edgeHost, down} : PlaceFits("rollback", edgeProc.mem, edgeProc.prepared, h)
    BY <1>0, <2>4, <2>6 DEF PlaceFits
  <2>8. "deploy" \in EdgeForward /\ {edgeHost, down} \in SUBSET EdgeHosts /\ mem.phase \notin EdgeOver
        /\ \A h \in {edgeHost, down} \cup {down} : HostFits(h) /\ ReceiptFits(edgeReceipt, h)
    BY <1>0, <2>1, <2>4, <2>5, EdgeAtWork DEF EdgeForward, EdgeOver
  <2>9. Perform("deploy", mem, down, {edgeHost, down})
    BY <1>2, <2>3
  <2> QED BY <1>0, <2>1, <2>4, <2>6, <2>7, <2>8, <2>9, EdgePerforms
<1> QED BY <1>1, <1>2 DEF EdgeStop, PublicGated

\* The receipt says an upgrade may have happened before one is started.
LEMMA EdgeAnnounceKeeps == ASSUME MaintenanceInv, EdgeAnnounceUpgrade PROVE MaintenanceInv'
<1>0. edgeProc.at = "deploy" /\ edgeProc.at # "idle" /\ edgeProc.mem.phase = "STOPPED" /\ edgeProc.at \in EdgeForward
  BY DEF EdgeAnnounceUpgrade, EdgeForward
<1>1. PICK mem : mem = [Reach("UPGRADE_PENDING") EXCEPT !.upgrade = "PENDING"]
  OBVIOUS
<1>2. mem \in EdgeMemory /\ mem.phase = "UPGRADE_PENDING"
  BY <1>0, <1>1, EdgeReach, EdgeAtWork DEF EdgePhases, EdgeMemory, UpgradeStates
<1>3. edgeHost.launcher = "old" /\ edgeHost.upgrades = 0 /\ edgeHost.service # "new" /\ edgeHost.gate
  BY <1>0, EdgeAtWork DEF ToolFits, PhaseFits, EdgeUnswapped, EdgeUnstarted, HostFits, PlaceFits, EdgeBehindGate
<1>4. PhaseFits(mem.phase, edgeHost) /\ mem.phase \notin EdgeOver
  BY <1>2, <1>3 DEF PhaseFits, EdgeOver
<1>5. PlaceFits("upgrade", mem, edgeProc.prepared, edgeHost) /\ PlaceFits("rollback", mem, edgeProc.prepared, edgeHost)
  BY <1>2, <1>3 DEF PlaceFits
<1>6. edgeHost \in EdgeHosts /\ HostFits(edgeHost) /\ ReceiptFits(edgeReceipt, edgeHost) /\ "upgrade" \in EdgeForward
  BY <1>0, EdgeAtWork DEF EdgeForward
<1>7. Perform("upgrade", mem, edgeHost, {})
  BY <1>1 DEF EdgeAnnounceUpgrade
<1> QED BY <1>0, <1>2, <1>3, <1>4, <1>5, <1>6, <1>7, EdgePerforms

\* The upgrade may succeed, fail, or be left with an unknown effect.
LEMMA EdgeUpgradeKeeps == ASSUME MaintenanceInv, EdgeUpgrade PROVE MaintenanceInv'
<1>0. edgeProc.at = "upgrade" /\ edgeProc.at # "idle" /\ edgeProc.at \in EdgeForward
  BY DEF EdgeUpgrade, EdgeForward
<1>1. CASE edgeProc' = EdgeGoto("unknown") /\ UNCHANGED <<edgeHost, edgeReceipt>>
  <2>1. PlaceFits("unknown", edgeProc.mem, edgeProc.prepared, edgeHost)
    BY DEF PlaceFits
  <2>2. "unknown" \in EdgeSteps \ {"idle"} /\ "unknown" \notin EdgeForward
    BY DEF EdgeSteps, EdgeForward
  <2> QED BY <1>0, <1>1, <2>1, <2>2, EdgeProbes
<1> DEFINE ran == [edgeHost EXCEPT !.upgrades = @ + 1]
           after == [ran EXCEPT !.schema = "after"]
           late == [ran EXCEPT !.upgrader = "running"]
<1>2. CASE Perform("deploy", [Reach("UPGRADED") EXCEPT !.upgrade = UpgradeResult(edgeHost)], after, {ran, after, late})
  <2>1. edgeHost.launcher = "old" /\ edgeHost.upgrades = 0 /\ edgeHost.service # "new" /\ edgeHost.gate
        /\ edgeReceipt.phase = "UPGRADE_PENDING" /\ edgeReceipt.status \in {"RUNNING", "UNKNOWN"}
        /\ edgeProc.mem.phase = "UPGRADE_PENDING" /\ edgeHost \in EdgeHosts
    BY <1>0, EdgeAtWork DEF ToolFits, PhaseFits, EdgeUnswapped, HostFits, PlaceFits
  <2>2. PICK mem : mem = [Reach("UPGRADED") EXCEPT !.upgrade = UpgradeResult(edgeHost)]
    OBVIOUS
  <2>3. mem \in EdgeMemory /\ mem.phase = "UPGRADED"
    BY <1>0, <2>2, EdgeReach, EdgeAtWork DEF EdgePhases, EdgeMemory, UpgradeStates, UpgradeResult
  <2>4. /\ ran \in EdgeHosts /\ ran.gate = edgeHost.gate /\ ran.service = edgeHost.service
        /\ ran.launcher = edgeHost.launcher /\ ran.backup = edgeHost.backup /\ ran.snapshot = edgeHost.snapshot
        /\ ran.upgrades = 1
    <3>1. ran = [edgeHost EXCEPT !.upgrades = 1]
      <4>1. edgeHost.upgrades + 1 = 1
        BY <2>1
      <4> QED BY <4>1
    <3>2. 1 \in 0..2
      OBVIOUS
    <3> HIDE DEF ran
    <3> QED BY <2>1, <3>1, <3>2 DEF EdgeHosts
  <2>5. \A h \in {ran, after, late} :
          /\ h \in EdgeHosts /\ h.gate /\ h.service # "new" /\ h.launcher = "old" /\ h.upgrades = 1
    <3> HIDE DEF ran
    <3> QED BY <2>1, <2>4 DEF EdgeHosts
  <2> HIDE DEF ran, after, late
  <2>6. \A h \in {ran, after, late} :
          /\ HostFits(h) /\ ReceiptFits(edgeReceipt, h) /\ PhaseFits("UPGRADED", h) /\ PhaseFits("UPGRADE_PENDING", h)
    <3> SUFFICES ASSUME NEW h \in {ran, after, late}
                 PROVE  /\ HostFits(h) /\ ReceiptFits(edgeReceipt, h)
                        /\ PhaseFits("UPGRADED", h) /\ PhaseFits("UPGRADE_PENDING", h)
      OBVIOUS
    <3>1. h \in EdgeHosts /\ h.gate /\ h.service # "new" /\ h.launcher = "old" /\ h.upgrades = 1
      BY <2>5
    <3>2. HostFits(h)
      BY <3>1 DEF HostFits
    <3>3. PhaseFits("UPGRADED", h) /\ PhaseFits("UPGRADE_PENDING", h)
      BY <3>1 DEF PhaseFits, EdgeUnstarted, BeforeStop
    <3>4. edgeReceipt.mem.phase = "UPGRADE_PENDING"
      BY <1>0, <2>1, EdgeAtWork DEF ReceiptFits
    <3>5. ReceiptFits(edgeReceipt, h)
      BY <2>1, <3>1, <3>3, <3>4 DEF ReceiptFits, EdgeOver
    <3> QED BY <3>2, <3>3, <3>5
  <2>7. /\ PlaceFits("deploy", mem, edgeProc.prepared, after) /\ PlaceFits("rollback", mem, edgeProc.prepared, after)
        /\ \A h \in {ran, after, late} : PlaceFits("rollback", edgeProc.mem, edgeProc.prepared, h)
    BY <2>1, <2>3, <2>5 DEF PlaceFits
  <2>8. "deploy" \in EdgeForward /\ mem.phase \notin EdgeOver
    BY <2>3 DEF EdgeForward, EdgeOver
  <2>9. Perform("deploy", mem, after, {ran, after, late})
    BY <1>2, <2>2
  <2>10. {ran, after, late} \in SUBSET EdgeHosts /\ after \in EdgeHosts /\ after.service # "new"
    BY <2>5
  <2>11. \A h \in {ran, after, late} \cup {after} : HostFits(h) /\ ReceiptFits(edgeReceipt, h)
    BY <2>6
  <2>12. \A h \in {ran, after, late} : PhaseFits(edgeProc.mem.phase, h) /\ h.service # "new"
    BY <2>1, <2>5, <2>6
  <2>13. PhaseFits(mem.phase, after)
    BY <2>3, <2>6
  <2> QED BY <1>0, <2>3, <2>7, <2>8, <2>9, <2>10, <2>11, <2>12, <2>13, EdgePerforms
<1> QED BY <1>1, <1>2 DEF EdgeUpgrade

\* An upgrader that outlived its tool ends by itself.
LEMMA EdgeUpgraderKeeps == ASSUME MaintenanceInv, EdgeUpgraderEnds PROVE MaintenanceInv'
<1>0. /\ edgeProc \in EdgeProcs /\ edgeReceipt \in EdgeReceipts /\ edgeHost \in EdgeHosts
      /\ HostFits(edgeHost) /\ ReceiptFits(edgeReceipt, edgeHost) /\ edgeHost.upgrader = "running"
      /\ edgeReceipt' = edgeReceipt /\ edgeProc' = edgeProc
  BY EdgeTypes DEF MaintenanceInv, EdgeUpgraderEnds
<1>1. PICK s \in {edgeHost.schema, "after"} : edgeHost' = [edgeHost EXCEPT !.upgrader = "idle", !.schema = s]
  BY DEF EdgeUpgraderEnds
<1>2. /\ edgeHost' \in EdgeHosts /\ edgeHost'.gate = edgeHost.gate /\ edgeHost'.service = edgeHost.service
      /\ edgeHost'.launcher = edgeHost.launcher /\ edgeHost'.backup = edgeHost.backup /\ edgeHost'.snapshot = edgeHost.snapshot
      /\ edgeHost'.upgrades = edgeHost.upgrades
  BY <1>0, <1>1 DEF EdgeHosts
<1>3. HostFits(edgeHost')
  BY <1>0, <1>2 DEF HostFits
<1>4. ReceiptFits(edgeReceipt', edgeHost')
  BY <1>0, <1>2 DEF ReceiptFits, PhaseFits
<1>5. CASE edgeProc.at = "idle"
  BY <1>0, <1>2, <1>3, <1>4, <1>5 DEF MaintenanceInv, EdgeTypeOK, EdgeProcs
<1>6. CASE edgeProc.at # "idle"
  <2>1. ToolFits(edgeProc.at, edgeProc.mem, edgeReceipt', edgeHost')
    BY <1>0, <1>2, <1>6, EdgeAtWork DEF ToolFits, PhaseFits
  <2>2. PlaceFits(edgeProc.at, edgeProc.mem, edgeProc.prepared, edgeHost')
    BY <1>0, <1>2, <1>6, EdgeAtWork DEF PlaceFits
  <2> QED BY <1>0, <1>2, <1>3, <1>4, <2>1, <2>2, EdgeContinues
<1> QED BY <1>5, <1>6

\* The state is snapshotted before the launcher changes.
LEMMA EdgeSnapshotKeeps == ASSUME MaintenanceInv, EdgeSnapshot PROVE MaintenanceInv'
<1>0. edgeProc.at = "deploy" /\ edgeProc.at # "idle" /\ edgeProc.mem.phase = "UPGRADED" /\ edgeProc.at \in EdgeForward
  BY DEF EdgeSnapshot, EdgeForward
<1> DEFINE taken == [edgeHost EXCEPT !.snapshot = TRUE]
<1>1. /\ taken \in EdgeHosts /\ taken.gate = edgeHost.gate /\ taken.service = edgeHost.service
      /\ taken.launcher = edgeHost.launcher /\ taken.snapshot = TRUE /\ taken.upgrades = edgeHost.upgrades
  BY <1>0, EdgeAtWork DEF EdgeHosts
<1>2. edgeHost.launcher = "old" /\ edgeHost.service # "new" /\ edgeHost.gate
      /\ edgeReceipt.phase = "UPGRADED" /\ edgeReceipt.status \in {"RUNNING", "UNKNOWN"} /\ edgeReceipt.mem.phase = "UPGRADED"
  BY <1>0, EdgeAtWork DEF ToolFits, PhaseFits, EdgeUnswapped, HostFits, PlaceFits, EdgeBehindGate, ReceiptFits
<1>3. PICK mem : mem = [Reach("SNAPSHOTTED") EXCEPT !.snap = TRUE]
  OBVIOUS
<1>4. mem \in EdgeMemory /\ mem.phase = "SNAPSHOTTED"
  BY <1>0, <1>3, EdgeReach, EdgeAtWork DEF EdgePhases, EdgeMemory
<1> HIDE DEF taken
<1>5. HostFits(taken) /\ ReceiptFits(edgeReceipt, taken) /\ PhaseFits("SNAPSHOTTED", taken) /\ PhaseFits("UPGRADED", taken)
      /\ PhaseFits("UPGRADED", edgeHost)
  <2>1. HostFits(taken)
    BY <1>0, <1>1, <1>2, EdgeAtWork DEF HostFits
  <2>2. PhaseFits("SNAPSHOTTED", taken) /\ PhaseFits("UPGRADED", taken) /\ PhaseFits("UPGRADED", edgeHost)
    BY <1>1, <1>2 DEF PhaseFits, EdgeUnstarted, BeforeStop
  <2>3. ReceiptFits(edgeReceipt, taken)
    BY <1>1, <1>2, <2>2 DEF ReceiptFits, EdgeOver
  <2> QED BY <2>1, <2>2, <2>3
<1>6. /\ PlaceFits("deploy", mem, edgeProc.prepared, taken) /\ PlaceFits("rollback", mem, edgeProc.prepared, taken)
      /\ \A h \in {edgeHost, taken} : PlaceFits("rollback", edgeProc.mem, edgeProc.prepared, h) /\ h.service # "new"
  BY <1>0, <1>1, <1>2, <1>4 DEF PlaceFits
<1>7. "deploy" \in EdgeForward /\ mem.phase \notin EdgeOver /\ {edgeHost, taken} \in SUBSET EdgeHosts
      /\ \A h \in {edgeHost, taken} \cup {taken} : HostFits(h) /\ ReceiptFits(edgeReceipt, h)
  BY <1>0, <1>1, <1>4, <1>5, EdgeAtWork DEF EdgeForward, EdgeOver
<1>8. Perform("deploy", mem, taken, {edgeHost, taken})
  BY <1>3 DEF EdgeSnapshot, taken
<1>9. \A h \in {edgeHost, taken} : PhaseFits(edgeProc.mem.phase, h)
  BY <1>0, <1>5
<1> QED BY <1>0, <1>1, <1>4, <1>5, <1>6, <1>7, <1>8, <1>9, EdgePerforms

\* The launcher is swapped with the old one kept behind it.
LEMMA EdgeSwapKeeps == ASSUME MaintenanceInv, EdgeSwap PROVE MaintenanceInv'
<1>0. edgeProc.at = "deploy" /\ edgeProc.at # "idle" /\ edgeProc.mem.phase = "SNAPSHOTTED" /\ edgeProc.at \in EdgeForward
  BY DEF EdgeSwap, EdgeForward
<1> DEFINE aside == [edgeHost EXCEPT !.backup = TRUE]
           swapped == [aside EXCEPT !.launcher = "new"]
<1>2. /\ edgeHost.gate /\ edgeHost.snapshot
      /\ edgeReceipt.phase = "SNAPSHOTTED" /\ edgeReceipt.status \in {"RUNNING", "UNKNOWN"} /\ edgeReceipt.mem.phase = "SNAPSHOTTED"
  BY <1>0, EdgeAtWork DEF ToolFits, PhaseFits, PlaceFits, EdgeBehindGate, ReceiptFits
<1>1. /\ aside \in EdgeHosts /\ aside.gate = edgeHost.gate /\ aside.service = edgeHost.service
      /\ aside.launcher = edgeHost.launcher /\ aside.backup = TRUE /\ aside.snapshot = edgeHost.snapshot
      /\ aside.upgrades = edgeHost.upgrades
  BY <1>0, EdgeAtWork DEF EdgeHosts
<1>3. /\ swapped \in EdgeHosts /\ swapped.gate = edgeHost.gate /\ swapped.service = edgeHost.service
      /\ swapped.launcher = "new" /\ swapped.backup = TRUE /\ swapped.snapshot = edgeHost.snapshot
      /\ swapped.upgrades = edgeHost.upgrades
  <2> HIDE DEF aside
  <2> QED BY <1>1 DEF EdgeHosts
<1> HIDE DEF aside, swapped
<1>4. PICK mem : mem = Reach("SWAPPED")
  OBVIOUS
<1>5. mem \in EdgeMemory /\ mem.phase = "SWAPPED"
  BY <1>0, <1>4, EdgeReach, EdgeAtWork DEF EdgePhases, AfterSwap
<1>6. \A h \in {edgeHost, aside, swapped} :
        h \in EdgeHosts /\ h.gate /\ HostFits(h) /\ ReceiptFits(edgeReceipt, h) /\ PhaseFits("SNAPSHOTTED", h)
  <2> SUFFICES ASSUME NEW h \in {edgeHost, aside, swapped}
               PROVE  h \in EdgeHosts /\ h.gate /\ HostFits(h) /\ ReceiptFits(edgeReceipt, h) /\ PhaseFits("SNAPSHOTTED", h)
    OBVIOUS
  <2>1. h \in EdgeHosts /\ h.gate /\ h.snapshot
    BY <1>0, <1>1, <1>2, <1>3, EdgeAtWork
  <2>2. HostFits(h)
    BY <1>0, <1>1, <1>2, <1>3, EdgeAtWork DEF HostFits
  <2>3. PhaseFits("SNAPSHOTTED", h)
    BY <2>1 DEF PhaseFits, EdgeUnswapped, EdgeUnstarted, BeforeStop
  <2>4. ReceiptFits(edgeReceipt, h)
    BY <1>2, <2>1, <2>3 DEF ReceiptFits, EdgeOver
  <2> QED BY <2>1, <2>2, <2>3, <2>4
<1>7. PhaseFits(mem.phase, swapped) /\ mem.phase \notin EdgeOver
  BY <1>5 DEF PhaseFits, EdgeUnswapped, EdgeUnstarted, BeforeStop, EdgeOver
<1>8. /\ PlaceFits("deploy", mem, edgeProc.prepared, swapped) /\ PlaceFits("rollback", mem, edgeProc.prepared, swapped)
      /\ \A h \in {edgeHost, aside, swapped} : PlaceFits("rollback", edgeProc.mem, edgeProc.prepared, h)
  BY <1>0, <1>5, <1>6 DEF PlaceFits
<1>9. Perform("deploy", mem, swapped, {edgeHost, aside, swapped})
  BY <1>4 DEF EdgeSwap, aside, swapped
<1>10. "deploy" \in EdgeForward /\ {edgeHost, aside, swapped} \in SUBSET EdgeHosts
      /\ \A h \in {edgeHost, aside, swapped} \cup {swapped} : HostFits(h) /\ ReceiptFits(edgeReceipt, h)
  BY <1>6 DEF EdgeForward
<1>11. \A h \in {edgeHost, aside, swapped} : PhaseFits(edgeProc.mem.phase, h) /\ h.gate
  BY <1>0, <1>6
<1> QED BY <1>0, <1>3, <1>5, <1>7, <1>8, <1>9, <1>10, <1>11, EdgePerforms

\* The candidate starts behind the gate.
LEMMA EdgeStartKeeps == ASSUME MaintenanceInv, EdgeStart PROVE MaintenanceInv'
<1>0. edgeProc.at = "deploy" /\ edgeProc.at # "idle" /\ edgeProc.mem.phase = "SWAPPED" /\ edgeProc.at \in EdgeForward
  BY DEF EdgeStart, EdgeForward
<1> DEFINE up == [edgeHost EXCEPT !.service = edgeHost.launcher]
<1>2. /\ edgeHost.gate /\ edgeHost.launcher \in {"old", "new"}
      /\ edgeReceipt.phase = "SWAPPED" /\ edgeReceipt.status \in {"RUNNING", "UNKNOWN"} /\ edgeReceipt.mem.phase = "SWAPPED"
  BY <1>0, EdgeAtWork DEF ToolFits, PlaceFits, EdgeBehindGate, ReceiptFits, EdgeHosts
<1>1. /\ up \in EdgeHosts /\ up.gate = edgeHost.gate /\ up.service = edgeHost.launcher
      /\ up.launcher = edgeHost.launcher /\ up.backup = edgeHost.backup /\ up.snapshot = edgeHost.snapshot
      /\ up.upgrades = edgeHost.upgrades
  BY <1>0, <1>2, EdgeAtWork, EdgeHostFields
<1> HIDE DEF up
<1>4. PICK mem : mem = Reach("STARTED")
  OBVIOUS
<1>5. mem \in EdgeMemory /\ mem.phase = "STARTED"
  BY <1>0, <1>4, EdgeReach, EdgeAtWork DEF EdgePhases, AfterSwap
<1>6. \A h \in {edgeHost, up} :
        h \in EdgeHosts /\ h.gate /\ HostFits(h) /\ ReceiptFits(edgeReceipt, h) /\ PhaseFits("SWAPPED", h) /\ PhaseFits("STARTED", h)
  <2> SUFFICES ASSUME NEW h \in {edgeHost, up}
               PROVE  /\ h \in EdgeHosts /\ h.gate /\ HostFits(h) /\ ReceiptFits(edgeReceipt, h)
                      /\ PhaseFits("SWAPPED", h) /\ PhaseFits("STARTED", h)
    OBVIOUS
  <2>1. h \in EdgeHosts /\ h.gate
    BY <1>0, <1>1, <1>2, EdgeAtWork
  <2>2. HostFits(h)
    BY <1>0, <1>1, <1>2, EdgeAtWork DEF HostFits
  <2>3. PhaseFits("SWAPPED", h) /\ PhaseFits("STARTED", h)
    BY <2>1 DEF PhaseFits, EdgeUnswapped, EdgeUnstarted, BeforeStop
  <2>4. ReceiptFits(edgeReceipt, h)
    BY <1>2, <2>1, <2>3 DEF ReceiptFits, EdgeOver
  <2> QED BY <2>1, <2>2, <2>3, <2>4
<1>7. PhaseFits(mem.phase, up) /\ mem.phase \notin EdgeOver
  BY <1>5, <1>6 DEF EdgeOver
<1>8. /\ PlaceFits("verify", mem, edgeProc.prepared, up) /\ PlaceFits("rollback", mem, edgeProc.prepared, up)
      /\ \A h \in {edgeHost, up} : PlaceFits("rollback", edgeProc.mem, edgeProc.prepared, h)
  BY <1>0, <1>5, <1>6 DEF PlaceFits, EdgeBehindGate
<1>9. Perform("verify", mem, up, {edgeHost, up})
  BY <1>4 DEF EdgeStart, up
<1>10. "verify" \in EdgeForward /\ {edgeHost, up} \in SUBSET EdgeHosts
      /\ \A h \in {edgeHost, up} \cup {up} : HostFits(h) /\ ReceiptFits(edgeReceipt, h)
  BY <1>6 DEF EdgeForward
<1>11. \A h \in {edgeHost, up} : PhaseFits(edgeProc.mem.phase, h) /\ h.gate
  BY <1>0, <1>6
<1> QED BY <1>0, <1>1, <1>5, <1>7, <1>8, <1>9, <1>10, <1>11, EdgePerforms

\* local_ready of a candidate that was started decides between going on and a failure.
LEMMA EdgeVerifyKeeps == ASSUME MaintenanceInv, EdgeVerify PROVE MaintenanceInv'
<1>0. /\ edgeProc.at \in {"verify", "deploy"} /\ edgeProc.at # "idle" /\ edgeProc.at \in EdgeForward
      /\ edgeProc.at = "deploy" => edgeProc.mem.phase \in {"STARTED", "UNGATED"}
  BY DEF EdgeVerify, EdgeForward
<1>1. edgeProc.mem.phase \in {"STARTED", "UNGATED"}
  BY <1>0, EdgeAtWork DEF PlaceFits
<1>2. PICK at \in {"semantic", "ungate", "rollback", "unknown"} :
        /\ edgeProc' = EdgeGoto(at) /\ UNCHANGED <<edgeHost, edgeReceipt>>
        /\ at = "ungate" => edgeProc.mem.upgrade # "NO_EFFECT"
  BY DEF EdgeVerify, Probe
<1>3. PlaceFits(at, edgeProc.mem, edgeProc.prepared, edgeHost)
  BY <1>1, <1>2 DEF PlaceFits, EdgeBehindGate, EdgeProven
<1>4. at \in EdgeSteps \ {"idle"}
  BY DEF EdgeSteps
<1> QED BY <1>0, <1>2, <1>3, <1>4, EdgeProbes

\* The probe behind the gate binds its digest to the receipt, or fails.
LEMMA EdgeSemanticKeeps == ASSUME MaintenanceInv, EdgeSemantic PROVE MaintenanceInv'
<1>0. edgeProc.at = "semantic" /\ edgeProc.at # "idle" /\ edgeProc.at \in EdgeForward
  BY DEF EdgeSemantic, EdgeForward
<1>1. edgeProc.mem.phase \in {"STARTED", "UNGATED"}
  BY <1>0, EdgeAtWork DEF PlaceFits
<1>2. CASE edgeHost.gate /\ Perform("ungate", [edgeProc.mem EXCEPT !.probed = TRUE], edgeHost, {edgeHost})
  <2>1. PICK mem : mem = [edgeProc.mem EXCEPT !.probed = TRUE]
    OBVIOUS
  <2>2. mem \in EdgeMemory /\ mem.phase = edgeProc.mem.phase /\ mem.probed = TRUE
    BY <1>0, <2>1, EdgeAtWork DEF EdgeMemory
  <2>3. EdgeProven(mem)
    BY <1>1, <2>2 DEF EdgeProven
  <2>4. /\ PlaceFits("ungate", mem, edgeProc.prepared, edgeHost) /\ PlaceFits("rollback", mem, edgeProc.prepared, edgeHost)
        /\ PlaceFits("rollback", edgeProc.mem, edgeProc.prepared, edgeHost)
    BY <1>1, <2>2, <2>3 DEF PlaceFits, EdgeBehindGate
  <2>5. PhaseFits(mem.phase, edgeHost) /\ PhaseFits(edgeProc.mem.phase, edgeHost) /\ mem.phase \notin EdgeOver
    BY <1>0, <2>2, EdgeAtWork DEF ToolFits
  <2>6. edgeHost \in EdgeHosts /\ HostFits(edgeHost) /\ ReceiptFits(edgeReceipt, edgeHost) /\ "ungate" \in EdgeForward
    BY <1>0, EdgeAtWork DEF EdgeForward
  <2>7. Perform("ungate", mem, edgeHost, {edgeHost})
    BY <1>2, <2>1
  <2> QED BY <1>0, <1>2, <2>2, <2>3, <2>4, <2>5, <2>6, <2>7, EdgePerforms
<1>3. ASSUME NEW at \in {"ungate", "rollback", "unknown"}, edgeProc' = EdgeGoto(at), UNCHANGED <<edgeHost, edgeReceipt>>,
             at = "ungate" => edgeProc.mem.probed
      PROVE  MaintenanceInv'
  <2>1. PlaceFits(at, edgeProc.mem, edgeProc.prepared, edgeHost)
    BY <1>1, <1>3 DEF PlaceFits, EdgeBehindGate, EdgeProven
  <2>2. at \in EdgeSteps \ {"idle"}
    BY DEF EdgeSteps
  <2> QED BY <1>0, <1>3, <2>1, <2>2, EdgeProbes
<1> QED BY <1>2, <1>3 DEF EdgeSemantic, SemanticBoundary, GateExact, PublicGated, Probe

\* The gate opens on a candidate that was proven.
LEMMA EdgeUngateKeeps == ASSUME MaintenanceInv, EdgeUngate PROVE MaintenanceInv'
<1>0. edgeProc.at = "ungate" /\ edgeProc.at # "idle" /\ edgeProc.at \in EdgeForward
  BY DEF EdgeUngate, EdgeForward
<1>1. EdgeProven(edgeProc.mem) /\ edgeProc.mem.phase \in {"STARTED", "UNGATED"}
  BY <1>0, EdgeAtWork DEF PlaceFits
<1> DEFINE open == [edgeHost EXCEPT !.gate = FALSE]
<1>2. CASE Perform("public", Reach("UNGATED"), open, {edgeHost, open})
  <2>1. /\ open \in EdgeHosts /\ open.gate = FALSE /\ open.service = edgeHost.service
        /\ open.launcher = edgeHost.launcher /\ open.backup = edgeHost.backup /\ open.snapshot = edgeHost.snapshot
        /\ open.upgrades = edgeHost.upgrades
    BY <1>0, EdgeAtWork, EdgeHostFields
  <2> HIDE DEF open
  <2>2. PICK mem : mem = Reach("UNGATED")
    OBVIOUS
  <2>3. mem \in EdgeMemory /\ mem.phase = "UNGATED" /\ mem.upgrade = edgeProc.mem.upgrade /\ mem.probed = edgeProc.mem.probed
    BY <1>0, <2>2, EdgeReach, EdgeAtWork DEF EdgePhases, AfterSwap
  <2>4. EdgeProven(mem)
    BY <1>1, <2>3 DEF EdgeProven
  <2>5. /\ edgeReceipt.phase = edgeProc.mem.phase /\ edgeReceipt.mem.phase = edgeReceipt.phase
        /\ edgeReceipt.status \in {"RUNNING", "UNKNOWN"}
        /\ edgeReceipt.mem.upgrade = edgeProc.mem.upgrade /\ edgeReceipt.mem.probed = edgeProc.mem.probed
    BY <1>0, EdgeAtWork DEF ToolFits, ReceiptFits
  <2>6. HostFits(open)
    BY <1>0, <2>1, EdgeAtWork DEF HostFits
  <2>7. \A h : PhaseFits("STARTED", h) /\ PhaseFits("UNGATED", h)
    BY DEF PhaseFits, EdgeUnswapped, EdgeUnstarted, BeforeStop
  <2>8. ReceiptFits(edgeReceipt, open)
    BY <1>1, <2>5, <2>7 DEF ReceiptFits, EdgeOver, EdgeProven
  <2>9. /\ PlaceFits("public", mem, edgeProc.prepared, open) /\ PlaceFits("rollback", mem, edgeProc.prepared, open)
        /\ \A h : PlaceFits("rollback", edgeProc.mem, edgeProc.prepared, h)
    BY <1>1, <2>3, <2>4 DEF PlaceFits, EdgeBehindGate
  <2>10. /\ "public" \in EdgeForward /\ {edgeHost, open} \in SUBSET EdgeHosts /\ mem.phase \notin EdgeOver
         /\ \A h \in {edgeHost, open} \cup {open} : HostFits(h) /\ ReceiptFits(edgeReceipt, h)
    BY <1>0, <2>1, <2>3, <2>6, <2>8, EdgeAtWork DEF EdgeForward, EdgeOver
  <2>11. Perform("public", mem, open, {edgeHost, open})
    BY <1>2, <2>2
  <2>12. PhaseFits(mem.phase, open) /\ \A h \in {edgeHost, open} : PhaseFits(edgeProc.mem.phase, h)
    BY <1>1, <2>3, <2>7
  <2> QED BY <1>0, <1>1, <2>1, <2>3, <2>4, <2>9, <2>10, <2>11, <2>12, EdgePerforms
<1>3. ASSUME NEW at \in {"public", "unknown"}, edgeProc' = EdgeGoto(at), UNCHANGED <<edgeHost, edgeReceipt>>
      PROVE  MaintenanceInv'
  <2>1. PlaceFits(at, edgeProc.mem, edgeProc.prepared, edgeHost)
    BY <1>1, <1>3 DEF PlaceFits
  <2>2. at \in EdgeSteps \ {"idle"}
    BY DEF EdgeSteps
  <2> QED BY <1>0, <1>3, <2>1, <2>2, EdgeProbes
<1> QED BY <1>2, <1>3 DEF EdgeUngate, Probe

\* The public check ends the attempt or fails it.
LEMMA EdgePublicKeeps == ASSUME MaintenanceInv, EdgePublic PROVE MaintenanceInv'
<1>0. edgeProc.at = "public" /\ edgeProc.at # "idle" /\ edgeProc.at \in EdgeForward /\ UNCHANGED edgeHost
  BY DEF EdgePublic, EdgeForward
<1>1. EdgeProven(edgeProc.mem) /\ edgeProc.mem.phase \in {"STARTED", "UNGATED"}
  BY <1>0, EdgeAtWork DEF PlaceFits
<1>2. CASE PublicReadyEdge /\ EdgeSave(edgeProc.mem, "COMPLETE", "PASS", "none") /\ edgeProc' = EdgeIdle
  <2>1. /\ edgeReceipt' \in EdgeReceipts /\ edgeReceipt'.phase = "COMPLETE"
        /\ edgeReceipt'.status = "PASS" /\ edgeReceipt'.mem.phase = "COMPLETE"
        /\ edgeReceipt'.mem.upgrade = edgeProc.mem.upgrade /\ edgeReceipt'.mem.probed = edgeProc.mem.probed
    <3>1. "COMPLETE" \in EdgePhases
      BY DEF EdgePhases
    <3> QED BY <1>0, <1>2, <3>1, EdgeSaved, EdgeAtWork
  <2>2. edgeHost.service = "new" /\ ~edgeHost.gate
    BY <1>2 DEF PublicReadyEdge, LocalReady, RunningExact
  <2>3. PhaseFits("COMPLETE", edgeHost)
    BY DEF PhaseFits, EdgeUnswapped, EdgeUnstarted, BeforeStop
  <2>4. ReceiptFits(edgeReceipt', edgeHost)
    BY <1>1, <2>1, <2>2, <2>3 DEF ReceiptFits, EdgeProven
  <2> QED BY <1>0, <1>2, <2>1, <2>4, EdgeStops, EdgeAtWork
<1>3. CASE edgeProc' = EdgeIdle /\ UNCHANGED edgeReceipt
  BY <1>0, <1>3, EdgeStops, EdgeAtWork
<1>4. ASSUME NEW at \in {"rollback", "unknown"}, edgeProc' = EdgeGoto(at), UNCHANGED <<edgeHost, edgeReceipt>>
      PROVE  MaintenanceInv'
  <2>1. PlaceFits(at, edgeProc.mem, edgeProc.prepared, edgeHost)
    BY <1>1, <1>4 DEF PlaceFits, EdgeBehindGate
  <2>2. at \in EdgeSteps \ {"idle"}
    BY DEF EdgeSteps
  <2> QED BY <1>0, <1>4, <2>1, <2>2, EdgeProbes
<1> QED BY <1>0, <1>2, <1>3, <1>4 DEF EdgePublic

\* A gate before the old edge stopped is taken away once the old runtime is proven.
LEMMA EdgeAbortKeeps == ASSUME MaintenanceInv, EdgeAbort PROVE MaintenanceInv'
<1>0. edgeProc.at = "abort" /\ edgeProc.at # "idle" /\ edgeProc' = EdgeIdle
  BY DEF EdgeAbort
<1>1. /\ edgeProc.mem.phase = "GATED" /\ edgeHost.launcher = "old" /\ edgeHost.upgrades = 0 /\ edgeHost.service # "new"
      /\ edgeHost \in EdgeHosts /\ edgeProc.mem \in EdgeMemory /\ edgeReceipt.status \in {"RUNNING", "UNKNOWN"}
  BY <1>0, EdgeAtWork DEF PlaceFits, ToolFits, PhaseFits, HostFits, EdgeUnswapped, EdgeUnstarted, BeforeStop
<1> DEFINE open == [edgeHost EXCEPT !.gate = FALSE]
<1>2. /\ open \in EdgeHosts /\ open.gate = FALSE /\ open.service = edgeHost.service
      /\ open.launcher = edgeHost.launcher /\ open.backup = edgeHost.backup /\ open.snapshot = edgeHost.snapshot
      /\ open.upgrades = edgeHost.upgrades /\ open.upgrader = edgeHost.upgrader /\ open.schema = edgeHost.schema
  BY <1>1, EdgeHostFields
<1> HIDE DEF open
<1>3. \A h \in {edgeHost, open} : h \in EdgeHosts /\ HostFits(h) /\ ReceiptFits(edgeReceipt, h)
  <2>1. HostFits(open)
    BY <1>0, <1>2, EdgeAtWork DEF HostFits
  <2>2. ReceiptFits(edgeReceipt, open)
    BY <1>0, <1>1, <1>2, EdgeAtWork DEF ReceiptFits, PhaseFits
  <2> QED BY <1>0, <1>2, <2>1, <2>2, EdgeAtWork
<1>4. "ROLLED_BACK" \in EdgePhases /\ "GATED" \in EdgePhases
  BY DEF EdgePhases, BeforeStop
<1>5. CASE edgeHost' \in {edgeHost, open} /\ UNCHANGED edgeReceipt
  BY <1>0, <1>3, <1>5, EdgeStops, EdgeAtWork
<1>6. CASE edgeHost' \in {edgeHost, open} /\ EdgeSave(edgeProc.mem, "GATED", "UNKNOWN", "GateAbortUnknown")
  <2>1. /\ edgeReceipt' \in EdgeReceipts /\ edgeReceipt'.phase = "GATED"
        /\ edgeReceipt'.status = "UNKNOWN" /\ edgeReceipt'.mem.phase = "GATED"
    BY <1>1, <1>4, <1>6, EdgeSaved
  <2>2. \A h \in {edgeHost, open} : h.service # "new" /\ PhaseFits("GATED", h)
    BY <1>1, <1>2 DEF PhaseFits
  <2>3. ReceiptFits(edgeReceipt', edgeHost')
    BY <1>6, <2>1, <2>2 DEF ReceiptFits, EdgeOver
  <2> QED BY <1>0, <1>3, <1>6, <2>1, <2>3, EdgeStops
<1>7. CASE edgeHost.service = "old" /\ edgeHost' = open /\ EdgeSave(edgeProc.mem, "ROLLED_BACK", "FAIL", "other")
  <2>1. /\ edgeReceipt' \in EdgeReceipts /\ edgeReceipt'.phase = "ROLLED_BACK"
        /\ edgeReceipt'.status = "FAIL" /\ edgeReceipt'.mem.phase = "ROLLED_BACK"
    BY <1>1, <1>4, <1>7, EdgeSaved
  <2>2. PhaseFits("ROLLED_BACK", open)
    BY DEF PhaseFits, EdgeUnswapped, EdgeUnstarted, BeforeStop
  <2>3. ReceiptFits(edgeReceipt', edgeHost')
    BY <1>1, <1>2, <1>7, <2>1, <2>2 DEF ReceiptFits
  <2> QED BY <1>0, <1>3, <1>7, <2>1, <2>3, EdgeStops
<1> QED BY <1>5, <1>6, <1>7 DEF EdgeAbort, OldRuntimeReady, RunningExact, open

\* What is not known is recorded as UNKNOWN, and the host is left as it is or gated.
LEMMA EdgeUnknownKeeps == ASSUME MaintenanceInv, EdgeUnknown PROVE MaintenanceInv'
<1>0. edgeProc.at \in {"unknown", "rbUnknown"} /\ edgeProc.at # "idle" /\ edgeProc' = EdgeIdle
  BY DEF EdgeUnknown
<1> DEFINE gated == [edgeHost EXCEPT !.gate = TRUE]
<1>1. /\ gated \in EdgeHosts /\ gated.gate = TRUE /\ gated.service = edgeHost.service
      /\ gated.launcher = edgeHost.launcher /\ gated.backup = edgeHost.backup /\ gated.snapshot = edgeHost.snapshot
      /\ gated.upgrades = edgeHost.upgrades /\ gated.upgrader = edgeHost.upgrader /\ gated.schema = edgeHost.schema
  BY <1>0, EdgeAtWork, EdgeHostFields
<1> HIDE DEF gated
<1>2. edgeReceipt.status \in {"RUNNING", "UNKNOWN"} /\ edgeProc.mem.phase \notin EdgeOver
  BY <1>0, EdgeAtWork DEF ToolFits
<1>3. \A h \in {edgeHost, gated} :
        /\ h \in EdgeHosts /\ HostFits(h) /\ ReceiptFits(edgeReceipt, h)
        /\ PhaseFits(edgeProc.mem.phase, h) /\ (h.service = "new" /\ ~h.gate => EdgeProven(edgeProc.mem))
  <2>1. HostFits(gated)
    BY <1>0, <1>1, EdgeAtWork DEF HostFits
  <2>2. ReceiptFits(edgeReceipt, gated)
    BY <1>0, <1>1, <1>2, EdgeAtWork DEF ReceiptFits, PhaseFits
  <2>3. PhaseFits(edgeProc.mem.phase, gated)
    BY <1>0, <1>1, EdgeAtWork DEF ToolFits, PhaseFits
  <2>4. PhaseFits(edgeProc.mem.phase, edgeHost) /\ (edgeHost.service = "new" /\ ~edgeHost.gate => EdgeProven(edgeProc.mem))
    BY <1>0, EdgeAtWork DEF ToolFits
  <2> QED BY <1>0, <1>1, <2>1, <2>2, <2>3, <2>4, EdgeAtWork
<1>4. CASE edgeHost' \in {edgeHost, gated} /\ UNCHANGED edgeReceipt
  BY <1>0, <1>3, <1>4, EdgeStops, EdgeAtWork
<1>5. ASSUME edgeHost' \in {edgeHost, gated}, NEW error \in {"other", "GateRetentionUnknown"},
             EdgeSave(edgeProc.mem, edgeProc.mem.phase, "UNKNOWN", error)
      PROVE  MaintenanceInv'
  <2>1. /\ edgeReceipt' \in EdgeReceipts /\ edgeReceipt'.phase = edgeProc.mem.phase
        /\ edgeReceipt'.status = "UNKNOWN" /\ edgeReceipt'.mem.phase = edgeProc.mem.phase
        /\ edgeReceipt'.mem.upgrade = edgeProc.mem.upgrade /\ edgeReceipt'.mem.probed = edgeProc.mem.probed
    BY <1>0, <1>5, EdgeSaved, EdgeAtWork
  <2>2. edgeProc.mem.phase # "NO_EFFECT"
    BY <1>2 DEF EdgeOver
  <2>3. PICK h \in {edgeHost, gated} : edgeHost' = h
    BY <1>5
  <2>4. /\ h \in EdgeHosts /\ HostFits(h) /\ PhaseFits(edgeProc.mem.phase, h)
        /\ (h.service = "new" /\ ~h.gate => EdgeProven(edgeProc.mem))
    BY <1>3
  <2>5. ReceiptFits(edgeReceipt', h)
    BY <1>2, <2>1, <2>2, <2>4 DEF ReceiptFits, EdgeProven
  <2> QED BY <1>0, <2>1, <2>3, <2>4, <2>5, EdgeStops
<1> QED BY <1>4, <1>5 DEF EdgeUnknown, EdgeRetainGate, gated

\* A definite failure chooses what to undo, and gates a public candidate first.
LEMMA EdgeRollbackKeeps == ASSUME MaintenanceInv, EdgeRollback PROVE MaintenanceInv'
<1>0. edgeProc.at = "rollback" /\ edgeProc.at # "idle" /\ edgeProc.at \in EdgeHandlers
  BY DEF EdgeRollback, EdgeHandlers, EdgeForward, EdgeSteps
<1> DEFINE phase == edgeProc.mem.phase
           next == CASE phase \in AfterSwap -> "rbStop"
                     [] phase \in {"STOPPED", "UPGRADED", "SNAPSHOTTED"} -> "rbStart"
                     [] phase = "PREFLIGHT" -> "rbSave"
                     [] OTHER -> "rbUngate"
<1>1. /\ phase \in AfterSwap => next = "rbStop"
      /\ phase \in {"STOPPED", "UPGRADED", "SNAPSHOTTED"} => next = "rbStart"
      /\ phase = "PREFLIGHT" => next = "rbSave"
      /\ phase \notin AfterSwap \cup {"STOPPED", "UPGRADED", "SNAPSHOTTED", "PREFLIGHT"} => next = "rbUngate"
  BY DEF AfterSwap
<1>2. next \in {"rbStop", "rbStart", "rbSave", "rbUngate"}
  BY <1>1
<1>3. /\ phase \in EdgePhases \ EdgeOver /\ PhaseFits(phase, edgeHost)
      /\ PlaceFits("rollback", edgeProc.mem, edgeProc.prepared, edgeHost)
      /\ HostFits(edgeHost) /\ ReceiptFits(edgeReceipt, edgeHost)
      /\ edgeHost \in EdgeHosts /\ edgeReceipt.status \in {"RUNNING", "UNKNOWN"}
  BY <1>0, EdgeAtWork DEF ToolFits
<1> HIDE DEF next
<1>4. PlaceFits(next, edgeProc.mem, edgeProc.prepared, edgeHost)
  <2>1. CASE phase \in AfterSwap
    BY <1>1, <2>1 DEF PlaceFits
  <2>2. CASE phase \in {"STOPPED", "UPGRADED", "SNAPSHOTTED"}
    BY <1>1, <1>3, <2>2 DEF PlaceFits, EdgeBehindGate
  <2>3. CASE phase = "PREFLIGHT"
    BY <1>1, <1>3, <2>3 DEF PlaceFits, PhaseFits, EdgeUnswapped, BeforeStop
  <2>4. CASE phase \notin AfterSwap \cup {"STOPPED", "UPGRADED", "SNAPSHOTTED", "PREFLIGHT"}
    <3>1. phase \in EdgeUnswapped
      BY <1>3, <2>4 DEF EdgePhases, EdgeOver, EdgeUnswapped, BeforeStop
    <3> QED BY <1>1, <1>3, <2>4, <3>1 DEF PlaceFits, PhaseFits, HostFits
  <2> QED BY <2>1, <2>2, <2>3, <2>4
<1>5. next \in EdgeHandlers /\ "rbUnknown" \in EdgeHandlers
  BY <1>2 DEF EdgeHandlers, EdgeForward, EdgeSteps
<1>6. ASSUME NEW at \in {"rbUnknown", next}, edgeProc' = EdgeGoto(at), UNCHANGED <<edgeHost, edgeReceipt>>
      PROVE  MaintenanceInv'
  <2>1. PlaceFits("rbUnknown", edgeProc.mem, edgeProc.prepared, edgeHost)
    BY DEF PlaceFits
  <2>2. PlaceFits(at, edgeProc.mem, edgeProc.prepared, edgeHost)
    BY <1>4, <1>6, <2>1
  <2>3. at \in EdgeSteps \ {"idle"} /\ at \notin EdgeForward
    BY <1>5, <1>6 DEF EdgeHandlers
  <2> QED BY <1>0, <1>6, <2>2, <2>3, EdgeProbes
<1>7. CASE phase = "UNGATED" /\ Undo([edgeHost EXCEPT !.gate = TRUE], TRUE, next)
  <2>0. PICK gated : gated = [edgeHost EXCEPT !.gate = TRUE]
    OBVIOUS
  <2>1. /\ gated \in EdgeHosts /\ gated.gate = TRUE /\ gated.service = edgeHost.service
        /\ gated.launcher = edgeHost.launcher /\ gated.backup = edgeHost.backup /\ gated.snapshot = edgeHost.snapshot
        /\ gated.upgrades = edgeHost.upgrades /\ gated.upgrader = edgeHost.upgrader /\ gated.schema = edgeHost.schema
    BY <1>3, <2>0, EdgeHostFields
  <2>2. HostFits(gated)
    BY <1>3, <2>1 DEF HostFits
  <2>3. ReceiptFits(edgeReceipt, gated)
    BY <1>3, <2>1 DEF ReceiptFits, PhaseFits
  <2>4. PhaseFits(phase, gated)
    BY <1>3, <2>1 DEF PhaseFits
  <2>5. PlaceFits(next, edgeProc.mem, edgeProc.prepared, gated)
    BY <1>1, <1>7 DEF PlaceFits, AfterSwap
  <2> QED BY <1>0, <1>5, <1>7, <2>0, <2>1, <2>2, <2>3, <2>4, <2>5, EdgeUndoes
<1> QED BY <1>6, <1>7 DEF EdgeRollback, next

\* What an operation of the rollback needs of the host it leaves.
LEMMA EdgeUndoStep ==
  ASSUME MaintenanceInv, edgeProc.at \in EdgeHandlers, NEW h \in EdgeHosts,
         h.backup = edgeHost.backup, h.snapshot = edgeHost.snapshot, h.upgrades = edgeHost.upgrades,
         h.upgrader = edgeHost.upgrader, h.schema = edgeHost.schema,
         h.launcher = edgeHost.launcher \/ h.launcher = "old",
         h.service = "new" => /\ h.launcher = "new"
                              /\ h.gate \/ (edgeHost.service = "new" /\ ~edgeHost.gate)
  PROVE  /\ HostFits(h) /\ ReceiptFits(edgeReceipt, h) /\ PhaseFits(edgeProc.mem.phase, h)
         /\ h.service = "new" /\ ~h.gate => EdgeProven(edgeProc.mem)
<1>0. edgeProc.at # "idle"
  BY DEF EdgeHandlers
<1>1. /\ HostFits(edgeHost) /\ ReceiptFits(edgeReceipt, edgeHost)
      /\ ToolFits(edgeProc.at, edgeProc.mem, edgeReceipt, edgeHost)
  BY <1>0, EdgeAtWork
<1>2. \A phase : PhaseFits(phase, edgeHost) => PhaseFits(phase, h)
  BY DEF PhaseFits
<1>3. HostFits(h)
  BY <1>1 DEF HostFits
<1>4. PhaseFits(edgeProc.mem.phase, h)
  BY <1>1, <1>2 DEF ToolFits
<1>5. h.service = "new" /\ ~h.gate => EdgeProven(edgeProc.mem)
  BY <1>1 DEF ToolFits
<1>6. edgeReceipt.status \in {"RUNNING", "UNKNOWN"}
  BY <1>1 DEF ToolFits
<1>7. ReceiptFits(edgeReceipt, h)
  BY <1>1, <1>2, <1>6 DEF ReceiptFits
<1> QED BY <1>3, <1>4, <1>5, <1>7

\* Each step of a rollback puts one thing back.
LEMMA EdgeUndoKeeps ==
  ASSUME MaintenanceInv, EdgeRollbackStop \/ EdgeRestoreLauncher \/ EdgeRollbackStart \/ EdgeRollbackUngate
  PROVE  MaintenanceInv'
<1>0. /\ edgeProc.at \in {"rbStop", "rbRestore", "rbStart", "rbUngate"} /\ edgeProc.at # "idle"
      /\ edgeProc.at \in EdgeHandlers /\ {"rbRestore", "rbStart", "rbUngate", "rbSave"} \subseteq EdgeHandlers
  BY DEF EdgeRollbackStop, EdgeRestoreLauncher, EdgeRollbackStart, EdgeRollbackUngate,
         EdgeHandlers, EdgeForward, EdgeSteps
<1>t. edgeHost \in EdgeHosts /\ HostFits(edgeHost) /\ PlaceFits(edgeProc.at, edgeProc.mem, edgeProc.prepared, edgeHost)
  BY <1>0, EdgeAtWork
<1>1. CASE EdgeRollbackStop
  <2>1. PICK h : h = [edgeHost EXCEPT !.service = "down"]
    OBVIOUS
  <2>2. /\ h \in EdgeHosts /\ h.gate = edgeHost.gate /\ h.service = "down"
        /\ h.launcher = edgeHost.launcher /\ h.backup = edgeHost.backup /\ h.snapshot = edgeHost.snapshot
        /\ h.schema = edgeHost.schema /\ h.upgrader = edgeHost.upgrader /\ h.upgrades = edgeHost.upgrades
    BY <1>t, <2>1, EdgeHostFields
  <2>3. /\ HostFits(h) /\ ReceiptFits(edgeReceipt, h) /\ PhaseFits(edgeProc.mem.phase, h)
        /\ h.service = "new" /\ ~h.gate => EdgeProven(edgeProc.mem)
    BY <1>0, <2>2, EdgeUndoStep
  <2>4. PlaceFits("rbRestore", edgeProc.mem, edgeProc.prepared, h)
    BY <2>2 DEF PlaceFits
  <2>5. Undo(h, TRUE, "rbRestore")
    BY <1>1, <2>1 DEF EdgeRollbackStop
  <2> QED BY <1>0, <2>2, <2>3, <2>4, <2>5, EdgeUndoes
<1>2. CASE EdgeRestoreLauncher
  <2>1. PICK h : h = [edgeHost EXCEPT !.launcher = "old"]
    OBVIOUS
  <2>2. /\ h \in EdgeHosts /\ h.gate = edgeHost.gate /\ h.service = edgeHost.service
        /\ h.launcher = "old" /\ h.backup = edgeHost.backup /\ h.snapshot = edgeHost.snapshot
        /\ h.schema = edgeHost.schema /\ h.upgrader = edgeHost.upgrader /\ h.upgrades = edgeHost.upgrades
    BY <1>t, <2>1 DEF EdgeHosts
  <2>a. edgeHost.service = "down"
    BY <1>2, <1>t DEF EdgeRestoreLauncher, PlaceFits
  <2>3. /\ HostFits(h) /\ ReceiptFits(edgeReceipt, h) /\ PhaseFits(edgeProc.mem.phase, h)
        /\ h.service = "new" /\ ~h.gate => EdgeProven(edgeProc.mem)
    BY <1>0, <2>2, <2>a, EdgeUndoStep
  <2>4. PlaceFits("rbStart", edgeProc.mem, edgeProc.prepared, h)
    BY <2>2 DEF PlaceFits
  <2>5. Undo(h, TRUE, "rbStart")
    BY <1>2, <2>1 DEF EdgeRestoreLauncher
  <2> QED BY <1>0, <2>2, <2>3, <2>4, <2>5, EdgeUndoes
<1>3. CASE EdgeRollbackStart
  <2>1. PICK h : h = [edgeHost EXCEPT !.service = edgeHost.launcher]
    OBVIOUS
  <2>b. edgeHost.launcher \in {"old", "new"}
    BY <1>t DEF EdgeHosts
  <2>2. /\ h \in EdgeHosts /\ h.gate = edgeHost.gate /\ h.service = edgeHost.launcher
        /\ h.launcher = edgeHost.launcher /\ h.backup = edgeHost.backup /\ h.snapshot = edgeHost.snapshot
        /\ h.schema = edgeHost.schema /\ h.upgrader = edgeHost.upgrader /\ h.upgrades = edgeHost.upgrades
    BY <1>t, <2>1, <2>b, EdgeHostFields
  <2>a. edgeHost.launcher = "old" \/ edgeHost.gate
    BY <1>3, <1>t DEF EdgeRollbackStart, PlaceFits
  <2>3. /\ HostFits(h) /\ ReceiptFits(edgeReceipt, h) /\ PhaseFits(edgeProc.mem.phase, h)
        /\ h.service = "new" /\ ~h.gate => EdgeProven(edgeProc.mem)
    BY <1>0, <2>2, <2>a, EdgeUndoStep
  <2>4. h.service = "old" => PlaceFits("rbUngate", edgeProc.mem, edgeProc.prepared, h)
    BY DEF PlaceFits
  <2>5. Undo(h, h.service = "old", "rbUngate")
    BY <1>3, <2>1 DEF EdgeRollbackStart
  <2> QED BY <1>0, <2>2, <2>3, <2>4, <2>5, EdgeUndoes
<1>4. CASE EdgeRollbackUngate
  <2>1. PICK h : h = [edgeHost EXCEPT !.gate = FALSE]
    OBVIOUS
  <2>2. /\ h \in EdgeHosts /\ h.gate = FALSE /\ h.service = edgeHost.service
        /\ h.launcher = edgeHost.launcher /\ h.backup = edgeHost.backup /\ h.snapshot = edgeHost.snapshot
        /\ h.schema = edgeHost.schema /\ h.upgrader = edgeHost.upgrader /\ h.upgrades = edgeHost.upgrades
    BY <1>t, <2>1, EdgeHostFields
  <2>a. edgeHost.service # "new"
    BY <1>4, <1>t DEF EdgeRollbackUngate, PlaceFits
  <2>3. /\ HostFits(h) /\ ReceiptFits(edgeReceipt, h) /\ PhaseFits(edgeProc.mem.phase, h)
        /\ h.service = "new" /\ ~h.gate => EdgeProven(edgeProc.mem)
    BY <1>0, <2>2, <2>a, EdgeUndoStep
  <2>4. OldRuntimeReady => PlaceFits("rbSave", edgeProc.mem, edgeProc.prepared, h)
    BY <2>2 DEF PlaceFits, OldRuntimeReady, RunningExact
  <2>5. Undo(h, OldRuntimeReady, "rbSave")
    BY <1>4, <2>1 DEF EdgeRollbackUngate
  <2> QED BY <1>0, <2>2, <2>3, <2>4, <2>5, EdgeUndoes
<1> QED BY <1>1, <1>2, <1>3, <1>4

\* The rollback is recorded once the old edge is back.
LEMMA EdgeRollbackSaveKeeps == ASSUME MaintenanceInv, EdgeRollbackSave PROVE MaintenanceInv'
<1>0. edgeProc.at = "rbSave" /\ edgeProc.at # "idle" /\ edgeProc' = EdgeIdle /\ UNCHANGED edgeHost
  BY DEF EdgeRollbackSave
<1>1. CASE UNCHANGED edgeReceipt
  BY <1>0, <1>1, EdgeStops, EdgeAtWork
<1>2. CASE EdgeSave(edgeProc.mem, "ROLLED_BACK", "FAIL", "other")
  <2>0. "ROLLED_BACK" \in EdgePhases
    BY DEF EdgePhases
  <2>1. /\ edgeReceipt' \in EdgeReceipts /\ edgeReceipt'.phase = "ROLLED_BACK"
        /\ edgeReceipt'.status = "FAIL" /\ edgeReceipt'.mem.phase = "ROLLED_BACK"
    BY <1>0, <1>2, <2>0, EdgeSaved, EdgeAtWork
  <2>2. edgeHost.service = "old" /\ edgeHost.launcher = "old" /\ ~edgeHost.gate
    BY <1>0, EdgeAtWork DEF PlaceFits
  <2>3. PhaseFits("ROLLED_BACK", edgeHost)
    BY DEF PhaseFits, EdgeUnswapped, EdgeUnstarted, BeforeStop
  <2>4. ReceiptFits(edgeReceipt', edgeHost)
    BY <2>1, <2>2, <2>3 DEF ReceiptFits
  <2> QED BY <1>0, <2>1, <2>4, EdgeStops, EdgeAtWork
<1> QED BY <1>1, <1>2 DEF EdgeRollbackSave

\* The phase a resumed attempt goes on from is one the host shows.
LEMMA ReconciledFits ==
  ASSUME edgeHost \in EdgeHosts, HostFits(edgeHost), ReceiptFits(edgeReceipt, edgeHost),
         NEW seen \in Reconciled(edgeReceipt)
  PROVE  /\ seen \in EdgePhases \ EdgeOver /\ PhaseFits(seen, edgeHost)
         /\ seen = "PREFLIGHT" => edgeHost.service = "old" /\ ~edgeHost.gate
         /\ seen \in EdgeBehindGate => edgeHost.gate
         /\ edgeHost.service = "new" /\ ~edgeHost.gate => seen \in {"STARTED", "UNGATED"}
         /\ edgeReceipt.phase = "PREPARED" => seen \in {"PREPARED", "GATED"}
<1> DEFINE h == edgeHost
           Good == /\ seen \in EdgePhases \ EdgeOver /\ PhaseFits(seen, h)
                   /\ seen = "PREFLIGHT" => h.service = "old" /\ ~h.gate
                   /\ seen \in EdgeBehindGate => h.gate
                   /\ h.service = "new" /\ ~h.gate => seen \in {"STARTED", "UNGATED"}
                   /\ edgeReceipt.phase = "PREPARED" => seen \in {"PREPARED", "GATED"}
<1>t. /\ h.service \in {"old", "new", "down"} /\ PhaseFits(edgeReceipt.phase, h)
      /\ h.service = "new" => h.launcher = "new"
  BY DEF EdgeHosts, ReceiptFits, HostFits
<1>1. CASE edgeReceipt.phase \in {"PREFLIGHT", "PREPARED"}
  <2>1. /\ h.launcher = "old" /\ h.service # "down" /\ seen = IF h.gate THEN "GATED" ELSE edgeReceipt.phase
    BY <1>1 DEF Reconciled
  <2>2. h.upgrades = 0 /\ h.service = "old"
    BY <1>1, <1>t, <2>1 DEF PhaseFits, EdgeUnstarted, BeforeStop
  <2>3. PhaseFits(seen, h)
    BY <1>1, <2>1, <2>2 DEF PhaseFits
  <2>4. seen \in EdgePhases \ EdgeOver /\ seen \notin EdgeBehindGate
    BY <1>1, <2>1 DEF EdgePhases, EdgeOver, BeforeStop, EdgeBehindGate
  <2> QED BY <1>1, <2>1, <2>2, <2>3, <2>4
<1>2. CASE edgeReceipt.phase = "GATED"
  <2>1. /\ h.launcher = "old" /\ h.gate /\ seen \in {"STOPPED", "GATED"}
    BY <1>2 DEF Reconciled
  <2>2. h.upgrades = 0
    BY <1>2, <1>t DEF PhaseFits, EdgeUnstarted, BeforeStop
  <2>3. PhaseFits(seen, h)
    BY <2>1, <2>2 DEF PhaseFits
  <2>4. seen \in EdgePhases \ EdgeOver /\ seen # "PREFLIGHT"
    BY <2>1 DEF EdgePhases, EdgeOver, BeforeStop
  <2> QED BY <1>2, <2>1, <2>3, <2>4
<1>3. CASE edgeReceipt.phase = "STOPPED"
  <2>1. /\ h.gate /\ seen = "STOPPED"
    BY <1>3 DEF Reconciled, Offline, GateExact
  <2>4. seen \in EdgePhases \ EdgeOver /\ seen # "PREFLIGHT"
    BY <2>1 DEF EdgePhases, EdgeOver, BeforeStop
  <2> QED BY <1>3, <1>t, <2>1, <2>4
<1>4. CASE edgeReceipt.phase = "UPGRADED"
  <2>1. /\ h.gate /\ seen \in {"SNAPSHOTTED", "UPGRADED"} /\ (seen = "SNAPSHOTTED" => h.snapshot)
    BY <1>4 DEF Reconciled, Offline, GateExact
  <2>2. h.launcher = "old"
    BY <1>4, <1>t DEF PhaseFits, EdgeUnswapped
  <2>3. PhaseFits(seen, h)
    BY <2>1, <2>2 DEF PhaseFits, EdgeUnstarted, BeforeStop
  <2>4. seen \in EdgePhases \ EdgeOver /\ seen # "PREFLIGHT"
    BY <2>1 DEF EdgePhases, EdgeOver, BeforeStop
  <2> QED BY <1>4, <2>1, <2>3, <2>4
<1>5. CASE edgeReceipt.phase = "SNAPSHOTTED"
  <2>1. /\ h.gate /\ seen \in {"SNAPSHOTTED", "SWAPPED"}
    BY <1>5 DEF Reconciled, Offline, GateExact
  <2>2. h.snapshot
    BY <1>5, <1>t DEF PhaseFits
  <2>3. PhaseFits(seen, h)
    BY <2>1, <2>2 DEF PhaseFits, EdgeUnstarted, EdgeUnswapped, BeforeStop
  <2>4. seen \in EdgePhases \ EdgeOver /\ seen # "PREFLIGHT"
    BY <2>1 DEF EdgePhases, EdgeOver, AfterSwap
  <2> QED BY <1>5, <2>1, <2>3, <2>4
<1>6. CASE edgeReceipt.phase = "SWAPPED"
  <2>1. /\ h.gate /\ seen \in {"STARTED", "SWAPPED"}
    BY <1>6 DEF Reconciled
  <2>3. PhaseFits(seen, h)
    BY <2>1 DEF PhaseFits, EdgeUnstarted, EdgeUnswapped, BeforeStop
  <2>4. seen \in EdgePhases \ EdgeOver /\ seen # "PREFLIGHT"
    BY <2>1 DEF EdgePhases, EdgeOver, AfterSwap
  <2> QED BY <1>6, <2>1, <2>3, <2>4
<1>7. CASE edgeReceipt.phase \in {"STARTED", "UNGATED"}
  <2>1. seen \in {"STARTED", "UNGATED"}
    BY <1>7 DEF Reconciled
  <2>3. PhaseFits(seen, h)
    BY <2>1 DEF PhaseFits, EdgeUnstarted, EdgeUnswapped, BeforeStop
  <2>4. seen \in EdgePhases \ EdgeOver /\ seen # "PREFLIGHT" /\ seen \notin EdgeBehindGate
    BY <2>1 DEF EdgePhases, EdgeOver, AfterSwap, EdgeBehindGate
  <2> QED BY <1>7, <2>1, <2>3, <2>4
<1>8. CASE edgeReceipt.phase \notin {"PREFLIGHT", "PREPARED", "GATED", "STOPPED", "UPGRADED", "SNAPSHOTTED",
                                     "SWAPPED", "STARTED", "UNGATED"}
  <2>1. Reconciled(edgeReceipt) = {}
    BY <1>8 DEF Reconciled
  <2> QED BY <2>1
<1> QED BY <1>1, <1>2, <1>3, <1>4, <1>5, <1>6, <1>7, <1>8

\* A tool started again continues from the receipt, wherever the last one died.
LEMMA EdgeResumeKeeps == ASSUME MaintenanceInv, EdgeResume PROVE MaintenanceInv'
<1> DEFINE r == edgeReceipt
           resumed == [EdgeIdle EXCEPT !.mem = r.mem, !.attempted = r.phase \notin {"PREFLIGHT", "PREPARED"}]
<1>0. /\ edgeProc.at = "idle" /\ r.status \in {"RUNNING", "UNKNOWN"} /\ UNCHANGED edgeHost
      /\ edgeHost \in EdgeHosts /\ r \in EdgeReceipts /\ HostFits(edgeHost) /\ ReceiptFits(r, edgeHost)
  BY EdgeTypes DEF EdgeResume, MaintenanceInv
<1>1. /\ r.mem \in EdgeMemory /\ r.mem.phase = r.phase /\ r.phase \in EdgePhases \ EdgeOver
      /\ PhaseFits(r.phase, edgeHost)
      /\ edgeHost.service = "new" /\ ~edgeHost.gate => EdgeProven(r.mem)
  <2>1. r.mem \in EdgeMemory /\ r.phase \in EdgePhases
    BY <1>0 DEF EdgeReceipts
  <2>2. r.phase \notin EdgeOver /\ r.mem.phase = r.phase /\ PhaseFits(r.phase, edgeHost)
    BY <1>0 DEF ReceiptFits
  <2>3. edgeHost.service = "new" /\ ~edgeHost.gate => EdgeProven(r.mem)
    BY <1>0, <2>2 DEF ReceiptFits, EdgeProven, EdgeOver
  <2> QED BY <2>1, <2>2, <2>3
<1>2. resumed \in EdgeProcs /\ resumed.mem = r.mem
  BY <1>1, EdgeIsIdle DEF EdgeProcs
<1> HIDE DEF resumed
<1>3. ASSUME NEW at \in {"abort", "unknown"}, edgeProc' = [resumed EXCEPT !.at = at], UNCHANGED edgeReceipt,
             at = "abort" => r.phase = "GATED"
      PROVE  MaintenanceInv'
  <2>1. edgeProc' \in EdgeProcs /\ edgeProc'.at = at /\ edgeProc'.mem = r.mem
    BY <1>2, <1>3 DEF EdgeProcs, EdgeSteps
  <2>2. ToolFits(at, r.mem, r, edgeHost)
    BY <1>0, <1>1, <1>3 DEF ToolFits, EdgeForward
  <2>3. PlaceFits(at, r.mem, edgeProc'.prepared, edgeHost)
    BY <1>1, <1>3 DEF PlaceFits
  <2> QED BY <1>0, <1>3, <2>1, <2>2, <2>3, EdgeContinues
<1>4. ASSUME NEW seen \in Reconciled(r), NEW p,
             p = [resumed EXCEPT !.at = "deploy", !.mem.phase = seen, !.mem.snap = @ \/ seen = "SNAPSHOTTED",
                                 !.attempted = seen \notin {"PREFLIGHT", "PREPARED"},
                                 !.retained = r.phase = "UNGATED" /\ edgeHost.gate],
             IF r.phase = "PREPARED"
             THEN /\ edgeProc' = [p EXCEPT !.at = "prepare", !.prepared = seen, !.mem.phase = "PREPARED"]
                  /\ UNCHANGED edgeReceipt
             ELSE IF seen = r.phase THEN edgeProc' = p /\ UNCHANGED edgeReceipt
             ELSE edgeProc' = p /\ EdgeSave(p.mem, seen, "RUNNING", "none")
      PROVE  MaintenanceInv'
  <2>1. /\ seen \in EdgePhases \ EdgeOver /\ PhaseFits(seen, edgeHost)
        /\ seen = "PREFLIGHT" => edgeHost.service = "old" /\ ~edgeHost.gate
        /\ seen \in EdgeBehindGate => edgeHost.gate
        /\ edgeHost.service = "new" /\ ~edgeHost.gate => seen \in {"STARTED", "UNGATED"}
        /\ r.phase = "PREPARED" => seen \in {"PREPARED", "GATED"}
    BY <1>0, <1>4, ReconciledFits
  <2>2. PICK m : m = [r.mem EXCEPT !.phase = seen, !.snap = r.mem.snap \/ seen = "SNAPSHOTTED"]
    OBVIOUS
  <2>3. m \in EdgeMemory /\ m.phase = seen /\ m.upgrade = r.mem.upgrade /\ m.probed = r.mem.probed
    BY <1>1, <2>1, <2>2 DEF EdgeMemory
  <2>4. p \in EdgeProcs /\ p.at = "deploy" /\ p.mem = m
    <3>1. p = [resumed EXCEPT !.at = "deploy", !.mem = m, !.attempted = seen \notin {"PREFLIGHT", "PREPARED"},
                              !.retained = r.phase = "UNGATED" /\ edgeHost.gate]
      BY <1>2, <1>4, <2>2 DEF EdgeProcs
    <3>2. edgeHost.gate \in BOOLEAN
      BY <1>0 DEF EdgeHosts
    <3> QED BY <1>2, <2>3, <3>1, <3>2 DEF EdgeProcs, EdgeSteps
  <2>5. edgeHost.service = "new" /\ ~edgeHost.gate => EdgeProven(m)
    BY <1>1, <2>1, <2>3 DEF EdgeProven
  <2>6. CASE r.phase = "PREPARED"
    <3>1. edgeProc' = [p EXCEPT !.at = "prepare", !.prepared = seen, !.mem.phase = "PREPARED"] /\ UNCHANGED edgeReceipt
      BY <1>4, <2>6
    <3>2. PICK n : n = [m EXCEPT !.phase = "PREPARED"]
      OBVIOUS
    <3>3. n \in EdgeMemory /\ n.phase = "PREPARED" /\ n.upgrade = r.mem.upgrade /\ n.probed = r.mem.probed
      BY <2>3, <3>2 DEF EdgeMemory, EdgePhases, BeforeStop
    <3>4. edgeProc' \in EdgeProcs /\ edgeProc'.at = "prepare" /\ edgeProc'.mem = n /\ edgeProc'.prepared = seen
      <4>1. edgeProc' = [p EXCEPT !.at = "prepare", !.prepared = seen, !.mem = n]
        BY <2>4, <3>1, <3>2 DEF EdgeProcs
      <4> QED BY <2>1, <2>4, <3>3, <4>1 DEF EdgeProcs, EdgeSteps
    <3>5. edgeHost.service # "new"
      BY <1>0, <1>1, <2>6 DEF PhaseFits, HostFits, EdgeUnswapped, BeforeStop
    <3>6. ToolFits("prepare", n, r, edgeHost)
      BY <1>0, <1>1, <2>6, <3>3, <3>5 DEF ToolFits
    <3>7. PlaceFits("prepare", n, seen, edgeHost)
      BY <2>1, <2>6, <3>3 DEF PlaceFits
    <3> QED BY <1>0, <3>1, <3>4, <3>6, <3>7, EdgeContinues
  <2>7. PlaceFits("deploy", m, p.prepared, edgeHost)
    BY <2>1, <2>3 DEF PlaceFits
  <2>8. CASE r.phase # "PREPARED" /\ seen = r.phase
    <3>1. edgeProc' = p /\ UNCHANGED edgeReceipt
      BY <1>4, <2>8
    <3>2. ToolFits("deploy", m, r, edgeHost)
      BY <1>0, <1>1, <2>1, <2>3, <2>5, <2>8 DEF ToolFits
    <3> QED BY <1>0, <2>4, <2>7, <3>1, <3>2, EdgeContinues
  <2>9. CASE r.phase # "PREPARED" /\ seen # r.phase
    <3>1. edgeProc' = p /\ EdgeSave(m, seen, "RUNNING", "none")
      BY <1>4, <2>4, <2>9
    <3>2. /\ edgeReceipt' \in EdgeReceipts /\ edgeReceipt'.phase = seen
          /\ edgeReceipt'.status = "RUNNING" /\ edgeReceipt'.mem.phase = seen
          /\ edgeReceipt'.mem.upgrade = m.upgrade /\ edgeReceipt'.mem.probed = m.probed
      BY <2>1, <2>3, <3>1, EdgeSaved
    <3>3. ToolFits("deploy", m, edgeReceipt', edgeHost)
      BY <2>1, <2>3, <2>5, <3>2 DEF ToolFits
    <3>4. seen # "NO_EFFECT"
      BY <2>1 DEF EdgeOver
    <3>5. ReceiptFits(edgeReceipt', edgeHost)
      BY <2>1, <2>3, <2>5, <3>2, <3>4 DEF ReceiptFits, EdgeProven
    <3> QED BY <1>0, <2>4, <2>7, <3>1, <3>2, <3>3, <3>5, EdgeContinues
  <2> QED BY <2>6, <2>8, <2>9
<1>5. CASE r.phase = "GATED" /\ r.error = "GateAbortUnknown"
  BY <1>3, <1>5 DEF EdgeResume, resumed
<1>6. CASE ResumeUntrusted(resumed)
  BY <1>3, <1>6 DEF ResumeUntrusted
<1>7. CASE ~(r.phase = "GATED" /\ r.error = "GateAbortUnknown") /\ ~ResumeUntrusted(resumed)
  <2>1. PICK seen \in Reconciled(r) :
          LET p == [resumed EXCEPT !.at = "deploy", !.mem.phase = seen, !.mem.snap = @ \/ seen = "SNAPSHOTTED",
                                   !.attempted = seen \notin {"PREFLIGHT", "PREPARED"},
                                   !.retained = r.phase = "UNGATED" /\ edgeHost.gate]
          IN  IF r.phase = "PREPARED"
              THEN /\ edgeProc' = [p EXCEPT !.at = "prepare", !.prepared = seen, !.mem.phase = "PREPARED"]
                   /\ UNCHANGED edgeReceipt
              ELSE IF seen = r.phase THEN edgeProc' = p /\ UNCHANGED edgeReceipt
              ELSE edgeProc' = p /\ EdgeSave(p.mem, seen, "RUNNING", "none")
    BY <1>7, Zenon DEF EdgeResume, resumed
  <2> QED BY <1>4, <2>1
<1> QED BY <1>5, <1>6, <1>7

\* After an ambiguous upgrade the operator restores the old edge, and the attempt may be
\* closed as without effect.
LEMMA EdgeOperatorKeeps ==
  ASSUME MaintenanceInv, EdgeOperatorRestores \/ EdgeRecoverNoEffect PROVE MaintenanceInv'
<1>0. /\ edgeProc.at = "idle" /\ edgeProc' = edgeProc /\ edgeProc \in EdgeProcs
      /\ edgeReceipt.phase = "UPGRADE_PENDING" /\ edgeReceipt.status = "UNKNOWN"
      /\ edgeHost \in EdgeHosts /\ edgeReceipt \in EdgeReceipts /\ edgeReceipt.mem \in EdgeMemory
      /\ HostFits(edgeHost) /\ ReceiptFits(edgeReceipt, edgeHost) /\ edgeHost.launcher = "old"
  <2>1. edgeReceipt.phase = "UPGRADE_PENDING"
    BY DEF EdgeOperatorRestores, EdgeRecoverNoEffect
  <2>2. edgeHost.launcher = "old"
    BY <2>1 DEF MaintenanceInv, ReceiptFits, PhaseFits, EdgeUnswapped
  <2> QED BY <2>1, <2>2, EdgeTypes DEF MaintenanceInv, EdgeOperatorRestores, EdgeRecoverNoEffect, EdgeReceipts
<1>e. ASSUME edgeReceipt' \in EdgeReceipts, edgeHost' \in EdgeHosts, HostFits(edgeHost'), ReceiptFits(edgeReceipt', edgeHost')
      PROVE  MaintenanceInv'
  BY <1>0, <1>e DEF MaintenanceInv, EdgeTypeOK, EdgeProcs
<1>1. CASE EdgeOperatorRestores
  <2>1. edgeHost' = [edgeHost EXCEPT !.gate = FALSE, !.service = "old"] /\ edgeReceipt' = edgeReceipt
    BY <1>0, <1>1 DEF EdgeOperatorRestores
  <2>2. /\ edgeHost' \in EdgeHosts /\ edgeHost'.service = "old" /\ edgeHost'.launcher = edgeHost.launcher
        /\ edgeHost'.snapshot = edgeHost.snapshot /\ edgeHost'.upgrades = edgeHost.upgrades
    BY <1>0, <2>1 DEF EdgeHosts
  <2>3. HostFits(edgeHost')
    BY <1>0, <2>2 DEF HostFits
  <2>4. ReceiptFits(edgeReceipt, edgeHost')
    BY <1>0, <2>2 DEF ReceiptFits, PhaseFits
  <2> QED BY <1>0, <1>e, <2>1, <2>2, <2>3, <2>4
<1>2. CASE EdgeRecoverNoEffect
  <2>1. PICK m : m = [edgeReceipt.mem EXCEPT !.upgrade = "NOT_STARTED"]
    OBVIOUS
  <2>2. m \in EdgeMemory /\ "NO_EFFECT" \in EdgePhases
    BY <1>0, <2>1 DEF EdgeMemory, UpgradeStates, EdgePhases
  <2>3. EdgeSave(m, "NO_EFFECT", "FAIL", "other") /\ edgeHost' = edgeHost
    BY <1>2, <2>1 DEF EdgeRecoverNoEffect
  <2>4. /\ edgeReceipt' \in EdgeReceipts /\ edgeReceipt'.phase = "NO_EFFECT"
        /\ edgeReceipt'.status = "FAIL" /\ edgeReceipt'.mem.phase = "NO_EFFECT"
    BY <2>2, <2>3, EdgeSaved
  <2>5. /\ edgeHost.upgrader = "idle" /\ edgeHost.schema = "before"
        /\ edgeHost.service = "old" /\ ~edgeHost.gate
    BY <1>2 DEF EdgeRecoverNoEffect, NoEffectProven, CurrentPublicReady, RunningExact, GateExact
  <2>6. PhaseFits("NO_EFFECT", edgeHost)
    BY DEF PhaseFits, EdgeUnswapped, EdgeUnstarted, BeforeStop
  <2>7. ReceiptFits(edgeReceipt', edgeHost)
    BY <1>0, <2>4, <2>5, <2>6 DEF ReceiptFits
  <2> QED BY <1>0, <1>e, <2>3, <2>4, <2>7
<1> QED BY <1>1, <1>2

\* No attempt at first.
LEMMA MaintenanceStarts == EdgeInit => MaintenanceInv
<1> SUFFICES ASSUME EdgeInit PROVE MaintenanceInv
  OBVIOUS
<1>1. FreshMemory \in EdgeMemory /\ FreshMemory.phase = "PREFLIGHT" /\ "PREFLIGHT" \in EdgePhases
  BY DEF FreshMemory, EdgeMemory, EdgePhases, BeforeStop, UpgradeStates
<1>2. /\ edgeReceipt \in EdgeReceipts /\ edgeReceipt.phase = "PREFLIGHT" /\ edgeReceipt.status = "none"
      /\ edgeReceipt.mem = FreshMemory
  BY <1>1 DEF EdgeInit, NoReceipt, EdgeReceipts
<1>3. /\ edgeHost \in EdgeHosts /\ ~edgeHost.gate /\ edgeHost.service = "old" /\ edgeHost.launcher = "old"
      /\ edgeHost.upgrades = 0
  BY DEF EdgeInit
<1>4. HostFits(edgeHost)
  BY <1>3 DEF HostFits
<1>5. ReceiptFits(edgeReceipt, edgeHost)
  BY <1>1, <1>2, <1>3 DEF ReceiptFits, PhaseFits, EdgeOver
<1> QED BY <1>2, <1>3, <1>4, <1>5, EdgeIsIdle, EdgeTypes DEF EdgeInit, MaintenanceInv

\* Every step keeps the invariant.
LEMMA MaintenanceStepKeeps == ASSUME MaintenanceInv, [EdgeNext]_edgeVars PROVE MaintenanceInv'
<1>1. CASE EdgeNext
  BY <1>1, EdgeBeginKeeps, EdgePreflightKeeps, EdgePrepareKeeps, EdgeGateKeeps, EdgeStopKeeps,
     EdgeAnnounceKeeps, EdgeUpgradeKeeps, EdgeUpgraderKeeps, EdgeSnapshotKeeps, EdgeSwapKeeps,
     EdgeStartKeeps, EdgeVerifyKeeps, EdgeSemanticKeeps, EdgeUngateKeeps, EdgePublicKeeps,
     EdgeAbortKeeps, EdgeUnknownKeeps, EdgeRollbackKeeps, EdgeUndoKeeps, EdgeRollbackSaveKeeps,
     EdgeResumeKeeps, EdgeOperatorKeeps
     DEF EdgeNext
<1>2. CASE UNCHANGED edgeVars
  BY <1>2 DEF edgeVars, MaintenanceInv, EdgeTypeOK
<1> QED BY <1>1, <1>2

\* The maintenance attempt (edge_maintenance.py), however often it is killed, resumed or
\* rolled back: the upgrade is started at most once and never written off, a terminal
\* receipt says what the host serves, and the candidate is public only once proven.
THEOREM MaintenanceStaysSound == EdgeSpec => []MaintenanceIsSound
<1>1. MaintenanceInv => MaintenanceIsSound
  <2> SUFFICES ASSUME MaintenanceInv PROVE MaintenanceIsSound
    OBVIOUS
  <2>0. EdgeTypeOK /\ HostFits(edgeHost) /\ ReceiptFits(edgeReceipt, edgeHost)
    BY DEF MaintenanceInv
  <2>1. UpgradeIsNeverRepeated
    BY <2>0 DEF UpgradeIsNeverRepeated, HostFits, ReceiptFits
  <2>2. VerdictMatchesHost
    BY <2>0 DEF VerdictMatchesHost, HostFits, ReceiptFits
  <2>3. CandidateIsPublicOnlyWhenProven
    BY <2>0 DEF CandidateIsPublicOnlyWhenProven, HostFits, ReceiptFits
  <2> QED BY <2>0, <2>1, <2>2, <2>3 DEF MaintenanceIsSound
<1> QED BY MaintenanceStarts, MaintenanceStepKeeps, <1>1, PTL DEF EdgeSpec

=============================================================================
