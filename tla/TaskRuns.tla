------------------------------- MODULE TaskRuns -------------------------------
(***************************************************************************)
(* The records managed runs of one work share: investigation and validation  *)
(* requests with the run bound to each and its results (task_runs.py, and    *)
(* the agent_task tools of mcp.py), control checkpoints (task_control.py)    *)
(* and the recorded human direction (human_trajectory.py).  A tool reads the *)
(* run's currentness or looks a retry up before the transaction that stores; *)
(* another run takes the work over, and calls are repeated, in between.      *)
(***************************************************************************)
EXTENDS Naturals, Sequences, FiniteSets

CONSTANTS
  TrRevs,         \* bound on revisions of the work
  TrRuns,         \* managed runs
  TrObjectives,   \* what a request asks for
  TrResults,      \* result ids
  TrBodies,       \* contents of results and of checkpoints
  TrClients,      \* sessions that write checkpoints or directions
  TrOps,          \* operation ids of checkpoints and directions
  TrChain         \* bound on the length of a chain

VARIABLES
  trRev,          \* revision of the work
  trBasis,        \* what a checkpoint depends on: parent, dependencies, control fields
  trCurrent,      \* the run the work is currently held by
  trRequests,     \* task_run_requests
  trBound,        \* task_run_executions: <<request id, run>>
  trStored,       \* task_run_results
  trSubmit,       \* a result between the read of currentness and its transaction
  trCheckpoints,  \* task_control_checkpoints of the work, by generation
  trDirection,    \* human_trajectory_revisions of the work, by generation
  trCalls         \* client -> its checkpoint call between lookup and transaction

trVars == <<trRev, trBasis, trCurrent, trRequests, trBound, trStored, trSubmit,
            trCheckpoints, trDirection, trCalls>>

ASSUME TaskRunConstants == TrRevs \in Nat \ {0} /\ TrChain \in Nat

NoResult == "no result"
NoCall == [op |-> "no call"]
NoReport == [id |-> "no report"]

TrInit ==
  /\ trRev = 1 /\ trBasis = 1 /\ trCurrent \in TrRuns
  /\ trRequests = {} /\ trBound = {} /\ trStored = {} /\ trSubmit = NoReport
  /\ trCheckpoints = <<>> /\ trDirection = <<>>
  /\ trCalls = [c \in TrClients |-> NoCall]

\* Any update moves the revision; only some touch what checkpoints depend on.
TrChange ==
  /\ \/ /\ trRev < TrRevs /\ trRev' = trRev + 1
        /\ trBasis' \in {trBasis, trRev + 1}
        /\ UNCHANGED trCurrent
     \/ /\ trCurrent' \in TrRuns \ {trCurrent}
        /\ UNCHANGED <<trRev, trBasis>>
  /\ UNCHANGED <<trRequests, trBound, trStored, trSubmit, trCheckpoints, trDirection, trCalls>>

-----------------------------------------------------------------------------
\* task_request_operation_id: the identity of a request is all of its content.
RequestId(rev, objective) == <<rev, objective>>

\* agent_task_request by a run that read that it holds the work; a repeated
\* request is the stored one, whatever the revision is by now.
TrRequest(rev, objective) ==
  /\ rev = trRev
  /\ \A q \in trRequests : q.id # RequestId(rev, objective)
  /\ trRequests' = trRequests \cup {[id |-> RequestId(rev, objective), terminal |-> NoResult]}
  /\ UNCHANGED <<trRev, trBasis, trCurrent, trBound, trStored, trSubmit, trCheckpoints,
                 trDirection, trCalls>>

\* bind_start: one run of a request, and one request of a run.
BindableStart(id, run) == \A b \in trBound : b[1] = id <=> b[2] = run

TrBind(id, run) ==
  /\ BindableStart(id, run)
  /\ trBound' = trBound \cup {<<id, run>>} /\ trBound' # trBound
  /\ UNCHANGED <<trRev, trBasis, trCurrent, trRequests, trStored, trSubmit, trCheckpoints,
                 trDirection, trCalls>>

\* agent_task_result reads the runtime's currentness, then stores.
TrReport(id, run, result, body) ==
  /\ trSubmit = NoReport
  /\ trSubmit' = [request |-> id, run |-> run, id |-> result, body |-> body, current |-> trCurrent = run]
  /\ UNCHANGED <<trRev, trBasis, trCurrent, trRequests, trBound, trStored, trCheckpoints,
                 trDirection, trCalls>>

\* The first result whose run was current when it was read ends the request.
WithTerminal(q, s) ==
  IF s.current /\ q.terminal = NoResult THEN [q EXCEPT !.terminal = s.id] ELSE q

\* submit_result: evidence is kept even from a run that was superseded.
TrSubmitResult ==
  LET s == trSubmit
      row == [request |-> s.request, run |-> s.run, id |-> s.id, body |-> s.body]
      admitted == /\ {b \in trBound : b[1] = s.request} = {<<s.request, s.run>>}
                  /\ \A r \in trStored : r.id = s.id => r = row
  IN
  /\ s # NoReport
  /\ \/ /\ admitted
        /\ trStored' = trStored \cup {row}
        /\ trRequests' = {IF q.id = s.request THEN WithTerminal(q, s) ELSE q : q \in trRequests}
     \/ ~admitted /\ UNCHANGED <<trStored, trRequests>>
  /\ trSubmit' = NoReport
  /\ UNCHANGED <<trRev, trBasis, trCurrent, trBound, trCheckpoints, trDirection, trCalls>>

-----------------------------------------------------------------------------
\* checkpoint: a stored operation is answered from its row; otherwise the call
\* goes on with what the client knew of the work and of the chain.
TrLookup(c, op, body) ==
  /\ trCalls[c] = NoCall
  /\ \A i \in DOMAIN trCheckpoints : trCheckpoints[i].op # op
  /\ \E rev \in 1..trRev, seen \in 0..Len(trCheckpoints) :
       trCalls' = [trCalls EXCEPT ![c] = [op |-> op, body |-> body, rev |-> rev, seen |-> seen]]
  /\ UNCHANGED <<trRev, trBasis, trCurrent, trRequests, trBound, trStored, trSubmit,
                 trCheckpoints, trDirection>>

CheckpointAdmittedBlind(call) == call.rev = trRev

\* Under the lock on the work: the revision and the generation are as observed.
CheckpointAdmitted(call) == call.rev = trRev /\ call.seen = Len(trCheckpoints)

TrCheckpoint(c) ==
  LET call == trCalls[c] IN
  /\ call # NoCall
  /\ \/ /\ CheckpointAdmitted(call) /\ Len(trCheckpoints) < TrChain
        /\ \A i \in DOMAIN trCheckpoints : trCheckpoints[i].op # call.op
        /\ trCheckpoints' = Append(trCheckpoints,
             [op |-> call.op, by |-> c, seen |-> call.seen, basis |-> trBasis, body |-> call.body])
     \/ /\ ~CheckpointAdmitted(call) \/ \E i \in DOMAIN trCheckpoints : trCheckpoints[i].op = call.op
        /\ UNCHANGED trCheckpoints
  /\ trCalls' = [trCalls EXCEPT ![c] = NoCall]
  /\ UNCHANGED <<trRev, trBasis, trCurrent, trRequests, trBound, trStored, trSubmit, trDirection>>

\* HumanTrajectoryStore.record: the lookup of a retry, the expected generation and
\* the expected predecessor are all checked under the lock on the work.
DirectionAdmitted(op, seen) ==
  /\ \A i \in DOMAIN trDirection : trDirection[i].op # op
  /\ seen = Len(trDirection)

TrDirect(op, seen, body) ==
  /\ DirectionAdmitted(op, seen) /\ Len(trDirection) < TrChain
  /\ trDirection' = Append(trDirection, [op |-> op, seen |-> seen, body |-> body])
  /\ UNCHANGED <<trRev, trBasis, trCurrent, trRequests, trBound, trStored, trSubmit,
                 trCheckpoints, trCalls>>

TrRunsNext ==
  \/ TrChange
  \/ \E rev \in 1..TrRevs, o \in TrObjectives : TrRequest(rev, o)
  \/ \E q \in trRequests, run \in TrRuns :
       \/ TrBind(q.id, run)
       \/ \E result \in TrResults, body \in TrBodies : TrReport(q.id, run, result, body)
  \/ TrSubmitResult

TrChainsNext ==
  \/ TrChange
  \/ \E c \in TrClients : TrCheckpoint(c) \/ \E op \in TrOps, body \in TrBodies : TrLookup(c, op, body)
  \/ \E op \in TrOps, seen \in 0..TrChain, body \in TrBodies : TrDirect(op, seen, body)

TrSpec == TrInit /\ [][TrRunsNext \/ TrChainsNext]_trVars

-----------------------------------------------------------------------------
(* The terminal result of a request is a stored result of the only run bound to it,    *)
(* and stands: late, repeated and conflicting results and takeovers do not change it.   *)
TerminalResultStands ==
  \A q \in trRequests : q.terminal # NoResult =>
    /\ \E p \in trRequests' : p.id = q.id /\ p.terminal = q.terminal
    /\ \E r \in trStored' : /\ r.id = q.terminal /\ r.request = q.id
                            /\ {b \in trBound' : b[1] = q.id} = {<<q.id, r.run>>}

(* Each checkpoint and each recorded direction was written by someone who had seen the   *)
(* one before it, and no operation is recorded twice: of two sessions that start from     *)
(* the same generation one is refused, and a retry that races its own first attempt        *)
(* does not add a second record.                                                          *)
ChainsLoseNothing ==
  \A chain \in {trCheckpoints, trDirection} :
    /\ \A i \in DOMAIN chain : chain[i].seen = i - 1
    /\ \A i, j \in DOMAIN chain : chain[i].op = chain[j].op => i = j

\* Results, checkpoints and directions of sessions that race or repeat themselves: what
\* was recorded stands, and each record was made with the one before it in view.
RunRecordsStand ==
  [][TerminalResultStands /\ ChainsLoseNothing']_trVars
=============================================================================
