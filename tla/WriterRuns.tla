------------------------------ MODULE WriterRuns ------------------------------
(***************************************************************************)
(* The managed runs of one linked writer worktree: the receipt that says   *)
(* which process runs there (run.py), the launcher that reserves the       *)
(* writer, records the run, prepares its development resources and          *)
(* supervises the agent (launch.py, development.py), switchstand-run-stop   *)
(* and the reader that asks which run is current.  A launcher may be        *)
(* stopped by SIGTSTP while it supervises and killed anywhere, its process  *)
(* id is used again, and a Docker command may finish after its client.      *)
(*                                                                         *)
(* External, from how the code uses them: the process table with its start *)
(* tokens, pidfds, the advisory lock that a process's end releases, Docker. *)
(***************************************************************************)
EXTENDS Naturals, FiniteSets

CONSTANTS
  WrLaunchers,  \* launches of the writer; each has a run id of its own
  WrPids,       \* process ids
  WrTokens,     \* bound on the processes that are started
  WrKills       \* bound on kills from outside

ASSUME WrAssumption == WrTokens \in Nat /\ WrKills \in Nat /\ {"free", "stop", "none"} \cap WrLaunchers = {}

VARIABLES
  wrTable,    \* the process table: the start token behind each process id, 0 if it is free
  wrClock,    \* the last start token
  wrReceipt,  \* switchstand-run.json
  wrLock,     \* who holds switchstand-run.lock
  wrProc,     \* the launchers
  wrAgent,    \* the agent each launcher supervises
  wrDev,      \* the development resources that exist, by the run that owns them
  wrLate,     \* Docker commands that may finish although their client is gone
  wrStop,     \* one call of switchstand-run-stop
  wrRead,     \* one call of managed_runtime_currentness
  wrKilled    \* launchers killed from outside

wrVars == <<wrTable, wrClock, wrReceipt, wrLock, wrProc, wrAgent, wrDev, wrLate, wrStop, wrRead,
            wrKilled>>

-----------------------------------------------------------------------------
NoRun == [run |-> "none", pid |-> 0, token |-> 0]
DevResources == {"image", "network", "database"}

Alive(token) == \E p \in WrPids : wrTable[p] = token

\* inspect_receipt: the process id is not enough, its start token tells whose it is.
RunStatus(receipt) ==
  CASE receipt = NoRun -> "unknown"
    [] receipt # NoRun /\ wrTable[receipt.pid] = 0 -> "stopped"
    [] receipt # NoRun /\ wrTable[receipt.pid] = receipt.token -> "running"
    [] OTHER -> "lost"

At(l, step) == wrProc[l].at = step
Steps(l, step) == wrProc' = [wrProc EXCEPT ![l].at = step]

\* The launcher's with block ends, normally or by an exception, and closes the lock.
Closed(l) == IF wrLock = l THEN "free" ELSE wrLock

NoProcess(at) == [at |-> at, pid |-> 0, token |-> 0, retry |-> FALSE, halted |-> FALSE]

\* The process is gone: the kernel frees its id and drops its lock.
Vanish(l, agents, late) ==
  /\ wrTable' = [wrTable EXCEPT ![wrProc[l].pid] = 0]
  /\ wrLock' = Closed(l)
  /\ wrProc' = [wrProc EXCEPT ![l] = NoProcess("gone")]
  /\ wrAgent' = agents
  /\ wrLate' = wrLate \cup late

-----------------------------------------------------------------------------
WrStart(l) ==
  /\ At(l, "new") /\ wrClock < WrTokens
  /\ \E p \in WrPids :
       /\ wrTable[p] = 0
       /\ wrTable' = [wrTable EXCEPT ![p] = wrClock + 1]
       /\ wrProc' = [wrProc EXCEPT ![l] = [at |-> "wait", pid |-> p, token |-> wrClock + 1,
                                           retry |-> FALSE, halted |-> FALSE]]
  /\ wrClock' = wrClock + 1
  /\ UNCHANGED <<wrReceipt, wrLock, wrAgent, wrDev, wrLate>>

\* reserve_run takes the lock before it looks at the receipt.
Reserve(l) ==
  /\ At(l, "wait") /\ wrLock = "free"
  /\ wrLock' = l
  /\ Steps(l, "inspect")
  /\ UNCHANGED <<wrTable, wrClock, wrReceipt, wrAgent, wrDev, wrLate>>

Relaunchable(receipt) == RunStatus(receipt) \in {"stopped", "lost"}

Inspect(l) ==
  /\ At(l, "inspect")
  /\ CASE wrReceipt = NoRun -> Steps(l, "provision") /\ UNCHANGED wrLock
       [] wrReceipt # NoRun /\ Relaunchable(wrReceipt) -> Steps(l, "reclaim") /\ UNCHANGED wrLock
       [] OTHER -> Steps(l, "leaving") /\ wrLock' = Closed(l)
  /\ UNCHANGED <<wrTable, wrClock, wrReceipt, wrAgent, wrDev, wrLate>>

\* remove_owned, for each resource: it is removed or, when a Docker command fails, left.
Remains(made) == SUBSET made

\* reclaim_development of the previous run: what cannot be removed, or a cache that cannot be
\* pruned, stops the launch.
Reclaim(l) ==
  /\ At(l, "reclaim")
  /\ \/ /\ wrDev' = [wrDev EXCEPT ![wrReceipt.run] = {}]
        /\ Steps(l, "provision") /\ UNCHANGED wrLock
     \/ /\ \E left \in Remains(wrDev[wrReceipt.run]) :
             wrDev' = [wrDev EXCEPT ![wrReceipt.run] = left]
        /\ Steps(l, "leaving") /\ wrLock' = Closed(l)
  /\ UNCHANGED <<wrTable, wrClock, wrReceipt, wrAgent, wrLate>>

Provision(l) ==
  /\ At(l, "provision")
  /\ \/ Steps(l, "record") /\ UNCHANGED wrLock
     \/ Steps(l, "leaving") /\ wrLock' = Closed(l)
  /\ UNCHANGED <<wrTable, wrClock, wrReceipt, wrAgent, wrDev, wrLate>>

\* _write_receipt replaces the file in one step.
Record(l) ==
  /\ At(l, "record")
  /\ wrReceipt' = [run |-> l, pid |-> wrProc[l].pid, token |-> wrProc[l].token]
  /\ Steps(l, "bind")
  /\ UNCHANGED <<wrTable, wrClock, wrLock, wrAgent, wrDev, wrLate>>

\* bind_task_start: an answer that cannot be read is asked for once more, while the run is
\* still the one on file.
Bind(l) ==
  /\ At(l, "bind")
  /\ \/ /\ wrProc' = [wrProc EXCEPT ![l].at = "create", ![l].retry = FALSE]
        /\ UNCHANGED wrLock
     \/ /\ ~wrProc[l].retry /\ RunStatus(wrReceipt) = "running" /\ wrReceipt.run = l
        /\ wrProc' = [wrProc EXCEPT ![l].retry = TRUE]
        /\ UNCHANGED wrLock
     \/ Steps(l, "leaving") /\ wrLock' = Closed(l)
  /\ UNCHANGED <<wrTable, wrClock, wrReceipt, wrAgent, wrDev, wrLate>>

NextResource(l) ==
  CASE "image" \notin wrDev[l] -> "image"
    [] "image" \in wrDev[l] /\ "network" \notin wrDev[l] -> "network"
    [] OTHER -> "database"

\* command: a client that exceeds its time is killed, and what it asked for may still be made.
TimedOut(l) == SUBSET {<<l, NextResource(l)>>}

\* prepare_development: one resource after another; the lock is held to the end.  On failure,
\* of a create or of the readiness check after the last, what exists is removed as far as that
\* goes.
PrepareDevelopment(l) ==
  /\ At(l, "create")
  /\ LET made == wrDev[l] \cup {NextResource(l)} IN
     \/ /\ wrDev' = [wrDev EXCEPT ![l] = made]
        /\ IF made = DevResources THEN Steps(l, "ready") /\ wrLock' = Closed(l)
           ELSE UNCHANGED <<wrProc, wrLock>>
        /\ UNCHANGED wrLate
     \/ /\ \E left \in Remains(made) : wrDev' = [wrDev EXCEPT ![l] = left]
        /\ \E late \in TimedOut(l) : wrLate' = wrLate \cup late
        /\ Steps(l, "leaving") /\ wrLock' = Closed(l)
  /\ UNCHANGED <<wrTable, wrClock, wrReceipt, wrAgent>>

\* supervise_codex: the handlers are in place before the agent is started; a signal that came
\* in between is delivered to it.
Arm(l) ==
  /\ At(l, "ready")
  /\ Steps(l, "armed")
  /\ UNCHANGED <<wrTable, wrClock, wrReceipt, wrLock, wrAgent, wrDev, wrLate>>

Spawn(l) ==
  /\ At(l, "armed")
  /\ wrAgent' = [wrAgent EXCEPT ![l] = "running"]
  /\ Steps(l, "supervise")
  /\ UNCHANGED <<wrTable, wrClock, wrReceipt, wrLock, wrDev, wrLate>>

\* The launcher sees that its agent has ended; within CHILD_TERM_SECONDS of a termination it
\* kills the agent's whole group.
Reap(l) ==
  /\ At(l, "supervise") /\ wrAgent[l] = "gone"
  /\ Steps(l, "clean")
  /\ UNCHANGED <<wrTable, wrClock, wrReceipt, wrLock, wrAgent, wrDev, wrLate>>

Clean(l) ==
  /\ At(l, "clean")
  /\ \E left \in Remains(wrDev[l]) : wrDev' = [wrDev EXCEPT ![l] = left]
  /\ Steps(l, "leaving")
  /\ UNCHANGED <<wrTable, wrClock, wrReceipt, wrLock, wrAgent, wrLate>>

Leave(l) ==
  /\ At(l, "leaving")
  /\ Vanish(l, wrAgent, {})
  /\ UNCHANGED <<wrClock, wrReceipt, wrDev>>

\* Killed from outside, at any step: the agent, in a session of its own, lives on, and so
\* does a Docker command that was under way.
KilledOutside(l) ==
  /\ ~At(l, "new") /\ ~At(l, "gone") /\ Cardinality(wrKilled) < WrKills
  /\ Vanish(l, wrAgent, IF At(l, "create") THEN {<<l, NextResource(l)>>} ELSE {})
  /\ UNCHANGED <<wrClock, wrReceipt, wrDev>>

LateCommand ==
  /\ \E c \in wrLate : wrDev' = [wrDev EXCEPT ![c[1]] = @ \cup {c[2]}] /\ c[2] \notin wrDev[c[1]]
  /\ UNCHANGED <<wrTable, wrClock, wrReceipt, wrLock, wrProc, wrAgent, wrLate, wrStop, wrRead,
                 wrKilled>>

\* Some other program of the host takes a process id.
Foreign ==
  /\ wrClock < WrTokens
  /\ \E p \in WrPids : wrTable[p] = 0 /\ wrTable' = [wrTable EXCEPT ![p] = wrClock + 1]
  /\ wrClock' = wrClock + 1
  /\ UNCHANGED <<wrReceipt, wrLock, wrProc, wrAgent, wrDev, wrLate, wrStop, wrRead, wrKilled>>

Launch(l) ==
  /\ ~wrProc[l].halted
  /\ \/ WrStart(l) \/ Reserve(l) \/ Inspect(l) \/ Reclaim(l) \/ Provision(l) \/ Record(l)
     \/ Bind(l) \/ PrepareDevelopment(l) \/ Arm(l) \/ Spawn(l) \/ Reap(l) \/ Clean(l)
     \/ Leave(l)
  /\ UNCHANGED <<wrStop, wrRead, wrKilled>>

\* The agent ends by itself or under a signal, whatever has become of its launcher.
AgentEnds(l) ==
  /\ wrAgent[l] = "running"
  /\ wrAgent' = [wrAgent EXCEPT ![l] = "gone"]
  /\ UNCHANGED <<wrTable, wrClock, wrReceipt, wrLock, wrProc, wrDev, wrLate, wrStop, wrRead,
                 wrKilled>>

\* deliver, for SIGTSTP: the launcher passes it on and stops itself until SIGCONT.  One that
\* does not supervise has the default action, which is to take no step.
Halt(l) ==
  /\ At(l, "supervise") \/ At(l, "clean")
  /\ ~wrProc[l].halted
  /\ wrProc' = [wrProc EXCEPT ![l].halted = TRUE]
  /\ wrStop' = [wrStop EXCEPT !.held = @ \/ (wrStop.at = "grace" /\ wrStop.fd = wrProc[l].token)]
  /\ UNCHANGED <<wrTable, wrClock, wrReceipt, wrLock, wrAgent, wrDev, wrLate, wrRead, wrKilled>>

Continue(l) ==
  /\ wrProc[l].halted
  /\ wrProc' = [wrProc EXCEPT ![l].halted = FALSE]
  /\ UNCHANGED <<wrTable, wrClock, wrReceipt, wrLock, wrAgent, wrDev, wrLate, wrStop, wrRead,
                 wrKilled>>

Kill(l) == KilledOutside(l) /\ wrKilled' = wrKilled \cup {l} /\ UNCHANGED <<wrStop, wrRead>>

-----------------------------------------------------------------------------
\* stop_receipt, under the lock: open the process, and only then look whose it is.  `held' says
\* that its launcher was stopped at some time between SIGTERM and SIGKILL.
NotStopping == [at |-> "idle", receipt |-> NoRun, fd |-> 0, held |-> FALSE, answer |-> "none"]

StopEnd(answer) ==
  /\ wrStop' = [wrStop EXCEPT !.at = "done", !.answer = answer]
  /\ wrLock' = "free"

StopBegin ==
  /\ wrStop.at = "idle" /\ wrLock = "free"
  /\ wrLock' = "stop"
  /\ wrStop' = [wrStop EXCEPT !.at = "read"]
  /\ UNCHANGED <<wrTable, wrProc, wrAgent, wrLate>>

StopRead ==
  /\ wrStop.at = "read"
  /\ IF wrReceipt = NoRun THEN StopEnd("unknown")
     ELSE wrStop' = [wrStop EXCEPT !.at = "open", !.receipt = wrReceipt] /\ UNCHANGED wrLock
  /\ UNCHANGED <<wrTable, wrProc, wrAgent, wrLate>>

StopOpen ==
  /\ wrStop.at = "open"
  /\ LET token == wrTable[wrStop.receipt.pid] IN
     IF token = 0 THEN StopEnd("stopped")
     ELSE wrStop' = [wrStop EXCEPT !.at = "identify", !.fd = token] /\ UNCHANGED wrLock
  /\ UNCHANGED <<wrTable, wrProc, wrAgent, wrLate>>

AnyIdentity(s) == TRUE

SameIdentity(s) == wrTable[s.receipt.pid] = s.receipt.token

StopIdentify ==
  /\ wrStop.at = "identify"
  /\ CASE wrTable[wrStop.receipt.pid] = 0 -> StopEnd("stopped")
       [] wrTable[wrStop.receipt.pid] # 0 /\ SameIdentity(wrStop) ->
            wrStop' = [wrStop EXCEPT !.at = "term"] /\ UNCHANGED wrLock
       [] OTHER -> StopEnd("lost")
  /\ UNCHANGED <<wrTable, wrProc, wrAgent, wrLate>>

Supervising(l) == At(l, "armed") \/ At(l, "supervise") \/ At(l, "clean")

\* SIGTERM: forwarded to the agent by a supervising launcher, once it runs, and the end of any
\* other.
StopTerm ==
  /\ wrStop.at = "term"
  /\ \E l \in WrLaunchers :
       /\ wrProc[l].token = wrStop.fd
       /\ wrStop' = [wrStop EXCEPT !.at = "grace", !.held = wrProc[l].halted]
       /\ IF Supervising(l) THEN UNCHANGED <<wrTable, wrLock, wrProc, wrAgent, wrLate>>
          ELSE Vanish(l, wrAgent, {})

\* GRACE_SECONDS are twice the time that a launcher gives its agent, so SIGKILL finds no agent of
\* a launcher that ran all the time, only one that is still cleaning up.
AgentIsDown(l) == ~At(l, "armed") /\ wrAgent[l] # "running"

\* SIGKILL: the launcher executes nothing more.
StopGrace ==
  /\ wrStop.at = "grace"
  /\ \E l \in WrLaunchers :
       /\ wrProc[l].token = wrStop.fd /\ (AgentIsDown(l) \/ wrStop.held)
       /\ wrProc' = [wrProc EXCEPT ![l].at = "leaving", ![l].halted = FALSE]
  /\ wrStop' = [wrStop EXCEPT !.at = "force"]
  /\ UNCHANGED <<wrTable, wrLock, wrAgent, wrLate>>

\* The process is gone before a signal or within the time after it.
StopGone ==
  /\ wrStop.at \in {"term", "grace", "force"} /\ ~Alive(wrStop.fd)
  /\ StopEnd("stopped")
  /\ UNCHANGED <<wrTable, wrProc, wrAgent, wrLate>>

\* A system call fails, or FORCE_SECONDS pass and the process is still there.
StopFails ==
  /\ wrStop.at \in {"open", "identify", "term", "grace", "force"}
  /\ StopEnd("unknown")
  /\ UNCHANGED <<wrTable, wrProc, wrAgent, wrLate>>

Stop ==
  /\ \/ StopBegin \/ StopRead \/ StopOpen \/ StopIdentify \/ StopTerm \/ StopGrace
     \/ StopGone \/ StopFails
  /\ UNCHANGED <<wrClock, wrReceipt, wrDev, wrRead, wrKilled>>

-----------------------------------------------------------------------------
\* managed_runtime_currentness reads the receipt twice and then the process table, without
\* the lock.
ReadCurrent ==
  /\ \/ wrRead.at = "first" /\ wrRead' = [wrRead EXCEPT !.at = "second", !.first = wrReceipt]
     \/ wrRead.at = "second" /\ wrRead' = [wrRead EXCEPT !.at = "process", !.second = wrReceipt]
     \/ /\ wrRead.at = "process"
        /\ wrRead' = [wrRead EXCEPT
             !.at = "done",
             !.current = IF /\ RunStatus(wrRead.second) = "running"
                            /\ wrRead.first.run = wrRead.second.run
                         THEN wrRead.first.run ELSE "none",
             !.onFile = wrReceipt.run]
  /\ UNCHANGED <<wrTable, wrClock, wrReceipt, wrLock, wrProc, wrAgent, wrDev, wrLate, wrStop,
                 wrKilled>>

\* Either a stop or a reader goes on beside the launches: the two share nothing they write.
WrInit ==
  /\ wrTable = [p \in WrPids |-> 0]
  /\ wrClock = 0
  /\ wrReceipt = NoRun
  /\ wrLock = "free"
  /\ wrProc = [l \in WrLaunchers |-> NoProcess("new")]
  /\ wrAgent = [l \in WrLaunchers |-> "none"]
  /\ wrDev = [l \in WrLaunchers |-> {}]
  /\ wrLate = {}
  /\ wrStop \in {NotStopping, [NotStopping EXCEPT !.at = "unused"]}
  /\ wrRead = [at |-> IF wrStop = NotStopping THEN "unused" ELSE "first", first |-> NoRun,
               second |-> NoRun, current |-> "none", onFile |-> "none"]
  /\ wrKilled = {}

WrNext ==
  \/ \E l \in WrLaunchers : Launch(l) \/ AgentEnds(l) \/ Halt(l) \/ Continue(l) \/ Kill(l)
  \/ Stop \/ ReadCurrent \/ Foreign \/ LateCommand

WrSpec == WrInit /\ [][WrNext]_wrVars

-----------------------------------------------------------------------------
\* Launchers whose agent may be left behind: killed from outside, or by the stop after they were
\* stopped themselves in its grace period and could not pass SIGTERM on.
Forsaken == wrKilled \cup {l \in WrLaunchers : wrStop.held /\ wrStop.receipt.run = l}

\* The stop signals no process but the recorded one, although process ids are used again, and
\* when it says the run has ended, the launcher has, and its agent too unless forsaken.
StopHitsItsRun ==
  /\ wrStop.at \in {"term", "grace", "force"} => wrStop.fd = wrStop.receipt.token
  /\ wrStop.answer \in {"stopped", "lost"} =>
       /\ ~Alive(wrStop.receipt.token)
       /\ wrStop.receipt.run \notin Forsaken => wrAgent[wrStop.receipt.run] # "running"

\* No two agents work in one writer, unless a launcher was killed and left its agent behind.
OneAgentPerWriter ==
  Cardinality({l \in WrLaunchers \ Forsaken : wrAgent[l] = "running"}) <= 1

\* The image, the network and the database of a run that is no longer on file are gone: a launch
\* reclaims them before it records its own run.  Only what a Docker command made whose client
\* was killed, by its time limit or with its launcher, escapes.
NothingIsOrphaned ==
  \A l \in WrLaunchers : l # wrReceipt.run => \A r \in wrDev[l] : <<l, r>> \in wrLate

\* The run named current was, when its process was seen, the run on file.
CurrentRunIsOnFile == wrRead.current # "none" => wrRead.current = wrRead.onFile

\* What the receipt of a writer is for, whatever launches, stops and dies beside it.
WriterRunsAreSound ==
  StopHitsItsRun /\ OneAgentPerWriter /\ NothingIsOrphaned /\ CurrentRunIsOnFile
=============================================================================
