------------------------- MODULE WorktreeRetirement -------------------------
(***************************************************************************)
(* Operator-invoked retirement of a writer's linked worktree, and pruning  *)
(* of registrations without a directory (worktree_lifecycle.py).  A plan   *)
(* freezes what classify saw; applying it classifies again, moves the      *)
(* evidence directories into an archive one by one with a receipt, and has *)
(* git remove the rest by force.  Applications may run at the same time    *)
(* and may die at any step; the writer's session may still write.          *)
(***************************************************************************)
EXTENDS Naturals, Sequences, FiniteSets

CONSTANTS
  WtApplies,   \* applications of a plan
  WtEvidence,  \* EVIDENCE, the directories to keep
  WtWrites     \* bound on what the session still does

VARIABLES
  wtDir,       \* the writer's directory: there, state of the assignment, evidence
  wtRegistered,\* git's registration of it
  wtArchive,   \* made or not, and the evidence in it
  wtPlan,      \* the retirement plan on file
  wtReceipt,   \* the retirement receipt on file
  wtApply,     \* applications in progress
  wtPrune,     \* the prune plan and receipt
  wtWrites

wtVars == <<wtDir, wtRegistered, wtArchive, wtPlan, wtReceipt, wtApply, wtPrune, wtWrites>>

ASSUME RetirementConstants == WtWrites \in Nat

\* Evidence is a number of writes per directory; 0 where there is none.
NoEvidence == [e \in WtEvidence |-> 0]
NoPlan == [made |-> FALSE]
NoRetirement == [state |-> "none"]
Unstarted == [at |-> "ready"]

WtInit ==
  /\ wtDir = [there |-> TRUE, complete |-> FALSE, evidence |-> NoEvidence]
  /\ wtRegistered = TRUE
  /\ wtArchive = [made |-> FALSE, evidence |-> NoEvidence]
  /\ wtPlan = NoPlan /\ wtReceipt = NoRetirement
  /\ wtApply = [a \in WtApplies |-> Unstarted]
  /\ wtPrune = [at |-> "none"]
  /\ wtWrites = 0

-----------------------------------------------------------------------------
(* The session of the writer.                                               *)

\* It writes evidence, before the end of the assignment or after.
WritesEvidence(e) ==
  /\ wtDir.there /\ wtWrites < WtWrites
  /\ wtWrites' = wtWrites + 1
  /\ wtDir' = [wtDir EXCEPT !.evidence[e] = wtWrites + 1]
  /\ UNCHANGED <<wtRegistered, wtArchive, wtPlan, wtReceipt, wtApply, wtPrune>>

\* Its last marker, head, cleanliness or handoff changes; they all count for classify.
AssignmentChanges ==
  /\ wtDir.there /\ (wtDir.complete => wtWrites < WtWrites)
  /\ wtWrites' = IF wtDir.complete THEN wtWrites + 1 ELSE wtWrites
  /\ wtDir' = [wtDir EXCEPT !.complete = ~@]
  /\ UNCHANGED <<wtRegistered, wtArchive, wtPlan, wtReceipt, wtApply, wtPrune>>

-----------------------------------------------------------------------------
\* classify: a candidate is registered, complete, clean and in main; its identity
\* fingerprints the evidence.
Candidate == wtDir.there /\ wtRegistered /\ wtDir.complete
Identity == [complete |-> wtDir.complete, evidence |-> wtDir.evidence]

PlanRetire ==
  /\ Candidate
  /\ wtPlan' = [made |-> TRUE, identity |-> Identity]
  /\ UNCHANGED <<wtDir, wtRegistered, wtArchive, wtReceipt, wtApply, wtPrune, wtWrites>>

Goto(a, pc) == [wtApply EXCEPT ![a].at = pc]

\* Mutant: a plan for a candidate is applied as it was written.
CandidateStill(plan) == Candidate

\* "retirement preimage changed"
PreimageHolds(plan) == Candidate /\ plan.identity = Identity

\* The first half of _apply_retire.  seen is what the writer held (observer).
ApplyChecks(a) ==
  /\ wtApply[a] = Unstarted /\ wtPlan.made
  /\ PreimageHolds(wtPlan)
  /\ wtApply' = [wtApply EXCEPT ![a] =
       [at |-> "checked", plan |-> wtPlan.identity.evidence, moved |-> {}, seen |-> wtDir.evidence,
        archivist |-> FALSE]]
  /\ UNCHANGED <<wtDir, wtRegistered, wtArchive, wtPlan, wtReceipt, wtPrune, wtWrites>>

ApplyLooksForArchive(a) ==
  /\ wtApply[a].at = "checked"
  /\ wtApply' = Goto(a, IF wtArchive.made THEN "refused" ELSE "start")
  /\ UNCHANGED <<wtDir, wtRegistered, wtArchive, wtPlan, wtReceipt, wtPrune, wtWrites>>

RetireReceipt(a, state) ==
  [state |-> state, plan |-> wtApply[a].plan, listed |-> wtApply[a].moved]

ApplyStarts(a) ==
  /\ wtApply[a].at = "start"
  /\ wtReceipt' = RetireReceipt(a, "STARTED")
  /\ wtApply' = Goto(a, "mkdir")
  /\ UNCHANGED <<wtDir, wtRegistered, wtArchive, wtPlan, wtPrune, wtWrites>>

\* archive.mkdir fails when somebody else has made it.
ApplyMakesArchive(a) ==
  /\ wtApply[a].at = "mkdir"
  /\ wtApply' = [wtApply EXCEPT ![a].at = IF wtArchive.made THEN "refused" ELSE "move",
                                ![a].archivist = ~wtArchive.made]
  /\ wtArchive' = [wtArchive EXCEPT !.made = TRUE]
  /\ UNCHANGED <<wtDir, wtRegistered, wtPlan, wtReceipt, wtPrune, wtWrites>>

Unmoved(a) == {e \in WtEvidence : wtApply[a].plan[e] > 0 /\ e \notin wtApply[a].moved}

\* os.rename; a directory that is no longer there ends the application.
ApplyMoves(a, e) ==
  /\ wtApply[a].at = "move" /\ e \in Unmoved(a)
  /\ IF wtDir.there /\ wtDir.evidence[e] > 0
     THEN /\ wtArchive' = [wtArchive EXCEPT !.evidence[e] = wtDir.evidence[e]]
          /\ wtDir' = [wtDir EXCEPT !.evidence[e] = 0]
          /\ wtApply' = [wtApply EXCEPT ![a].at = "note", ![a].moved = @ \cup {e}]
     ELSE wtApply' = Goto(a, "refused") /\ UNCHANGED <<wtArchive, wtDir>>
  /\ UNCHANGED <<wtRegistered, wtPlan, wtReceipt, wtPrune, wtWrites>>

ApplyNotesMove(a) ==
  /\ wtApply[a].at = "note"
  /\ wtReceipt' = RetireReceipt(a, "STARTED")
  /\ wtApply' = Goto(a, "move")
  /\ UNCHANGED <<wtDir, wtRegistered, wtArchive, wtPlan, wtPrune, wtWrites>>

EverythingMoved(a) == Unmoved(a) = {}

\* git worktree remove --force: the directory goes first, then the registration.
GitRemovesDirectory(a) ==
  /\ wtApply[a].at = "move" /\ EverythingMoved(a)
  /\ IF wtDir.there /\ wtRegistered
     THEN /\ wtDir' = [wtDir EXCEPT !.there = FALSE, !.evidence = NoEvidence]
          /\ wtApply' = Goto(a, "unregister")
     ELSE wtApply' = Goto(a, "refused") /\ UNCHANGED wtDir
  /\ UNCHANGED <<wtRegistered, wtArchive, wtPlan, wtReceipt, wtPrune, wtWrites>>

GitUnregisters(a) ==
  /\ wtApply[a].at = "unregister"
  /\ wtRegistered' = FALSE
  /\ wtApply' = Goto(a, "readback")
  /\ UNCHANGED <<wtDir, wtArchive, wtPlan, wtReceipt, wtPrune, wtWrites>>

ApplyCompletes(a) ==
  /\ wtApply[a].at = "readback"
  /\ IF wtDir.there \/ wtRegistered
     THEN wtApply' = Goto(a, "refused") /\ UNCHANGED wtReceipt
     ELSE wtApply' = Goto(a, "done") /\ wtReceipt' = RetireReceipt(a, "COMPLETE")
  /\ UNCHANGED <<wtDir, wtRegistered, wtArchive, wtPlan, wtPrune, wtWrites>>

\* The process is killed; another application may follow.
ApplyDies(a) ==
  /\ wtApply[a].at \notin {"ready", "refused", "done"}
  /\ wtApply' = Goto(a, "refused")
  /\ UNCHANGED <<wtDir, wtRegistered, wtArchive, wtPlan, wtReceipt, wtPrune, wtWrites>>

-----------------------------------------------------------------------------
(* Registrations that git calls prunable.                                   *)

Prunable == wtRegistered /\ ~wtDir.there

PlanPrune ==
  /\ wtPrune.at = "none"
  /\ wtPrune' = [at |-> "planned", listed |-> Prunable]
  /\ UNCHANGED <<wtDir, wtRegistered, wtArchive, wtPlan, wtReceipt, wtApply, wtWrites>>

\* "prunable registration set changed", then git worktree prune; an unchanged set is
\* found and pruned by different git calls.
ApplyPruneChecks ==
  /\ wtPrune.at = "planned"
  /\ wtPrune' = [wtPrune EXCEPT !.at = IF Prunable = wtPrune.listed THEN "checked" ELSE "none"]
  /\ UNCHANGED <<wtDir, wtRegistered, wtArchive, wtPlan, wtReceipt, wtApply, wtWrites>>

ApplyPrune ==
  /\ wtPrune.at = "checked"
  /\ wtRegistered' = (wtRegistered /\ wtDir.there)
  /\ wtPrune' = [at |-> "none"]
  /\ UNCHANGED <<wtDir, wtArchive, wtPlan, wtReceipt, wtApply, wtWrites>>

WtNext ==
  \/ \E e \in WtEvidence : WritesEvidence(e)
  \/ AssignmentChanges \/ PlanRetire
  \/ \E a \in WtApplies :
       \/ ApplyChecks(a) \/ ApplyLooksForArchive(a) \/ ApplyStarts(a)
       \/ ApplyMakesArchive(a) \/ \E e \in WtEvidence : ApplyMoves(a, e)
       \/ ApplyNotesMove(a) \/ GitRemovesDirectory(a) \/ GitUnregisters(a)
       \/ ApplyCompletes(a) \/ ApplyDies(a)
  \/ PlanPrune \/ ApplyPruneChecks \/ ApplyPrune

WtSpec == WtInit /\ [][WtNext]_wtVars

-----------------------------------------------------------------------------
\* What the writer held when the application that made the archive looked at it is kept,
\* in the writer or in the archive and in no older form, wherever that application dies
\* and whatever others do meanwhile.
EvidenceIsKept ==
  \A a \in WtApplies : (wtApply[a] # Unstarted /\ wtApply[a].archivist) =>
    \A e \in WtEvidence :
      wtDir.evidence[e] >= wtApply[a].seen[e] \/ wtArchive.evidence[e] >= wtApply[a].seen[e]

\* The receipt on file is never ahead of the archive, and COMPLETE means that the writer
\* is gone, unregistered and its planned evidence archived: with two applications of one
\* plan, or one that died, an operator can rely on what it lists.
ReceiptIsTrue ==
  wtReceipt # NoRetirement =>
    /\ \A e \in wtReceipt.listed : wtArchive.evidence[e] >= wtReceipt.plan[e]
    /\ wtReceipt.state = "COMPLETE" =>
         /\ ~wtDir.there /\ ~wtRegistered
         /\ \A e \in WtEvidence : wtReceipt.plan[e] > 0 => e \in wtReceipt.listed

\* Two applications of a retirement plan, either dying anywhere, lose no evidence and
\* leave no receipt that says more than was done.
RetirementIsSound ==
  EvidenceIsKept /\ ReceiptIsTrue
=============================================================================
