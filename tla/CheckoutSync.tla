---------------------------- MODULE CheckoutSync ----------------------------
(***************************************************************************)
(* Fast-forwarding the Coordinator's checkout to the remote main           *)
(* (coordinator_sync.py: sync, handoff, _sync_locked).  A call holds a     *)
(* file lock against other calls and git's config.lock against             *)
(* configuration changes; neither keeps people from working in the         *)
(* checkout or the remote from moving.  currentness only reads.            *)
(***************************************************************************)
EXTENDS Naturals

CONSTANTS
  CsCalls,     \* concurrent calls of sync and handoff
  CsRemotes    \* bound on the commits of the remote main, numbered in order

VARIABLES
  csHead,      \* commit of the checkout: remote commit and whether one was added here
  csClean,     \* git status is empty
  csRemote,    \* refs/heads/main of the remote
  csGuard,     \* config.lock exists
  csCalls      \* calls in progress, or what they answered

csVars == <<csHead, csClean, csRemote, csGuard, csCalls>>

ASSUME SyncConstants == CsRemotes \in Nat \ {0}

Pushed(n) == [remote |-> n, local |-> FALSE]

\* merge-base --is-ancestor.  The remote main is one line of commits; a rewritten
\* remote points back along it.
Ancestor(a, b) == a = b \/ (~a.local /\ a.remote <= b.remote)

CsInit ==
  /\ csHead = Pushed(1) /\ csClean = TRUE
  /\ csRemote \in 1..CsRemotes
  /\ csGuard = FALSE
  /\ csCalls = [c \in CsCalls |-> [at |-> "idle"]]

Go(c, value) == csCalls' = [csCalls EXCEPT ![c] = value]
Proceed(c, at) == Go(c, [csCalls[c] EXCEPT !.at = at])

\* The answer, and the release of both locks.
Answers(c, effect) ==
  /\ Go(c, [csCalls[c] EXCEPT !.at = "done", !.effect = effect, !.read = csHead])
  /\ csGuard' = FALSE

Locked(c) == csCalls[c].at \notin {"idle", "done"}

\* A call that holds the locks: nothing merged and nothing answered yet.
Started(kind, target, started) ==
  [at |-> "check", kind |-> kind, observed |-> csHead, target |-> target, moved |-> FALSE,
   started |-> started, failed |-> FALSE, effect |-> "none", read |-> Pushed(1)]

-----------------------------------------------------------------------------
\* sync with the target the caller observed; handoff observes the target itself, once
\* the checkout is clean and holds the commit the generation started from.
Begin(c) ==
  /\ csCalls[c].at = "idle"
  /\ \A d \in CsCalls : ~Locked(d)
  /\ ~csGuard
  /\ \/ \E target \in 1..CsRemotes :
          Go(c, Started("sync", target, csHead))
     \/ \E started \in 1..csHead.remote :
          /\ csClean
          /\ Go(c, Started("handoff", csRemote, Pushed(started)))
  /\ csGuard' = TRUE
  /\ UNCHANGED <<csHead, csClean, csRemote>>

\* The first validation in _sync_locked.
Check(c) ==
  /\ csCalls[c].at = "check"
  /\ IF csHead # csCalls[c].observed \/ ~csClean \/ csRemote # csCalls[c].target
     THEN Answers(c, "not_sent")
     ELSE IF csHead = Pushed(csCalls[c].target) THEN Answers(c, "current")
     ELSE Proceed(c, "fetch") /\ UNCHANGED csGuard
  /\ UNCHANGED <<csHead, csClean, csRemote>>

\* fetch, and every condition again before the merge.
Fetch(c) ==
  /\ csCalls[c].at = "fetch"
  /\ \/ /\ csRemote = csCalls[c].target
        /\ Ancestor(csCalls[c].observed, Pushed(csCalls[c].target))
        /\ csHead = csCalls[c].observed /\ csClean
        /\ Proceed(c, "merge") /\ UNCHANGED csGuard
     \/ Answers(c, "not_sent")
  /\ UNCHANGED <<csHead, csClean, csRemote>>

\* merge --ff-only: done; refused or failed; killed at the timeout, with the checkout
\* left anywhere between.  A dirty file it does not touch does not stop it.
Merge(c) ==
  /\ csCalls[c].at = "merge"
  /\ LET target == Pushed(csCalls[c].target)
         Left(failed, moved) ==
           Go(c, [csCalls[c] EXCEPT !.at = "readback", !.failed = failed, !.moved = moved])
         Moves(failed) == csHead' = target /\ Left(failed, csHead # target)
     IN
     \/ Ancestor(csHead, target) /\ (\E failed \in BOOLEAN : Moves(failed)) /\ UNCHANGED csClean
     \/ Left(TRUE, FALSE) /\ UNCHANGED <<csHead, csClean>>
     \/ /\ Ancestor(csHead, target) /\ csClean' = FALSE
        /\ Moves(TRUE) \/ (UNCHANGED csHead /\ Left(TRUE, FALSE))
  /\ UNCHANGED <<csRemote, csGuard>>

\* Mutant: a merge that failed is taken to have changed nothing.
TrustFailure(c) ==
  /\ csCalls[c].at = "readback"
  /\ LET exact == csHead = Pushed(csCalls[c].target) /\ csClean IN
     Answers(c, IF csCalls[c].failed THEN "not_sent" ELSE IF exact THEN "applied" ELSE "unknown")
  /\ UNCHANGED <<csHead, csClean, csRemote>>

\* The readback decides; when it fails too the effect is unknown.
Readback(c) ==
  /\ csCalls[c].at = "readback"
  /\ LET exact == csHead = Pushed(csCalls[c].target) /\ csClean
         same == csHead = csCalls[c].observed /\ csClean IN
     \/ Answers(c, IF exact THEN "applied"
                   ELSE IF csCalls[c].failed /\ same THEN "not_sent" ELSE "unknown")
     \/ Answers(c, "unknown")
  /\ UNCHANGED <<csHead, csClean, csRemote>>

\* What handoff adds to the answer of _sync_locked.
Ready(c) ==
  /\ csCalls[c].at = "done" /\ csCalls[c].kind = "handoff"
  /\ csCalls[c].effect \in {"applied", "current"}
  /\ Ancestor(csCalls[c].started, csCalls[c].read)

\* The process dies: the file lock goes with it, config.lock stays.
Dies(c) ==
  /\ Locked(c)
  /\ Go(c, [at |-> "idle"])
  /\ UNCHANGED <<csHead, csClean, csRemote, csGuard>>

-----------------------------------------------------------------------------
\* The operator removes a config.lock left behind.
GuardCleared ==
  /\ csGuard /\ \A c \in CsCalls : ~Locked(c)
  /\ csGuard' = FALSE
  /\ UNCHANGED <<csHead, csClean, csRemote, csCalls>>

\* People edit, commit and clean up in the checkout.
Edited ==
  /\ \/ csClean' = ~csClean /\ UNCHANGED csHead
     \/ ~csClean /\ csHead' = [csHead EXCEPT !.local = TRUE] /\ csClean' = TRUE
  /\ UNCHANGED <<csRemote, csGuard, csCalls>>

RemoteMoves ==
  /\ csRemote' \in 1..CsRemotes
  /\ UNCHANGED <<csHead, csClean, csGuard, csCalls>>

Forget(c) ==
  /\ csCalls[c].at = "done"
  /\ Go(c, [at |-> "idle"])
  /\ UNCHANGED <<csHead, csClean, csRemote, csGuard>>

CsNext ==
  \/ \E c \in CsCalls : \/ Begin(c) \/ Check(c) \/ Fetch(c) \/ Merge(c)
                        \/ Readback(c) \/ Dies(c) \/ Forget(c)
  \/ GuardCleared \/ Edited \/ RemoteMoves

CsSpec == CsInit /\ [][CsNext]_csVars

-----------------------------------------------------------------------------
\* No synchronization takes a commit out of the checkout's history: what somebody
\* commits between the last look and the merge stops the merge.
HistoryIsKept == Ancestor(csHead, csHead')

\* The answer is true through timeouts and changes under the call: "not_sent" means the
\* call left the checkout where it was, "applied" that the readback found the target, and
\* the commit a handoff was told it may start from stays in the checkout's history.
SyncAnswerIsTrue ==
  \A c \in CsCalls :
    csCalls[c].at = "done" =>
      /\ csCalls[c].effect \in {"not_sent", "current"} => ~csCalls[c].moved
      /\ csCalls[c].effect \in {"applied", "current"} =>
           csCalls[c].read = Pushed(csCalls[c].target)
      /\ Ready(c) => Ancestor(csCalls[c].started, csHead)

\* Two synchronizations, edits, commits and timeouts: nothing is lost from the checkout
\* and every answer is true of it.
SyncIsSound ==
  [][HistoryIsKept /\ SyncAnswerIsTrue']_csVars
=============================================================================
