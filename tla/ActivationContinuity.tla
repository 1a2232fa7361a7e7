------------------------ MODULE ActivationContinuity ------------------------
(***************************************************************************)
(* The obligation that follows an activation (activation_continuity.py,    *)
(* activation_continuity_store.py and the tools that reach it) and the     *)
(* outcome snapshots of its owner (outcome_state.py).  Both are chains of  *)
(* revisions that only grow.  A transition first collects what the server  *)
(* knows (actor, technical basis, proof), then reads the chain and adds a  *)
(* revision in one transaction; a locking read of rows that exist does not *)
(* see the row a concurrent transaction adds, the key of the table stops   *)
(* the second writer.                                                      *)
(***************************************************************************)
EXTENDS Naturals, Sequences

CONSTANTS
  AcOps,        \* operation ids, numbered
  AcClients,    \* concurrent calls
  AcRoles,      \* the actors that take part, of the ones MayMove names
  AcAdoption,   \* what contracts may ask for: NOT_REQUIRED, PENDING
  AcLength,     \* bound on the revisions of the obligation and of the outcome
  AcBases       \* bound on the changes of technical currentness

VARIABLES
  acContract,   \* adoption the installed contract starts from
  acTrue,       \* product currentness is TRUE
  acBases,      \* changes of it so far
  acChain,      \* activation_obligation_revisions, by generation
  acCalls,      \* client -> its transition between its decision and its insert
  acAnswers,    \* the intents answered APPLIED or REPLAYED since the last decision (observer)
  acRev,        \* revision of the owner's work
  acOutcomes,   \* outcome_state_revisions of the owner, by generation
  acUpdates     \* client -> its outcome update between the read of the work and its transaction

acVars == <<acContract, acTrue, acBases, acChain, acCalls, acAnswers, acRev, acOutcomes, acUpdates>>

ASSUME ContinuityConstants ==
  /\ AcRoles \subseteq {"product", "owner", "verifier", "adopter", "authority"}
  /\ AcAdoption \subseteq {"NOT_REQUIRED", "PENDING"}
  /\ AcOps \subseteq Nat
  /\ AcLength \in Nat \ {0} /\ AcBases \in Nat

AcTransitions == {"ACTIVATED", "ACKNOWLEDGED", "BLOCK", "CLEAR_BLOCKER", "ACCEPTANCE_PASS",
                  "ACCEPTANCE_FAIL", "ADOPTION_ADOPTED", "FINALIZE_DELIVERY", "DEFER", "RETIRE"}
AcTerminal == {"DELIVERED", "DEFERRED", "RETIRED"}
NoPhase == "none"

AcIdle == [at |-> "idle"]

AcInit ==
  /\ acContract \in AcAdoption
  /\ acTrue \in BOOLEAN /\ acBases = 0
  /\ acChain = <<>> /\ acAnswers = {}
  /\ acCalls = [c \in AcClients |-> AcIdle]
  /\ acRev = 1 /\ acOutcomes = <<>> /\ acUpdates = [c \in AcClients |-> AcIdle]

Unchanging == <<acContract, acRev, acOutcomes, acUpdates>>

-----------------------------------------------------------------------------
\* authorized: each transition has its actors.
MayMove(role, transition) ==
  CASE transition = "ACTIVATED" -> role = "product"
    [] transition = "ACKNOWLEDGED" -> role = "owner"
    [] transition \in {"ACCEPTANCE_PASS", "ACCEPTANCE_FAIL"} -> role \in {"owner", "verifier"}
    [] transition = "ADOPTION_ADOPTED" -> role = "adopter" /\ acContract = "PENDING"
    [] transition \in {"DEFER", "RETIRE"} -> role = "authority"
    [] OTHER -> role \in {"owner", "verifier", "product"}

\* A stored record that its own validator refuses makes the chain unreadable.
WellSealed(r) == (r.state = "BLOCKED") = (r.phase # NoPhase)
Readable == \A i \in DOMAIN acChain : WellSealed(acChain[i])

-----------------------------------------------------------------------------
(* The policy: what a transition makes of the last revision.                *)

Opened(technical) ==
  [state |-> "VERIFY_NOW", acceptance |-> "NOT_RUN", adoption |-> acContract,
   phase |-> NoPhase, technical |-> technical]

\* The fields of a revision that a transition may change.
Record(r) == [f \in {"state", "phase", "acceptance", "adoption", "technical"} |-> r[f]]

\* Conditions on the last revision r.
Applicable(r, transition) ==
  /\ r.state \notin AcTerminal
  /\ r.state = "BLOCKED" => transition \in {"CLEAR_BLOCKER", "DEFER", "RETIRE"}
  /\ CASE transition = "ACTIVATED" -> FALSE    \* no code leaves WAITING_ACTIVATION behind
       [] transition = "ACKNOWLEDGED" -> r.state = "VERIFY_NOW"
       [] transition = "CLEAR_BLOCKER" -> r.state = "BLOCKED"
       [] transition \in {"ACCEPTANCE_PASS", "ACCEPTANCE_FAIL"} ->
            r.state \in {"VERIFY_NOW", "VERIFYING", "ACCEPTED"}
       [] transition = "FINALIZE_DELIVERY" -> r.state = "ACCEPTED"
       [] OTHER -> TRUE

Advanced(r, transition) ==
  CASE transition = "ACKNOWLEDGED" -> [r EXCEPT !.state = "VERIFYING"]
    [] transition = "BLOCK" -> [r EXCEPT !.state = "BLOCKED", !.phase = r.state]
    [] transition = "CLEAR_BLOCKER" -> [r EXCEPT !.state = r.phase, !.phase = NoPhase]
    [] transition = "ACCEPTANCE_PASS" -> [r EXCEPT !.acceptance = "PASS", !.state = "ACCEPTED"]
    [] transition = "ACCEPTANCE_FAIL" -> [r EXCEPT !.acceptance = "FAIL", !.state = "VERIFYING"]
    [] transition = "ADOPTION_ADOPTED" -> [r EXCEPT !.adoption = "ADOPTED"]
    [] transition = "FINALIZE_DELIVERY" -> r
    [] transition = "DEFER" -> [r EXCEPT !.state = "DEFERRED", !.phase = NoPhase]
    [] transition = "RETIRE" -> [r EXCEPT !.state = "RETIRED", !.phase = NoPhase]

Due(r) == r.acceptance = "PASS" /\ r.adoption \in {"ADOPTED", "NOT_REQUIRED"}

\* The last step of advance_obligation, whatever the transition was.
Delivered(r, technical) ==
  IF Due(r) /\ technical THEN [r EXCEPT !.state = "DELIVERED", !.technical = TRUE] ELSE r

-----------------------------------------------------------------------------
(* The facade.                                                              *)

AcGo(c, value) == acCalls' = [acCalls EXCEPT ![c] = value]

\* The generation a caller names: the last, or the one its operation was decided on.
SeenBy(op) ==
  IF \E i \in DOMAIN acChain : acChain[i].op = op
  THEN (CHOOSE i \in DOMAIN acChain : acChain[i].op = op) - 1
  ELSE Len(acChain)

AcAnswered(c, intent) ==
  /\ acAnswers' = acAnswers \cup {intent}
  /\ AcGo(c, AcIdle)

AcRefused(c) == AcGo(c, AcIdle) /\ UNCHANGED acAnswers

\* The last revision is the caller's own operation: a replay, or a conflict.
Replayed(c, last, intent) == IF last.intent = intent THEN AcAnswered(c, intent) ELSE AcRefused(c)

\* A client repeats an operation or takes a fresh one, and all fresh ones are alike.
NextOps ==
  LET known == {acChain[i].op : i \in DOMAIN acChain}
                 \cup {acCalls[c].intent.op : c \in {d \in AcClients : acCalls[d].at = "insert"}} IN
  {op \in AcOps : \A o \in AcOps : o < op => o \in known}

\* Actor, basis and proof are resolved (a missing one ends the call), then the chain is
\* read and decided on; what that makes is inserted later.  The chain must show the
\* generation the caller named, so nothing that matters happens between the two reads.
AcDecide(c) ==
  /\ acCalls[c].at = "idle"
  /\ \E op \in NextOps, t \in AcTransitions :
       LET n == Len(acChain)
           intent == [op |-> op, transition |-> t, seen |-> SeenBy(op)]
           insert(r) == AcGo(c, [at |-> "insert", intent |-> intent, generation |-> n + 1,
                                 record |-> r]) /\ acAnswers' = {} IN
       /\ \E role \in AcRoles : MayMove(role, t)
       /\ Readable
       /\ \/ n = 0 /\ t = "ACTIVATED" /\ acTrue /\ insert(Opened(TRUE))
          \/ n > 0 /\ acChain[n].op = op /\ Replayed(c, acChain[n], intent)
          \/ /\ n > 0 /\ acChain[n].op # op
             /\ intent.seen = n /\ Applicable(acChain[n], t)
             /\ insert(Delivered(Advanced(Record(acChain[n]), t), acTrue))
  /\ UNCHANGED <<acTrue, acBases, acChain>> /\ UNCHANGED Unchanging

Revision(call) ==
  [state |-> call.record.state, phase |-> call.record.phase, acceptance |-> call.record.acceptance,
   adoption |-> call.record.adoption, technical |-> call.record.technical,
   op |-> call.intent.op, intent |-> call.intent]

\* Mutant: the revision is put at the end of whatever the chain is by now.
KeyIsFree(call) == \A i \in DOMAIN acChain : acChain[i].op # call.intent.op

\* Keys of the table: (obligation, generation) and operation.
KeysAreFree(call) ==
  /\ call.generation = Len(acChain) + 1
  /\ \A i \in DOMAIN acChain : acChain[i].op # call.intent.op

\* The commit may succeed without an answer; a failed one looks at the chain again.
AcInsert(c) ==
  /\ acCalls[c].at = "insert"
  /\ LET call == acCalls[c]
         n == Len(acChain) IN
     \/ /\ KeysAreFree(call) /\ n < AcLength
        /\ acChain' = Append(acChain, Revision(call))
        /\ AcAnswered(c, call.intent) \/ AcRefused(c)
     \/ /\ IF Readable /\ n > 0 /\ acChain[n].op = call.intent.op
           THEN Replayed(c, acChain[n], call.intent) ELSE AcRefused(c)
        /\ UNCHANGED acChain
  /\ UNCHANGED <<acTrue, acBases>> /\ UNCHANGED Unchanging

\* Qualification evidence comes and goes.
AcTechnical ==
  /\ acBases < AcBases /\ acBases' = acBases + 1 /\ acTrue' = ~acTrue
  /\ UNCHANGED <<acChain, acCalls, acAnswers>> /\ UNCHANGED Unchanging

AcNext ==
  \/ \E c \in AcClients : AcDecide(c) \/ AcInsert(c)
  \/ AcTechnical

-----------------------------------------------------------------------------
(* Outcome snapshots.  outcome_state_update reads the work first; the rest is *)
(* one transaction under the row lock of the owner's handle.  A caller can    *)
(* name only a snapshot that exists when it calls.                           *)

OcGo(c, value) == acUpdates' = [acUpdates EXCEPT ![c] = value]

OcRead(c) ==
  /\ acUpdates[c].at = "idle"
  /\ \E op \in AcOps, seen \in 0..Len(acOutcomes) :
       OcGo(c, [at |-> "record", op |-> op, seen |-> seen, token |-> acRev])
  /\ UNCHANGED <<acContract, acTrue, acBases, acChain, acCalls, acAnswers, acRev, acOutcomes>>

Snapshot(u) == [op |-> u.op, seen |-> u.seen, token |-> u.token]

OcRecord(c) ==
  /\ acUpdates[c].at = "record"
  /\ \/ /\ \A i \in DOMAIN acOutcomes : acOutcomes[i].op # acUpdates[c].op
        /\ acUpdates[c].seen = Len(acOutcomes) /\ Len(acOutcomes) < AcLength
        /\ acOutcomes' = Append(acOutcomes, Snapshot(acUpdates[c]))
     \/ UNCHANGED acOutcomes            \* replayed, stale, in conflict, or no database
  /\ OcGo(c, AcIdle)
  /\ UNCHANGED <<acContract, acTrue, acBases, acChain, acCalls, acAnswers, acRev>>

OcWorkMoves ==
  /\ acRev < AcLength /\ acRev' = acRev + 1
  /\ UNCHANGED <<acContract, acTrue, acBases, acChain, acCalls, acAnswers, acOutcomes, acUpdates>>

OcNext ==
  \/ \E c \in AcClients : OcRead(c) \/ OcRecord(c)
  \/ OcWorkMoves

AcSpec == AcInit /\ [][AcNext \/ OcNext]_acVars

-----------------------------------------------------------------------------
\* Every revision was decided on the one before it: of two transitions that read the
\* same obligation one is refused, so nothing is decided on an obligation that has been
\* delivered, deferred or retired in the meantime, and no operation counts twice.
DecidedOnTheLatest ==
  \A i \in DOMAIN acChain :
    /\ acChain[i].intent.seen = i - 1
    /\ i < Len(acChain) => acChain[i].state \notin AcTerminal
    /\ \A j \in DOMAIN acChain : acChain[i].op = acChain[j].op => i = j

\* A delivered obligation was accepted by a proof that no later failure withdrew, and
\* adopted where the contract asks for it, in whatever order the two came.
DeliveryIsProved ==
  \A i \in DOMAIN acChain :
    acChain[i].state = "DELIVERED" =>
      /\ \E j \in 1..i : /\ acChain[j].intent.transition = "ACCEPTANCE_PASS"
                         /\ \A k \in j..i : acChain[k].intent.transition # "ACCEPTANCE_FAIL"
      /\ acContract = "PENDING" =>
           \E j \in 1..i : acChain[j].intent.transition = "ADOPTION_ADOPTED"

\* Whoever was told APPLIED or REPLAYED finds exactly the transition they asked for in
\* the chain, after lost answers and races for the same operation id.
AnsweredTransitionStands ==
  \A a \in acAnswers : \E i \in DOMAIN acChain : acChain[i].intent = a

\* The snapshots of an owner follow its work: a later one never describes an earlier
\* revision of the work, though each revision was read before the transaction that
\* stores it and other callers may have stored theirs in between.
OutcomesFollowTheWork ==
  \A i, j \in DOMAIN acOutcomes : i < j => acOutcomes[i].token <= acOutcomes[j].token

\* The validator of a stored record: "only BLOCKED carries complete blocker evidence".
StoredRecordsAreCoherent == Readable

\* Transitions and outcomes recorded by racing or repeated calls: each was decided on the
\* latest state, delivery rests on its proofs, and what was answered stands.
ContinuityIsSound ==
  DecidedOnTheLatest /\ DeliveryIsProved /\ AnsweredTransitionStands /\ OutcomesFollowTheWork
=============================================================================
