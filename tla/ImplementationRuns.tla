-------------------------- MODULE ImplementationRuns --------------------------
(***************************************************************************)
(* From a human approval to the start of a managed run, for one package.    *)
(* An approval is proposed and decided for one revision of the package      *)
(* (human_reviews.py); an implementation request is admitted under it       *)
(* (implementation_requests.py) and a run bound to the request              *)
(* (task_runs.py).  Between those transactions the package, its grant, the  *)
(* recorded human direction, holds and newer approvals change, and requests  *)
(* are repeated.                                                            *)
(***************************************************************************)
EXTENDS Naturals, FiniteSets

CONSTANTS
  IrRevs,         \* bound on revisions of the package
  IrOps,          \* operation ids of requests
  IrRuns,         \* managed runs
  IrPassBound,    \* bound on recorded review verdicts
  IrUpsets        \* bound on the obstacles present at the same time

VARIABLES
  irPackage,      \* revision, active, notes within the limit, blocked by another work
  irHold,         \* a current HUMAN_PRIORITY HOLD on the package
  irTrajectory,   \* generation of the recorded human direction
  irGrant,        \* version of the requester's grant, and whether it is current
  irReviews,      \* revision -> consequence proposed for it and its decision, or Nothing
  irPasses,       \* independent reviews that passed: revision and baseline (0: none checked)
  irRequests,     \* task_run_requests
  irBound         \* task_run_executions: <<operation, run>>

irVars == <<irPackage, irHold, irTrajectory, irGrant, irReviews, irPasses, irRequests,
            irBound>>

ASSUME ImplementationConstants == IrRevs \in Nat \ {0} /\ IrPassBound \in Nat /\ IrUpsets \in Nat

Nothing == [kind |-> "nothing"]
Revs == 1..IrRevs

\* A consequence: a legacy one, or a baseline that supersedes the one approved for
\* an earlier revision (0: none), carries a task text, is bound to a direction (0: none).
Consequence == [kind: {"legacy"}, supersedes: {0}, text: {FALSE}, direction: {0}]
               \cup [kind: {"baseline"}, supersedes: {0} \cup Revs, text: BOOLEAN, direction: {0}]
               \cup [kind: {"baseline"}, supersedes: {0} \cup Revs, text: {FALSE}, direction: {1}]

IrInit ==
  /\ irPackage = [rev |-> 1, active |-> TRUE, fits |-> TRUE, blocked |-> FALSE]
  /\ irHold = FALSE /\ irTrajectory = 1
  /\ irGrant = [version |-> 1, current |-> TRUE]
  /\ irReviews = [r \in Revs |-> Nothing]
  /\ irPasses = {} /\ irRequests = {} /\ irBound = {}

-----------------------------------------------------------------------------
\* human_reviews.py
Decided(r, d) == irReviews[r] # Nothing /\ irReviews[r].decision = d

ApprovedBaselines == {r \in Revs : Decided(r, "APPROVED") /\ irReviews[r].consequence.kind = "baseline"}

\* current_approved_baseline_in_transaction, as a set.
CurrentBaselines ==
  ApprovedBaselines \ {irReviews[r].consequence.supersedes : r \in ApprovedBaselines}

\* _baseline_supersession_reason is None.
Supersedes(c) ==
  \/ c.kind = "legacy"
  \/ c.supersedes = 0 /\ ApprovedBaselines = {}
  \/ /\ c.supersedes # 0 /\ CurrentBaselines = {c.supersedes}
     /\ irReviews[c.supersedes].consequence.text => c.text

IrPropose(c) ==
  /\ irReviews[irPackage.rev] = Nothing
  /\ Supersedes(c)
  /\ irReviews' = [irReviews EXCEPT ![irPackage.rev] = [kind |-> "review", consequence |-> c, decision |-> "PENDING"]]
  /\ UNCHANGED <<irPackage, irHold, irTrajectory, irGrant, irPasses, irRequests, irBound>>

\* submit: the decision is for the present revision, and final.
Decidable(r) == Decided(r, "PENDING") /\ r = irPackage.rev

IrDecide(r, decision) ==
  /\ Decidable(r)
  /\ decision = "APPROVED" /\ irReviews[r].consequence.text => irPackage.fits
  /\ irReviews' = [irReviews EXCEPT ![r].decision = decision]
  /\ UNCHANGED <<irPackage, irHold, irTrajectory, irGrant, irPasses, irRequests, irBound>>

-----------------------------------------------------------------------------
\* agent_notes_fit
NotesFit(fits) == fits \/ \A r \in CurrentBaselines : ~irReviews[r].consequence.text

\* Updates of the package; the grant and the direction; holds; and reviews that pass.
IrWorld ==
  \/ /\ irPackage.rev < IrRevs
     /\ \E fits \in BOOLEAN, active \in BOOLEAN, blocked \in BOOLEAN :
          /\ NotesFit(fits)
          /\ irPackage' = [rev |-> irPackage.rev + 1, active |-> active, fits |-> fits, blocked |-> blocked]
     /\ UNCHANGED <<irHold, irTrajectory, irGrant, irPasses>>
  \/ /\ irHold' = ~irHold
     /\ UNCHANGED <<irPackage, irTrajectory, irGrant, irPasses>>
  \/ /\ irTrajectory = 1 /\ irTrajectory' = 2
     /\ UNCHANGED <<irPackage, irHold, irGrant, irPasses>>
  \/ /\ irGrant' \in {[version |-> 2, current |-> TRUE], [irGrant EXCEPT !.current = FALSE]}
     /\ irGrant' # irGrant
     /\ UNCHANGED <<irPackage, irHold, irTrajectory, irPasses>>
  \/ /\ \E b \in {0} \cup ApprovedBaselines : irPasses' = irPasses \cup {[rev |-> irPackage.rev, baseline |-> b]}
     /\ Cardinality(irPasses') <= IrPassBound
     /\ UNCHANGED <<irPackage, irHold, irTrajectory, irGrant>>

\* What stands in the way of a start.
Obstacles ==
  {o \in {"hold", "inactive", "blocked", "direction", "grant"} :
     CASE o = "hold" -> irHold
       [] o = "inactive" -> ~irPackage.active
       [] o = "blocked" -> irPackage.blocked
       [] o = "direction" -> irTrajectory # 1
       [] OTHER -> irGrant # [version |-> 1, current |-> TRUE]}

IrChange ==
  /\ IrWorld
  /\ Cardinality(Obstacles') <= IrUpsets
  /\ UNCHANGED <<irReviews, irRequests, irBound>>

-----------------------------------------------------------------------------
\* The review that authorizes implementing the present revision: the approved
\* baseline whose preservation was reviewed, or an approved legacy consequence
\* with an independent pass.  More than one baseline review proves nothing.
BaselineProofs == {p \in irPasses : p.rev = irPackage.rev /\ p.baseline # 0}

DirectionHolds(r) == irReviews[r].consequence.direction \in {0, irTrajectory}

Authorizations ==
  CASE Cardinality(BaselineProofs) = 1 ->
         {[by |-> p.baseline, rev |-> p.rev] :
            p \in {x \in BaselineProofs : CurrentBaselines = {x.baseline} /\ DirectionHolds(x.baseline)}}
    [] BaselineProofs = {} ->
         {[by |-> r, rev |-> r] :
            r \in {x \in {irPackage.rev} : /\ Decided(x, "APPROVED") /\ irReviews[x].consequence.kind = "legacy"
                                           /\ [rev |-> x, baseline |-> 0] \in irPasses}}
    [] OTHER -> {}

\* The grant sends, and the package is open at the revision the caller observed.
Sendable(rev) == irGrant.current /\ irPackage.rev = rev /\ irPackage.active

RequestOf(op) == {q \in irRequests : q.op = op}

\* get_implementation_in_transaction: the request an authorization already led to.
StableRequest(auth) == {q \in irRequests : q.auth = auth}

\* ImplementationRequestState.request for a new operation.  A replayed operation
\* and a replayed authorization store nothing.
IrRequest(op) ==
  /\ RequestOf(op) = {} /\ Sendable(irPackage.rev)
  /\ \E auth \in Authorizations :
       /\ StableRequest(auth) = {}
       /\ irRequests' = irRequests \cup
            {[op |-> op, rev |-> irPackage.rev, auth |-> auth, grant |-> irGrant.version]}
  /\ UNCHANGED <<irPackage, irHold, irTrajectory, irGrant, irReviews, irPasses, irBound>>

\* The eligibility of a stored request: request() asked again in the transaction
\* that binds the run.  The mutant trusts the admission.
EligibleOnceAdmitted(q) == TRUE

StillEligible(q) ==
  /\ Sendable(q.rev) /\ ~irHold /\ ~irPackage.blocked
  /\ q.auth \in Authorizations /\ q.grant = irGrant.version

\* bind_start
Bindable(q, run) ==
  /\ \A b \in irBound : b[1] = q.op => b[2] = run
  /\ StillEligible(q)
  /\ \A b \in irBound : b[2] = run => b[1] = q.op

IrBind(q, run) ==
  /\ Bindable(q, run)
  /\ irBound' = irBound \cup {<<q.op, run>>}
  /\ irBound' # irBound
  /\ UNCHANGED <<irPackage, irHold, irTrajectory, irGrant, irReviews, irPasses, irRequests>>

IrNext ==
  \/ IrChange
  \/ \E c \in Consequence : IrPropose(c)
  \/ \E r \in Revs, d \in {"APPROVED", "HOLD"} : IrDecide(r, d)
  \/ \E op \in IrOps : IrRequest(op)
  \/ \E q \in irRequests, run \in IrRuns : IrBind(q, run)

IrSpec == IrInit /\ [][IrNext]_irVars

-----------------------------------------------------------------------------
(* A package never has two current approved baselines, which every reader         *)
(* refuses to choose between: the supersession is checked when a proposal is       *)
(* made, not when it is approved, and still two proposals cannot both be approved.  *)
OneCurrentBaseline == Cardinality(CurrentBaselines) <= 1

(* While the approved baseline carries a task text, the notes of the package stay     *)
(* within their limit: the approval and every later update check it separately.       *)
ApprovedTextBoundsNotes ==
  \A r \in CurrentBaselines : irReviews[r].consequence.text => irPackage.fits

(* One authorization leads to one implementation request, whatever operations          *)
(* repeat it and however the grant changes in between.                                  *)
OneRequestPerAuthorization ==
  \A p, q \in irRequests : p.auth = q.auth => p = q

(* A run starts implementing only under an approval that is still the current one at     *)
(* that moment: a package that moved on, was held, was blocked, lost its grant or got a    *)
(* newer baseline or direction after the request was admitted is not started on.          *)
RunsStartUnderCurrentApproval ==
  \A b \in irBound' \ irBound : \A q \in irRequests :
    q.op = b[1] =>
      /\ irPackage.rev = q.rev /\ irPackage.active /\ ~irHold /\ ~irPackage.blocked
      /\ irGrant = [version |-> q.grant, current |-> TRUE]
      /\ Decided(q.auth.by, "APPROVED")
      /\ irReviews[q.auth.by].consequence.kind = "baseline" =>
           CurrentBaselines = {q.auth.by} /\ DirectionHolds(q.auth.by)

\* From the human's decision to the start of a run, with the package changing in between:
\* one baseline, one request per authorization, and no start on a stale approval.
ApprovalIsSound ==
  [][/\ OneCurrentBaseline' /\ ApprovedTextBoundsNotes' /\ OneRequestPerAuthorization'
     /\ RunsStartUnderCurrentApproval]_irVars
=============================================================================
