------------------------------ MODULE MCRecords ------------------------------
(***************************************************************************)
(* The records kept in the database beside work and mail.  The components     *)
(* share no variable: focus picks, in the initial state, the one that runs, so *)
(* that the behaviours are those of the component specifications.              *)
(***************************************************************************)
EXTENDS WorkPolicy, RequiredResult, FailureQueue, ReviewOccurrences, ImplementationRuns, TaskRuns,
        PriorityClaims, ActivationContinuity, PullRequests

VARIABLE focus

Focuses == {"policy", "result", "queue", "launches", "reviews", "approval", "runs", "chains",
            "priority", "obligation", "outcomes", "owners", "pages"}

\* Captures, contents, operations and bands are interchangeable: one of each is the first.
FirstCapture == CHOOSE c \in FailCaptures : TRUE
FirstBody == CHOOSE b \in FailBodies : TRUE
FirstOp == CHOOSE o \in PcOps : TRUE
FirstRequest(r) == r.op = FirstOp /\ r.relation = "HIGH"

RecordsInit ==
  /\ focus \in Focuses
  /\ IF focus = "policy" THEN Init ELSE row = Finished
  /\ RrInit /\ (focus = "result" \/ rrCanonical)
  /\ FailInit
  /\ RoInit /\ (focus = "reviews" \/ (roWho = "requester" /\ roLegacy = {} /\ roBox["auditor"].gen = 0))
  /\ IrInit
  /\ TrInit /\ (focus = "runs" \/ trCurrent = CHOOSE r \in TrRuns : TRUE)
  /\ PcInit
  /\ PrInit
  /\ AcInit /\ (focus = "obligation" \/ (acTrue /\ acContract = CHOOSE a \in AcAdoption : TRUE))

Policy ==
  /\ focus = "policy" /\ Next
  /\ UNCHANGED <<rrVars, failVars, roVars, irVars, trVars, pcVars, acVars, prVars>>

Results ==
  /\ focus = "result" /\ RrNext
  /\ UNCHANGED <<row, failVars, roVars, irVars, trVars, pcVars, acVars, prVars>>

\* One launch beside captures of two attempts, and two launches beside captures of one.
Failures ==
  /\ \/ focus = "queue" /\ FailNext /\ failLaunch'["l2"] = failLaunch["l2"]
     \/ /\ focus = "launches" /\ FailNext
        /\ \A c \in FailCaptures : failCapture'[c].at # "idle" => failCapture'[c].rec.attempt = 1
  /\ IF failCapture'[FirstCapture].at = "idle"
     THEN \A c \in FailCaptures : failCapture'[c].at = "idle"
     ELSE failCapture'[FirstCapture].rec.body = FirstBody
  /\ UNCHANGED <<row, rrVars, roVars, irVars, trVars, pcVars, acVars, prVars>>

\* Without a review handed to it the coordinator has no part, and nothing depends on which
\* principal holds the requester's own mailbox.
Reviews ==
  /\ focus = "reviews" /\ RoNext
  /\ roLegacy = {} => roBox'["coordinator"] = roBox["coordinator"]
  /\ roBox'["requester"].key = 1
  /\ UNCHANGED <<row, rrVars, failVars, irVars, trVars, pcVars, acVars, prVars>>

Approvals ==
  /\ focus = "approval" /\ IrNext
  /\ UNCHANGED <<row, rrVars, failVars, roVars, trVars, pcVars, acVars, prVars>>

Runs ==
  /\ \/ focus = "runs" /\ TrRunsNext
     \/ focus = "chains" /\ TrChainsNext
  /\ UNCHANGED <<row, rrVars, failVars, roVars, irVars, pcVars, acVars, prVars>>

Priorities ==
  /\ focus = "priority" /\ PcNext
  /\ pcCount' = 1 =>
       /\ \A p \in PcPeople : pcPerson'[p].at = "write" => p = "p1" /\ FirstRequest(pcPerson'[p].r)
       /\ pcAgent'.at = "send" => FirstRequest(pcAgent'.r)
  /\ UNCHANGED <<row, rrVars, failVars, roVars, irVars, trVars, acVars, prVars>>

Continuity ==
  /\ \/ focus = "obligation" /\ AcNext
     \/ focus = "outcomes" /\ OcNext
  /\ UNCHANGED <<row, rrVars, failVars, roVars, irVars, trVars, pcVars, prVars>>

PullRequestRecords ==
  /\ \/ focus = "owners" /\ PrOwnersNext
     \/ focus = "pages" /\ PrPagesNext
  /\ UNCHANGED <<row, rrVars, failVars, roVars, irVars, trVars, pcVars, acVars>>

RecordsNext ==
  /\ Policy \/ Results \/ Failures \/ Reviews \/ Approvals \/ Runs \/ Priorities \/ Continuity
     \/ PullRequestRecords
  /\ UNCHANGED focus

RecordsSpec ==
  RecordsInit /\ [][RecordsNext]_<<focus, row, rrVars, failVars, roVars, irVars, trVars, pcVars, acVars,
                                    prVars>>
=============================================================================
