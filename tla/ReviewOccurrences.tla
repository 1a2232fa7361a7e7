-------------------------- MODULE ReviewOccurrences --------------------------
(***************************************************************************)
(* Independent reviews of one work (reviews.py).  A review occurrence is a  *)
(* set of typed messages: the basis the requester recorded, the request     *)
(* delivered to a reviewer, and the reviewer's outcome.  Nothing else says  *)
(* which review is authoritative, so every reader counts the messages it    *)
(* finds.  request and submit read before they open their transaction;     *)
(* takeovers, new revisions and policy changes happen in between.           *)
(***************************************************************************)
EXTENDS Naturals, FiniteSets

CONSTANTS
  RoRevs,         \* bound on revisions of the subject
  RoChanges,      \* bound on revisions, policy versions and generations together
  RoReviews,      \* bound on recorded bases
  RoChecks,       \* baseline checks a request may carry: none, or its owner's word
  RoFindings      \* finding identities

VARIABLES
  roWho,          \* the requester's mailbox: its own, or the audit mailbox itself
  roRev,          \* revision of the subject work
  roPolicy,       \* version of review policy and guidelines
  roApproved,     \* whether the baseline reviews check against is approved
  roBox,          \* mailbox -> generation (0: not registered) and principal
  roBases,        \* stored REVIEWER_ACQUISITION messages: the bases of reviews
  roLegacy,       \* an acquisition an earlier release left with the coordinator, or {}
  roRequests,     \* stored REVIEW_REQUEST messages with their deliveries
  roOutcomes,     \* stored REVIEW_OUTCOME messages
  roNotices,      \* outcomes forwarded to the requester of a coordinator's request
  roAsking,       \* the requester's call between its reads and its transaction
  roJudging       \* the reviewer's call between its reads and its transactions

roVars == <<roWho, roRev, roPolicy, roApproved, roBox, roBases, roLegacy, roRequests,
            roOutcomes, roNotices, roAsking, roJudging>>

ASSUME ReviewConstants == RoRevs \in Nat /\ RoChanges \in Nat /\ RoReviews \in Nat
                          /\ RoChecks \subseteq {"none", "preserved", "deviation"}

Boxes == {"requester", "auditor", "coordinator"}
Idle == [pc |-> "idle"]

\* The review an earlier release may have handed to the coordinator.
LegacyBasis ==
  [id |-> <<1, "none">>, rev |-> 1, mode |-> "FULL", upgrades |-> FALSE, findings |-> {},
   gen |-> 1, policy |-> 1, check |-> "none"]

RoInit ==
  /\ roWho \in {"requester", "auditor"}
  /\ roRev = 1 /\ roPolicy = 1 /\ roApproved = FALSE
  /\ roLegacy \in SUBSET {[basis |-> LegacyBasis, state |-> "AVAILABLE", rgen |-> 0]}
  /\ roBox \in [Boxes -> [gen: {0, 1}, key: {1}]] /\ roBox[roWho].gen = 1
  /\ roBox["requester"].gen = 1 /\ (roBox["coordinator"].gen = 1) = (roLegacy # {})
  /\ roBases = {} /\ roRequests = {} /\ roOutcomes = {} /\ roNotices = {}
  /\ roAsking = Idle /\ roJudging = Idle

\* What a stored message is found by: sender, derived message id, recipient.
RequestKey(q) == <<q.sender, q.basis.upgrades, q.basis.id, q.basis.rev, q.to>>

\* stored_request_sources, and outcome_sources of one request.
StoredFor(b) == {q \in roRequests : q.basis = b}
OutcomesOf(q) == {o \in roOutcomes : o.of = RequestKey(q)}

\* request_sources: requests the reviewer named in them still holds.
Valid(q) ==
  /\ q.basis.policy = roPolicy
  /\ roBox[q.to].gen > 0 /\ q.ver = roBox[q.to].gen /\ q.key = roBox[q.to].key

Eligible(box) == box # roWho

-----------------------------------------------------------------------------
\* The subject changes, the policy changes, a human approves the baseline,
\* mailboxes are registered and taken over.
RoWorld ==
  \/ /\ roRev < RoRevs /\ roRev' = roRev + 1
     /\ UNCHANGED <<roPolicy, roApproved, roBox>>
  \/ /\ roPolicy = 1 /\ roPolicy' = 2
     /\ UNCHANGED <<roRev, roApproved, roBox>>
  \/ /\ ~roApproved /\ roApproved' = TRUE
     /\ UNCHANGED <<roRev, roPolicy, roBox>>
  \/ /\ \E b \in Boxes, k \in {1, 2} :
          roBox' = [roBox EXCEPT ![b] = [gen |-> @.gen + 1, key |-> k]]
     /\ UNCHANGED <<roRev, roPolicy, roApproved>>

RoChange ==
  /\ roRev + roPolicy + roBox["requester"].gen + roBox["auditor"].gen + roBox["coordinator"].gen
       < RoChanges
  /\ RoWorld
  /\ UNCHANGED <<roWho, roBases, roLegacy, roRequests, roOutcomes, roNotices, roAsking, roJudging>>

-----------------------------------------------------------------------------
\* _basis: without a prior review the identity follows from what is reviewed;
\* the requester's generation and the policy are not part of it.
BasisOf(mode, prior, check, findings) ==
  [id |-> IF prior = <<>> THEN <<roRev, check>> ELSE prior, rev |-> roRev, mode |-> mode,
   upgrades |-> mode = "FULL" /\ prior # <<>>, findings |-> findings,
   gen |-> roBox[roWho].gen, policy |-> roPolicy, check |-> check]

\* A focused review continues a review whose outcome named the findings.
FocusedFrom(b) ==
  \E q \in roRequests : \E o \in OutcomesOf(q) :
    /\ Valid(q)
    /\ q.basis.id = b.id /\ q.basis.policy = b.policy /\ q.basis.rev # b.rev
    /\ b.findings \subseteq o.findings

\* A full review under a prior identity upgrades a focused one of this revision.
UpgradesFocused(b) ==
  \E q \in roRequests :
    /\ Valid(q)
    /\ q.basis = [b EXCEPT !.mode = "FOCUSED", !.upgrades = FALSE, !.findings = q.basis.findings]

AdmitBasis(b, prior) ==
  /\ b.mode = "FOCUSED" => FocusedFrom(b)
  /\ b.mode = "FULL" /\ prior # <<>> => UpgradesFocused(b)

\* ReviewService.request up to its transaction.
RoAsk(mode, prior, check, findings) ==
  LET b == BasisOf(mode, prior, check, findings) IN
  /\ roAsking = Idle /\ Cardinality(roBases) < RoReviews
  /\ mode = "FOCUSED" => prior # <<>> /\ findings # {}
  /\ mode = "FULL" => findings = {}
  /\ AdmitBasis(b, prior)
  /\ roAsking' = [pc |-> "basis", basis |-> b]
  /\ UNCHANGED <<roWho, roRev, roPolicy, roApproved, roBox, roBases, roLegacy, roRequests,
                 roOutcomes, roNotices, roJudging>>

NewRequest(b, sender, to) ==
  [sender |-> sender, to |-> to, basis |-> b, key |-> roBox[to].key, ver |-> roBox[to].gen,
   rgen |-> 0, state |-> "AVAILABLE"]

\* The one basis of occurrence id for the present revision, as a set.
CurrentBases(id, bases) == {b \in bases : b.id = id /\ b.rev = roRev}

\* _advance_in_transaction: the request a current, unsent basis is answered with.
Advance(id, bases, sender, to) ==
  {NewRequest(b, sender, to) : b \in {x \in CurrentBases(id, bases) :
     /\ Cardinality(CurrentBases(id, bases)) = 1
     /\ x.policy = roPolicy
     /\ StoredFor(x) = {}
     /\ roBox[to].gen > 0 /\ Eligible(to)}}

\* The audit mailbox cannot review its own request: the transaction is undone.
Ineligible(b) ==
  /\ b.rev = roRev /\ b.policy = roPolicy /\ StoredFor(b) = {}
  /\ roBox["auditor"].gen > 0 /\ ~Eligible("auditor")

\* The baseline is approved, no other basis stands for this revision of the
\* occurrence, and the session that asked still owns the mailbox.
CommitBasis(b) ==
  /\ b.check = "none" \/ roApproved
  /\ \A x \in roBases : x.id = b.id /\ x.rev = b.rev => x = b
  /\ roBox[roWho].gen = b.gen

\* The transaction of request: record the basis, then advance it.
RoRecordBasis ==
  LET b == roAsking.basis IN
  /\ roAsking.pc = "basis"
  /\ \/ /\ CommitBasis(b) /\ ~Ineligible(b)
        /\ roBases' = roBases \cup {b}
        /\ roRequests' = roRequests \cup Advance(b.id, roBases', roWho, "auditor")
     \/ /\ ~CommitBasis(b) \/ Ineligible(b)
        /\ UNCHANGED <<roBases, roRequests>>
  /\ roAsking' = Idle
  /\ UNCHANGED <<roWho, roRev, roPolicy, roApproved, roBox, roLegacy, roOutcomes, roNotices, roJudging>>

\* get: the requester polls, which sends a request that was waiting.
RoGet(id) ==
  /\ roRequests' = roRequests \cup Advance(id, roBases, roWho, "auditor")
  /\ roRequests' # roRequests
  /\ UNCHANGED <<roWho, roRev, roPolicy, roApproved, roBox, roBases, roLegacy, roOutcomes,
                 roNotices, roAsking, roJudging>>

\* continue_acquisition: the coordinator binds itself to a review that an
\* earlier release handed to it.
RoContinue(id) ==
  /\ \E l \in roLegacy :
       /\ l.state = "RECEIVED" /\ l.rgen = roBox["coordinator"].gen
       /\ l.basis \in CurrentBases(id, roBases) /\ l.basis.gen = roBox[roWho].gen
       /\ roRequests' = roRequests \cup Advance(id, roBases, "coordinator", "coordinator")
  /\ roRequests' # roRequests
  /\ UNCHANGED <<roWho, roRev, roPolicy, roApproved, roBox, roBases, roLegacy, roOutcomes,
                 roNotices, roAsking, roJudging>>

-----------------------------------------------------------------------------
Restamped(q, state) == [q EXCEPT !.state = state, !.ver = roBox[q.to].gen, !.rgen = roBox[q.to].gen]

Moved(q, r) == roRequests' = (roRequests \ {q}) \cup {r}

\* The reviewer receives its request; its mail tools may also close it.
RoReceive(q) ==
  /\ \/ q.state = "AVAILABLE" /\ Moved(q, Restamped(q, "RECEIVED"))
     \/ q.state \in {"AVAILABLE", "RECEIVED"} /\ Moved(q, [q EXCEPT !.state = "ACKNOWLEDGED"])
  /\ UNCHANGED <<roWho, roRev, roPolicy, roApproved, roBox, roBases, roLegacy, roOutcomes,
                 roNotices, roAsking, roJudging>>

RoReceiveLegacy ==
  /\ roBox["coordinator"].gen > 0
  /\ \E l \in roLegacy :
       /\ l.state = "AVAILABLE"
       /\ roLegacy' = {[l EXCEPT !.state = "RECEIVED", !.rgen = roBox["coordinator"].gen]}
  /\ UNCHANGED <<roWho, roRev, roPolicy, roApproved, roBox, roBases, roRequests, roOutcomes,
                 roNotices, roAsking, roJudging>>

\* recover: a later session of the same principal takes a received request over.
RoRecover(q) ==
  /\ CurrentBases(q.basis.id, roBases) = {q.basis}
  /\ StoredFor(q.basis) = {q} /\ OutcomesOf(q) = {}
  /\ q.key = roBox[q.to].key /\ q.state = "RECEIVED" /\ q.basis.policy = roPolicy
  /\ q.rgen = q.ver /\ q.rgen < roBox[q.to].gen
  /\ Moved(q, Restamped(q, "RECEIVED"))
  /\ UNCHANGED <<roWho, roRev, roPolicy, roApproved, roBox, roBases, roLegacy, roOutcomes,
                 roNotices, roAsking, roJudging>>

\* _assessment_matches: a PASS needs an owner who says the baseline is preserved.
AssessmentMatches(check, verdict) == verdict = "PASS" => check # "deviation"

\* submit up to its transaction: the request of this revision that the session
\* received or, for findings only, one of an earlier revision.
RoJudge(q, verdict, findings) ==
  /\ roJudging = Idle
  /\ Valid(q) /\ q.state = "RECEIVED" /\ q.rgen = roBox[q.to].gen
  /\ \/ q.basis.rev = roRev
     \/ /\ verdict = "FINDINGS"
        /\ \A r \in roRequests : Valid(r) /\ r.basis.id = q.basis.id /\ r.to = q.to => r.basis.rev # roRev
  /\ (verdict = "FINDINGS") = (findings # {})
  /\ q.basis.mode = "FOCUSED" => findings \subseteq q.basis.findings
  /\ AssessmentMatches(q.basis.check, verdict)
  /\ Eligible(q.to)
  /\ roJudging' = [pc |-> "store", request |-> q, stale |-> q.basis.rev # roRev,
                   outcome |-> [of |-> RequestKey(q), verdict |-> verdict, findings |-> findings]]
  /\ UNCHANGED <<roWho, roRev, roPolicy, roApproved, roBox, roBases, roLegacy, roRequests,
                 roOutcomes, roNotices, roAsking>>

StoreUnfenced(q, o) == {p \in roOutcomes : p.of = o.of} \subseteq {o}

\* submit_review_internal: the session and its hold on the delivery are checked
\* again, and the delivery has no other answer.
StoreOutcome(q, o) ==
  /\ roBox[q.to].gen = q.rgen
  /\ \E r \in roRequests : RequestKey(r) = o.of /\ r.state = "RECEIVED" /\ r.ver = q.rgen /\ r.rgen = q.rgen
  /\ {p \in roOutcomes : p.of = o.of} \subseteq {o}

RoSubmit ==
  LET call == roJudging IN
  /\ call.pc = "store"
  /\ \/ /\ StoreOutcome(call.request, call.outcome)
        /\ roOutcomes' = roOutcomes \cup {call.outcome}
        /\ roJudging' = IF call.request.sender = "coordinator" /\ ~call.stale
                        THEN [call EXCEPT !.pc = "notify"] ELSE Idle
     \/ /\ ~StoreOutcome(call.request, call.outcome)
        /\ roJudging' = Idle /\ UNCHANGED roOutcomes
  /\ UNCHANGED <<roWho, roRev, roPolicy, roApproved, roBox, roBases, roLegacy, roRequests, roNotices, roAsking>>

\* The notice of a coordinator's request is named after the occurrence alone.
RoNotify ==
  LET call == roJudging IN
  /\ call.pc = "notify"
  /\ roNotices' = IF /\ roBox[call.request.to].gen = call.request.rgen
                     /\ \A n \in roNotices : n.id # call.request.basis.id
                  THEN roNotices \cup {[id |-> call.request.basis.id, outcome |-> call.outcome]}
                  ELSE roNotices
  /\ roJudging' = Idle
  /\ UNCHANGED <<roWho, roRev, roPolicy, roApproved, roBox, roBases, roLegacy, roRequests, roOutcomes, roAsking>>

RoNext ==
  \/ RoChange
  \/ \E mode \in {"FULL", "FOCUSED"}, prior \in {<<>>} \cup {b.id : b \in roBases},
        check \in RoChecks, findings \in SUBSET RoFindings : RoAsk(mode, prior, check, findings)
  \/ RoRecordBasis
  \/ \E b \in roBases : RoGet(b.id) \/ RoContinue(b.id)
  \/ \E q \in roRequests : RoReceive(q) \/ RoRecover(q)
  \/ RoReceiveLegacy
  \/ \E q \in roRequests, verdict \in {"PASS", "FINDINGS", "BLOCKED"}, findings \in SUBSET RoFindings :
        RoJudge(q, verdict, findings)
  \/ RoSubmit \/ RoNotify

RoSpec == RoInit /\ [][RoNext]_roVars

-----------------------------------------------------------------------------
\* The stored requests a baseline proof may rest on: unlike the other readers it does not
\* ask for the reviewer's present session.
ProofRequests(b) == StoredFor(b)

\* baseline_pass_status_in_transaction: the verdict that proves the present
\* revision preserves the approved baseline, as a set of requests.
BaselineProof(rev) ==
  LET checked == {b \in roBases : b.rev = rev /\ b.check # "none"}
      bases == checked \cup {q.basis : q \in {x \in roRequests : x.basis.rev = rev /\ x.basis.check # "none"}}
  IN  {q \in UNION {ProofRequests(b) : b \in checked} :
         /\ rev = roRev
         /\ Cardinality({b.id : b \in bases}) = 1
         /\ Cardinality(checked) = 1
         /\ Cardinality(ProofRequests(q.basis)) = 1
         /\ \E o \in OutcomesOf(q) : OutcomesOf(q) = {o} /\ o.verdict = "PASS"}

(* No reader can meet duplicate authoritative state: one revision of an         *)
(* occurrence has one basis, and one basis has one request, whichever calls of    *)
(* the requester and the coordinator race and whoever takes a mailbox over.       *)
ReviewIsUnambiguous ==
  \A b \in roBases :
    /\ Cardinality({x \in roBases : x.id = b.id /\ x.rev = b.rev}) = 1
    /\ Cardinality(StoredFor(b)) <= 1

(* A focused review rests on findings: an outcome of the same occurrence on an    *)
(* earlier revision named every finding it is limited to, so a PASS of a narrow    *)
(* review never stands for a revision that was not reviewed in full before.        *)
FocusedFollowsFindings ==
  \A b \in roBases : b.mode = "FOCUSED" =>
    \E q \in roRequests : \E o \in OutcomesOf(q) :
      q.basis.id = b.id /\ q.basis.rev < b.rev /\ b.findings \subseteq o.findings

(* A verdict is recorded by the session that holds the request at that moment,      *)
(* never by one that was replaced after it read the request, and never by the        *)
(* requester itself; once recorded it is not changed.                                *)
VerdictComesFromTheHolder ==
  /\ roOutcomes \subseteq roOutcomes'
  /\ \A o \in roOutcomes' \ roOutcomes :
       /\ \A p \in roOutcomes : p.of # o.of
       /\ \E q \in roRequests :
            RequestKey(q) = o.of /\ q.rgen = roBox[q.to].gen /\ q.to # roWho

(* A proof that the revision preserves the approved baseline is not taken back by    *)
(* a takeover of the reviewer, a policy change or a later call; only a new revision   *)
(* or a second baseline review of the same revision ends it.                          *)
BaselineProofIsKept ==
  \A q \in BaselineProof(roRev) :
    \/ roRev' # roRev
    \/ \E b \in roBases' \ roBases : b.rev = roRev /\ b.check # "none"
    \/ RequestKey(q) \in {RequestKey(r) : r \in BaselineProof(roRev)'}

\* Requests, submissions, recoveries and takeovers that interleave leave one basis and one
\* verdict per review, given by the session that held it, and keep the baseline's proof.
ReviewsAreSound ==
  [][/\ ReviewIsUnambiguous' /\ FocusedFollowsFindings'
     /\ VerdictComesFromTheHolder /\ BaselineProofIsKept]_roVars
=============================================================================
