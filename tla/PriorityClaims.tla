--------------------------- MODULE PriorityClaims ---------------------------
(***************************************************************************)
(* Durable priority claims (priority_claims.py), the operations people and *)
(* agents reach them by (priority_claim_service.py) and the bounded read   *)
(* that classifies a work by them (priority_context.py).                   *)
(*                                                                         *)
(* A person's call reads, then writes in one transaction that checks       *)
(* again; an agent's call journals its intent first and holds the row      *)
(* locks of its grant until it ends.  The claim id is derived from the     *)
(* kind of call and its operation id, so <<kind, operation>> is the id.    *)
(***************************************************************************)
EXTENDS Naturals, FiniteSets

CONSTANTS
  PcOps,        \* operation ids, chosen by the clients
  PcPeople,     \* concurrent calls of people
  PcSubjects,   \* "WORK", the one that has revisions, and other subjects
  PcRelations,  \* the bands "HIGH" and "NORMAL", "HOLD", "BEFORE"
  PcRevs,       \* bound on the revisions of the work
  PcCalls       \* bound on the calls

VARIABLES
  pcRev,      \* row_version of the work
  pcGranted,  \* the callers hold a current, qualified grant
  pcClaims,   \* the table: id -> claim, for the ids stored so far
  pcEffects,  \* effect_intents of the agent: operation -> request and outcome
  pcPerson,   \* the call each person has in progress
  pcAgent,    \* the agent's call, which holds the locks
  pcAnswers,  \* <<id, request>> answered "ok" (observer)
  pcRead,     \* the read in progress, or its answer
  pcCount     \* calls made

pcVars == <<pcRev, pcGranted, pcClaims, pcEffects, pcPerson, pcAgent, pcAnswers, pcRead, pcCount>>

ASSUME PriorityConstants ==
  "WORK" \in PcSubjects /\ PcRevs \in Nat /\ PcCalls \in Nat

NoClaim == <<>>

Stored == DOMAIN pcClaims

PcRequests ==
  [call : {"set"}, op : PcOps, subject : PcSubjects, rev : 0..PcRevs,
   relation : PcRelations, target : {NoClaim} \cup Stored]
    \cup [call : {"clear"}, op : PcOps, subject : PcSubjects, rev : 0..PcRevs,
          relation : {"HOLD"}, target : Stored]
    \cup [call : {"agent"}, op : PcOps, subject : {"WORK"}, rev : 1..PcRevs,
          relation : PcRelations, target : {NoClaim} \cup Stored]

\* observed_revision comes with the work and with nothing else.
WellFormed(r) == (r.subject = "WORK") = (r.rev # 0)

ClaimId(r) == <<r.call, r.op>>

PcInit ==
  /\ pcRev = 1 /\ pcGranted = TRUE
  /\ pcClaims = <<>> /\ pcEffects = <<>>
  /\ pcPerson = [p \in PcPeople |-> [at |-> "idle"]]
  /\ pcAgent = [at |-> "idle"]
  /\ pcAnswers = {} /\ pcRead = [at |-> "idle"]
  /\ pcCount = 0

-----------------------------------------------------------------------------
(* The repository.                                                         *)

KindOf(r) == IF r.call = "agent" THEN "AGENT_RECOMMENDATION" ELSE "HUMAN_PRIORITY"

\* The row a request asks for: _new, _human_set_claim, _human_clear_claim (a
\* tombstone repeats the relation of the claim it clears).  source stands for
\* the fingerprint of a person's request; rev 0 is no source revision.
NewClaim(r) ==
  [kind |-> KindOf(r), subject |-> r.subject, supersedes |-> r.target,
   relation |-> IF r.call = "clear" THEN pcClaims[r.target].relation ELSE r.relation,
   rev |-> IF r.call = "agent" THEN r.rev ELSE 0,
   source |-> r]

\* _same: the columns of the request, not the state.
Same(claim, new) == \A field \in DOMAIN new : claim[field] = new[field]

\* _require_revision, under the row lock of the work.
RevisionHolds(r) == r.subject # "WORK" \/ r.call = "agent" \/ r.rev = pcRev

\* The predecessor a record may replace.
InScope(r) ==
  \/ r.call # "clear" /\ r.target = NoClaim
  \/ /\ r.target \in Stored
     /\ pcClaims[r.target].state = "CURRENT"
     /\ pcClaims[r.target].kind = KindOf(r)
     /\ pcClaims[r.target].subject = r.subject

\* UNIQUE on the id and on supersedes_claim_id: otherwise a database error.
KeysFree(r) ==
  /\ ClaimId(r) \notin Stored
  /\ r.target = NoClaim \/ \A i \in Stored : pcClaims[i].supersedes # r.target

Insertable(r) == RevisionHolds(r) /\ InScope(r) /\ KeysFree(r)

Insert(r) ==
  LET state == IF r.call = "clear" THEN "SUPERSEDED" ELSE "CURRENT"
      row == [f \in DOMAIN NewClaim(r) \cup {"state"} |->
                IF f = "state" THEN state ELSE NewClaim(r)[f]] IN
  pcClaims' = [i \in Stored \cup {ClaimId(r)} |->
                 CASE i = ClaimId(r) -> row
                   [] i = r.target -> [pcClaims[i] EXCEPT !.state = "SUPERSEDED"]
                   [] OTHER -> pcClaims[i]]

-----------------------------------------------------------------------------
(* human_set and human_clear.  Admission and the reads before the           *)
(* transaction; what they saw may be stale by the time it runs.             *)

PersonBegins(p) ==
  /\ pcPerson[p].at = "idle" /\ pcCount < PcCalls
  /\ pcGranted
  /\ \E r \in PcRequests :
       /\ r.call # "agent" /\ WellFormed(r)
       /\ IF ClaimId(r) \in Stored
          THEN /\ Same(pcClaims[ClaimId(r)], NewClaim(r))
               /\ pcAnswers' = pcAnswers \cup {<<ClaimId(r), r>>}
               /\ UNCHANGED pcPerson
          ELSE /\ r.subject = "WORK" => r.rev = pcRev
               /\ pcPerson' = [pcPerson EXCEPT ![p] = [at |-> "write", r |-> r]]
               /\ UNCHANGED pcAnswers
  /\ pcCount' = pcCount + 1
  /\ UNCHANGED <<pcRev, pcGranted, pcClaims, pcEffects, pcAgent, pcRead>>

\* record or clear, and the answer.  clear looks for its own row first.
PersonWrites(p) ==
  /\ pcPerson[p].at = "write"
  /\ LET r == pcPerson[p].r
         replay == r.call = "clear" /\ ClaimId(r) \in Stored
         answer == pcAnswers' = pcAnswers \cup {<<ClaimId(r), r>>} IN
     \/ replay /\ Same(pcClaims[ClaimId(r)], NewClaim(r)) /\ answer /\ UNCHANGED pcClaims
     \/ ~replay /\ Insertable(r) /\ Insert(r) /\ answer
     \/ ~replay /\ Insertable(r) /\ Insert(r) /\ UNCHANGED pcAnswers \* the answer is lost
     \/ UNCHANGED <<pcClaims, pcAnswers>>                       \* refused, or no database
  /\ pcPerson' = [pcPerson EXCEPT ![p] = [at |-> "idle"]]
  /\ UNCHANGED <<pcRev, pcGranted, pcEffects, pcAgent, pcRead, pcCount>>

-----------------------------------------------------------------------------
(* record, the agent's call, over run_update_or_relation.                   *)

AgentEffects == DOMAIN pcEffects

SetEffect(op, record) ==
  pcEffects' = [o \in AgentEffects \cup {op} |-> IF o = op THEN record ELSE pcEffects[o]]

\* _reconcile: under the locks, an absent claim is an effect that did not happen.
Reconciled(r) ==
  IF ClaimId(r) \notin Stored THEN "not_sent"
  ELSE IF Same(pcClaims[ClaimId(r)], NewClaim(r)) THEN "applied" ELSE "unknown"

AgentBegins ==
  /\ pcAgent.at = "idle" /\ pcCount < PcCalls
  /\ \E r \in PcRequests :
       /\ r.call = "agent"
       /\ IF r.op \in AgentEffects
          THEN /\ pcEffects[r.op].r = r /\ pcEffects[r.op].effect = "unknown"
               /\ SetEffect(r.op, [r |-> r, effect |-> Reconciled(r)])
               /\ UNCHANGED pcAgent
          ELSE /\ pcGranted
               /\ \A o \in AgentEffects : pcEffects[o].effect # "unknown"
               /\ r.rev = pcRev
               /\ SetEffect(r.op, [r |-> r, effect |-> "unknown"])
               /\ pcAgent' = [at |-> "send", r |-> r]
  /\ pcCount' = pcCount + 1
  /\ UNCHANGED <<pcRev, pcGranted, pcClaims, pcPerson, pcAnswers, pcRead>>

\* The send is the repository's transaction; the agent's revision is stored, not
\* checked again.  A send that fails without an answer leaves the intent unknown.
AgentSends ==
  /\ pcAgent.at = "send"
  /\ LET r == pcAgent.r
         ends(outcome) == pcAgent' = [at |-> "finish", r |-> r, outcome |-> outcome] IN
     \/ pcGranted /\ Insertable(r) /\ Insert(r) /\ ends("applied")
     \/ pcGranted /\ Insertable(r) /\ Insert(r) /\ pcAgent' = [at |-> "idle"]
     \/ pcGranted /\ ~InScope(r) /\ ends("not_sent") /\ UNCHANGED pcClaims
     \/ ~pcGranted /\ ends("not_sent") /\ UNCHANGED pcClaims
     \/ pcAgent' = [at |-> "idle"] /\ UNCHANGED pcClaims
  /\ UNCHANGED <<pcRev, pcGranted, pcEffects, pcPerson, pcAnswers, pcRead, pcCount>>

AgentFinishes ==
  /\ pcAgent.at = "finish"
  /\ \/ SetEffect(pcAgent.r.op, [r |-> pcAgent.r, effect |-> pcAgent.outcome])
     \/ UNCHANGED pcEffects
  /\ pcAgent' = [at |-> "idle"]
  /\ UNCHANGED <<pcRev, pcGranted, pcClaims, pcPerson, pcAnswers, pcRead, pcCount>>

-----------------------------------------------------------------------------
(* The context of one work: its current claims, then its revision.          *)

\* A claim on the order of works outside the request is not shown.
CurrentClaims ==
  {pcClaims[i] : i \in {j \in Stored : /\ pcClaims[j].subject = "WORK"
                                      /\ pcClaims[j].state = "CURRENT"
                                      /\ pcClaims[j].relation # "BEFORE"}}

StaleAt(claims, rev) == \E c \in claims : c.rev \notin {0, rev}

ConflictingBands(claims) ==
  Cardinality({c.relation : c \in {d \in claims : /\ d.kind = "HUMAN_PRIORITY"
                                                  /\ d.relation # "HOLD"}}) > 1

\* _classification over the flags of the work's own claims.
Classification(claims, rev) ==
  CASE ConflictingBands(claims) \/ StaleAt(claims, rev) -> "CONFLICTING_OR_STALE"
    [] OTHER -> IF \E c \in claims : c.kind = "HUMAN_PRIORITY" THEN "DIRECT_CURRENT"
                ELSE IF claims # {} THEN "DERIVED_CURRENT"
                ELSE "UNKNOWN_UNRANKED"

ReadClaims ==
  /\ pcRead.at = "idle" /\ pcCount < PcCalls
  /\ pcRead' = [at |-> "revision", claims |-> CurrentClaims, rev |-> pcRev]
  /\ pcCount' = pcCount + 1
  /\ UNCHANGED <<pcRev, pcGranted, pcClaims, pcEffects, pcPerson, pcAgent, pcAnswers>>

\* Mutant: the revision read before the claims.
RevisionFirst ==
  /\ pcRead.at = "revision"
  /\ pcRead' = [at |-> "answered", knowledge |-> Classification(CurrentClaims, pcRead.rev),
                then |-> Classification(CurrentClaims, pcRev)]
  /\ UNCHANGED <<pcRev, pcGranted, pcClaims, pcEffects, pcPerson, pcAgent, pcAnswers, pcCount>>

\* then keeps what was true at the time the claims were read (observer).
ReadRevision ==
  /\ pcRead.at = "revision"
  /\ \E knowledge \in {Classification(pcRead.claims, pcRev), "UNKNOWN_UNRANKED"} :
       pcRead' = [at |-> "answered", knowledge |-> knowledge,
                  then |-> Classification(pcRead.claims, pcRead.rev)]
  /\ UNCHANGED <<pcRev, pcGranted, pcClaims, pcEffects, pcPerson, pcAgent, pcAnswers, pcCount>>

-----------------------------------------------------------------------------
WorkMoves ==
  /\ pcRev < PcRevs /\ pcRev' = pcRev + 1
  /\ UNCHANGED <<pcGranted, pcClaims, pcEffects, pcPerson, pcAgent, pcAnswers, pcRead, pcCount>>

GrantEnds ==
  /\ pcGranted /\ pcGranted' = FALSE
  /\ UNCHANGED <<pcRev, pcClaims, pcEffects, pcPerson, pcAgent, pcAnswers, pcRead, pcCount>>

PcNext ==
  \/ \E p \in PcPeople : PersonBegins(p) \/ PersonWrites(p)
  \/ AgentBegins \/ AgentSends \/ AgentFinishes
  \/ ReadClaims \/ ReadRevision
  \/ WorkMoves \/ GrantEnds

PcSpec == PcInit /\ [][PcNext]_pcVars

-----------------------------------------------------------------------------
\* However people and agents interleave, the table is a set of chains: a claim is
\* current exactly until one claim of its own kind and subject replaces it, and a
\* clear leaves nothing current.
ClaimsAreChains ==
  \A i \in Stored :
    /\ Cardinality({j \in Stored : pcClaims[j].supersedes = i}) <= 1
    /\ pcClaims[i].state = "CURRENT" <=>
         i[1] # "clear" /\ \A j \in Stored : pcClaims[j].supersedes # i
    /\ pcClaims[i].supersedes # NoClaim =>
         /\ pcClaims[i].supersedes \in Stored
         /\ pcClaims[pcClaims[i].supersedes].kind = pcClaims[i].kind
         /\ pcClaims[pcClaims[i].supersedes].subject = pcClaims[i].subject

\* Two people who were told "ok" under one operation asked for the same thing, and
\* what they asked for is what the table holds, even when the first answer was lost
\* and the request came again after others had written.
AnsweredClaimIsStored ==
  \A a \in pcAnswers : a[1] \in Stored /\ pcClaims[a[1]].source = a[2]

\* What the journal says of an agent's claim is what happened: an effect recorded as
\* applied is in the table, and one recorded as not sent never enters it later, when
\* a retry reconciled it while its first call was lost.
JournalMatchesClaims ==
  \A o \in AgentEffects :
    /\ pcEffects[o].effect = "applied" => <<"agent", o>> \in Stored
    /\ pcEffects[o].effect = "not_sent" => <<"agent", o>> \notin Stored

\* A row that calls the priority of the work current was true at one moment: the
\* claims it shows stood, at the revision they were made for, when they were read.
KnowledgeWasTrue ==
  pcRead.at = "answered" /\ pcRead.knowledge \in {"DIRECT_CURRENT", "DERIVED_CURRENT"} =>
    pcRead.then = pcRead.knowledge

\* Human and agent claims written, cleared, retried and read at once: chains do not fork,
\* answers and the journal agree with the store, and what a reader is told was true.
ClaimsAreSound ==
  ClaimsAreChains /\ AnsweredClaimIsStored /\ JournalMatchesClaims /\ KnowledgeWasTrue
=============================================================================
