----------------------------- MODULE CanonicalWork -----------------------------
(***************************************************************************)
(* The canonical work tracker: tables canonical_work, work_parents,          *)
(* work_dependencies and project_memberships with the effect journal          *)
(* effect_intents, changed only by the protected operations of                *)
(* tracker/runtime.py and tracker/appends.py.                                 *)
(*                                                                         *)
(* A tool call first reads the version of the caller's grant, then runs one   *)
(* transaction.  protected_update, protected_relation and the canonical       *)
(* append lock the work row before they look the operation up in the journal, *)
(* so each is one action.  protected_create and                              *)
(* protected_feedback_classification look first and lock later: the lookup    *)
(* and the rest of the transaction are two actions.  A managed principal's    *)
(* grant row stays locked through the whole transaction; the ordinary         *)
(* workspace admission (principals outside Managed) locks nothing.            *)
(***************************************************************************)
EXTENDS Naturals, FiniteSets

CONSTANTS
  Works,        \* WorkIds
  Imported,     \* works the database starts with
  Feedback,     \* the ones of a feedback category
  Occurrences,  \* WorkIds of review occurrences
  Projects,     \* admitted projects
  Principals,
  Managed,      \* principals whose grant is a row of work_grants
  Authorities,  \* what the trusted issuer may grant: [writes, reads]
  Ops,          \* OperationIds
  WorkOf,       \* CreateGateway.work_id: the WorkId an OperationId creates
  Calls,        \* tool calls that may be in flight together
  Kinds,        \* the operations clients use
  MaxVersion,   \* bound on row_version
  MaxGrant,     \* bound on grant versions
  None          \* NULL

AllKinds == {"edit", "finish", "reopen", "retype", "append", "parent", "link", "unlink",
             "pull_request", "create", "NEW", "AMEND", "DUPLICATE", "SUB-ITEM", "RELATED"}
Updates == {"edit", "finish", "reopen", "retype"}            \* protected_update
Relations == {"parent", "link", "unlink", "pull_request"}    \* protected_relation
Classes == {"NEW", "AMEND", "DUPLICATE", "SUB-ITEM", "RELATED"} \* feedback classification

Version == 1..MaxVersion
Type == {"task", "feedback", "review"}

Row == [ver: Version, completed: BOOLEAN, type: Type,
        parent: Works \cup {None}, links: SUBSET (Works \cup Projects)]

(* What the client asks for: observed and seen are the revisions of the work  *)
(* and of the target it has read, 0 when it names none.                       *)
Intent == [op: Ops, kind: Kinds, work: Works, observed: 0..MaxVersion,
           target: Works \cup Projects \cup {None}, seen: 0..MaxVersion, confirm: BOOLEAN]

(* A row of effect_intents.  result is the resulting revision of its receipt. *)
Entry == [principal: Principals, intent: Intent, gver: 1..MaxGrant,
          effect: {"applied", "unknown"}, result: 0..MaxVersion]

Grant == [ver: 1..MaxGrant, valid: BOOLEAN, writes: SUBSET Works, reads: SUBSET Works]

CallState == [principal: Principals, intent: Intent, gver: 1..MaxGrant,
              grant: Grant \cup {None}]   \* the grant locked by the lookup, or None

Review == [occurrence: Occurrences, subject: Works, ver: Version]

ASSUME WorkConstants ==
  /\ Imported \subseteq Works
  /\ Feedback \subseteq Imported
  /\ Occurrences \subseteq Works \ Imported
  /\ Managed \subseteq Principals
  /\ Authorities \subseteq [writes: SUBSET Works, reads: SUBSET Works]
  /\ Kinds \subseteq AllKinds
  /\ WorkOf \in [Ops -> Works \ (Imported \cup Occurrences)]
  /\ \A o1, o2 \in Ops : WorkOf[o1] = WorkOf[o2] => o1 = o2
  /\ MaxVersion \in Nat \ {0}
  /\ MaxGrant \in Nat \ {0}
  /\ None \notin Row \cup Entry \cup Grant \cup CallState \cup Works \cup Projects

VARIABLES
  work,      \* WorkId -> row, or None
  journal,   \* OperationId -> row of effect_intents, or None
  grant,     \* principal -> its current grant
  asked,     \* reviews requested at an exact revision of their subject
  answered,  \* the ones with a recorded outcome
  call,      \* call -> the request in flight, or None
  answer     \* what the most recent call returned

vars == <<work, journal, grant, asked, answered, call, answer>>

Exists(w) == work[w] # None
Recorded(o) == journal[o] # None
Applied == {o \in Ops : Recorded(o) /\ journal[o].effect = "applied"}

(* pending_review_id: a REVIEW child whose basis is this revision of the work *)
(* and that has no outcome.                                                   *)
Pending(w) ==
  {r \in asked \ answered :
     /\ r.subject = w /\ Exists(w) /\ r.ver = work[w].ver
     /\ Exists(r.occurrence)
     /\ work[r.occurrence].type = "review" /\ work[r.occurrence].parent = w}

(* An effect on w that may or may not have been applied. *)
Unresolved(w) ==
  {o \in Ops : Recorded(o) /\ journal[o].effect = "unknown" /\ journal[o].intent.work = w}

(* The recursive query of set_parent: w and everything above it. *)
Ancestors(w) ==
  {a \in Works : \A S \in SUBSET Works :
     (w \in S /\ \A x \in S : Exists(x) /\ work[x].parent # None => work[x].parent \in S)
       => a \in S}

(* Mutant: the grant row is read without a lock. *)
GrantUnlocked(p) == FALSE

(* GrantState.locked holds the principal's grant row until the call ends. *)
GrantLocked(p) ==
  p \in Managed /\ \E c \in Calls : /\ call[c] # None
                                    /\ call[c].principal = p
                                    /\ call[c].grant # None

InFlight(c, kinds, looked) ==
  /\ call[c] # None
  /\ call[c].intent.kind \in kinds
  /\ (call[c].grant # None) = looked

(* The client asked for exactly what its own entry in the journal records. *)
Repeats(c, entry) ==
  /\ entry.principal = call[c].principal
  /\ [entry.intent EXCEPT !.confirm = call[c].intent.confirm] = call[c].intent

(* The call returns the effect it reports for the operation it was asked for. *)
Finish(c, effect) ==
  /\ call' = [call EXCEPT ![c] = None]
  /\ answer' = [op |-> call[c].intent.op, effect |-> effect]

(* The fingerprint covers the principal, the request and the grant version    *)
(* the server put into it, but not the confirmation.                          *)
SameRequest(c, entry) == Repeats(c, entry) /\ entry.gver = call[c].gver

EntryOf(c, result) ==
  [principal |-> call[c].principal, intent |-> call[c].intent, gver |-> call[c].gver,
   effect |-> "applied", result |-> result]

Journaled(c, result) == journal' = [journal EXCEPT ![call[c].intent.op] = EntryOf(c, result)]

-----------------------------------------------------------------------------
(* The tool reads the caller's grant version and builds the protected         *)
(* request.  The client has read the revisions it names, or repeats a request  *)
(* it does not know the outcome of.                                           *)
KnownRevisions(o, w) ==
  {v \in Version : \/ Exists(w) /\ v = work[w].ver
                   \/ Recorded(o) /\ journal[o].intent.work = w /\ v = journal[o].intent.observed
                   \/ Recorded(o) /\ journal[o].intent.target = w /\ v = journal[o].intent.seen}

IntentOf(o, kind, w, v, t, seen, confirm) ==
  [op |-> o, kind |-> kind, work |-> w, observed |-> v, target |-> t, seen |-> seen,
   confirm |-> confirm]

(* With no review to cancel, confirming changes nothing. *)
Confirmations == IF Occurrences = {} THEN {FALSE} ELSE BOOLEAN

(* What an operation on an existing work may name as its target. *)
TargetsOf(kind) ==
  CASE kind = "parent" -> Works \cup {None}
    [] kind \in {"link", "unlink"} -> Works \cup Projects
    [] OTHER -> {None}

Call(c, p, i) ==
  /\ call[c] = None
  /\ call' = [call EXCEPT ![c] = [principal |-> p, intent |-> i,
                                  gver |-> grant[p].ver, grant |-> None]]
  /\ answer' = None
  /\ UNCHANGED <<work, journal, grant, asked, answered>>

CallOnWork(c, p, o) ==
  \E kind \in Kinds \cap (Updates \cup Relations \cup {"append"}), w \in Works,
     confirm \in Confirmations :
    \E v \in KnownRevisions(o, w), t \in TargetsOf(kind) :
      Call(c, p, IntentOf(o, kind, w, v, t, 0, confirm))

CallCreate(c, p, o) ==
  /\ "create" \in Kinds
  /\ \E t \in Works \cup {None} : Call(c, p, IntentOf(o, "create", WorkOf[o], 0, t, 0, FALSE))

CallClassify(c, p, o) ==
  \E kind \in Kinds \cap Classes, w \in Works :
    \E v \in KnownRevisions(o, w) :
      IF kind = "NEW" THEN Call(c, p, IntentOf(o, kind, w, v, None, 0, FALSE))
      ELSE \E t \in Works \ {w} : \E seen \in KnownRevisions(o, t) :
             Call(c, p, IntentOf(o, kind, w, v, t, seen, FALSE))

(* The server stops, or the client's connection goes: the transaction, if one  *)
(* is open, is rolled back.                                                    *)
Abandon(c) ==
  /\ call[c] # None
  /\ call' = [call EXCEPT ![c] = None]
  /\ answer' = None
  /\ UNCHANGED <<work, journal, grant, asked, answered>>

-----------------------------------------------------------------------------
(* The operation is in the journal: its recorded outcome is returned to the   *)
(* exact request, any other is refused.                                       *)
Replay(c) ==
  /\ Recorded(call[c].intent.op)
  /\ LET entry == journal[call[c].intent.op]
     IN  Finish(c, IF SameRequest(c, entry) THEN entry.effect ELSE "not_sent")
  /\ UNCHANGED <<work, journal, grant, asked, answered>>

Refuse(c) ==
  /\ Finish(c, "not_sent")
  /\ UNCHANGED <<work, journal, grant, asked, answered>>

Granted(c, g) ==
  /\ g.valid
  /\ call[c].gver = g.ver
  /\ call[c].intent.work \in g.writes

(* Mutants: the observed revision is not compared; unresolved effects are not   *)
(* looked for.                                                                 *)
RowAdmitsAnyRevision(c) ==
  Unresolved(call[c].intent.work) = {} /\ Exists(call[c].intent.work)

RowAdmitsUnresolved(c) ==
  /\ Exists(call[c].intent.work)
  /\ call[c].intent.observed = work[call[c].intent.work].ver

(* The checks every change of an existing row makes under its lock. *)
RowAdmits(c) ==
  LET i == call[c].intent
  IN  /\ Unresolved(i.work) = {}
      /\ Exists(i.work)
      /\ i.observed = work[i.work].ver

Confirmed(c) == call[c].intent.confirm \/ Pending(call[c].intent.work) = {}

Bumped(row) == [row EXCEPT !.ver = row.ver + 1]

Scalars(row, kind) ==
  [ver |-> row.ver + 1,
   completed |-> kind = "finish" \/ (kind # "reopen" /\ row.completed),
   type |-> IF kind = "retype" THEN "task" ELSE row.type,
   parent |-> row.parent, links |-> row.links]

(* protected_update *)
ProtectedUpdate(c) ==
  /\ InFlight(c, Updates, FALSE)
  /\ ~GrantLocked(call[c].principal)
  /\ LET i == call[c].intent
         admitted == /\ Granted(c, grant[call[c].principal])
                     /\ RowAdmits(c)
                     /\ Confirmed(c)
     IN  \/ Replay(c)
         \/ /\ ~Recorded(i.op) /\ ~admitted
            /\ Refuse(c)
         \/ /\ ~Recorded(i.op) /\ admitted
            /\ i.observed < MaxVersion
            /\ work' = [work EXCEPT ![i.work] = Scalars(work[i.work], i.kind)]
            /\ Journaled(c, i.observed + 1)
            /\ Finish(c, "applied")
            /\ UNCHANGED <<grant, asked, answered>>

(* CanonicalAppendGateway.append: the grant is checked before the journal is   *)
(* consulted, and finished work takes no more history.                        *)
CanonicalAppend(c) ==
  /\ InFlight(c, {"append"}, FALSE)
  /\ ~GrantLocked(call[c].principal)
  /\ LET i == call[c].intent
         granted == Granted(c, grant[call[c].principal]) /\ Exists(i.work)
         admitted == /\ RowAdmits(c)
                     /\ ~work[i.work].completed
                     /\ Confirmed(c)
     IN  \/ granted /\ Replay(c)
         \/ /\ ~granted \/ (~Recorded(i.op) /\ ~admitted)
            /\ Refuse(c)
         \/ /\ granted /\ ~Recorded(i.op) /\ admitted
            /\ i.observed < MaxVersion
            /\ work' = [work EXCEPT ![i.work] = Bumped(work[i.work])]
            /\ Journaled(c, i.observed + 1)
            /\ Finish(c, "applied")
            /\ UNCHANGED <<grant, asked, answered>>

-----------------------------------------------------------------------------
(* Mutant: only the work itself is refused as its own parent. *)
MayParentAnyOther(w, t) == t # None => Exists(t) /\ w # t

(* set_parent, once the row is locked: refused when it would close a cycle. *)
MayParent(w, t) == t # None => Exists(t) /\ w \notin Ancestors(t)

Related(row, i) ==
  [ver |-> row.ver + 1, completed |-> row.completed, type |-> row.type,
   parent |-> IF i.kind = "parent" THEN i.target ELSE row.parent,
   links |-> CASE i.kind = "link" -> row.links \cup {i.target}
               [] i.kind = "unlink" -> row.links \ {i.target}
               [] OTHER -> row.links]

(* A relation that is already as asked is left alone and keeps its revision. *)
ChangesRelation(i) ==
  CASE i.kind = "parent" -> work[i.work].parent # i.target
    [] i.kind = "link" -> i.target \notin work[i.work].links
    [] i.kind = "unlink" -> i.target \in work[i.work].links
    [] OTHER -> TRUE

(* Mutant: occurrences move like any other work. *)
HidesNoReview(i) == FALSE

(* A pending review occurrence is not moved away from its subject. *)
HidesReview(i) ==
  /\ i.kind = "parent" /\ work[i.work].type = "review"
  /\ work[i.work].parent \notin {None, i.target}
  /\ \E r \in Pending(work[i.work].parent) : r.occurrence = i.work

(* protected_relation *)
ProtectedRelation(c) ==
  /\ InFlight(c, Relations, FALSE)
  /\ ~GrantLocked(call[c].principal)
  /\ LET i == call[c].intent
         g == grant[call[c].principal]
         admitted == /\ Granted(c, g)
                     /\ RowAdmits(c)
                     /\ ~HidesReview(i)
                     /\ i.target \in g.reads \cup Projects \cup {None}
                     /\ ChangesRelation(i) => Confirmed(c)
                     /\ i.target # i.work
                     /\ i.target \in Works => Exists(i.target)
                     /\ i.kind = "parent" /\ ChangesRelation(i) => MayParent(i.work, i.target)
     IN  \/ Replay(c)
         \/ /\ ~Recorded(i.op) /\ ~admitted
            /\ Refuse(c)
         \/ /\ ~Recorded(i.op) /\ admitted
            /\ IF ChangesRelation(i)
               THEN /\ i.observed < MaxVersion
                    /\ work' = [work EXCEPT ![i.work] = Related(work[i.work], i)]
                    /\ Journaled(c, i.observed + 1)
               ELSE /\ UNCHANGED work
                    /\ Journaled(c, i.observed)
            /\ Finish(c, "applied")
            /\ UNCHANGED <<grant, asked, answered>>

-----------------------------------------------------------------------------
(* The first step of protected_create and protected_feedback_classification:   *)
(* the grant is read (and locked, when managed) and the journal looked up.     *)
LookUp(c) ==
  /\ InFlight(c, {"create"} \cup Classes, FALSE)
  /\ ~GrantLocked(call[c].principal)
  /\ \/ Replay(c)
     \/ /\ ~Recorded(call[c].intent.op)
        /\ call' = [call EXCEPT ![c].grant = grant[call[c].principal]]
        /\ answer' = None
        /\ UNCHANGED <<work, journal, grant, asked, answered>>

NewWork(t, type) == [ver |-> 1, completed |-> FALSE, type |-> type, parent |-> t, links |-> {}]

(* protected_create, after the lookup.  Inserting rows an exact retry has      *)
(* inserted in between violates their keys, and the retry of the transaction   *)
(* finds the journal's outcome.                                                *)
ProtectedCreate(c) ==
  /\ InFlight(c, {"create"}, TRUE)
  /\ LET i == call[c].intent
         g == call[c].grant
         admitted == /\ g.valid /\ call[c].gver = g.ver
                     /\ IF i.target = None THEN g.writes = Works
                        ELSE /\ i.target \in g.writes
                             /\ Exists(i.target)
                             /\ ~work[i.target].completed
     IN  \/ /\ ~admitted
            /\ Refuse(c)
         \/ admitted /\ Replay(c)
         \/ /\ admitted /\ ~Recorded(i.op)
            /\ \E type \in {"task", "feedback"} :
                 work' = [work EXCEPT ![i.work] = NewWork(i.target, type)]
            /\ Journaled(c, 1)
            /\ Finish(c, "applied")
            /\ UNCHANGED <<grant, asked, answered>>

(* The rows a classification leaves: the source is annotated and closed or     *)
(* moved under the target, an amended target is annotated too.                 *)
Moves(i) == i.kind = "SUB-ITEM" /\ work[i.work].parent # i.target

ClassifiedSource(i) ==
  LET row == work[i.work]
  IN  [ver |-> row.ver + IF Moves(i) THEN 2 ELSE 1,
       completed |-> i.kind \in {"AMEND", "DUPLICATE"},
       type |-> row.type,
       parent |-> IF Moves(i) THEN i.target ELSE row.parent, links |-> row.links]

(* Mutant: the move of a sub-item keeps the revision of the annotation. *)
ClassifiedMoveUncounted(i) ==
  [work EXCEPT ![i.work] = [ClassifiedSource(i) EXCEPT !.ver = work[i.work].ver + 1]]

Classified(i) ==
  IF i.kind = "AMEND"
  THEN [work EXCEPT ![i.work] = ClassifiedSource(i), ![i.target] = Bumped(work[i.target])]
  ELSE [work EXCEPT ![i.work] = ClassifiedSource(i)]

(* protected_feedback_classification, after the lookup.  An operation that has  *)
(* been journaled in between violates the journal's key and is refused.         *)
ProtectedClassify(c) ==
  /\ InFlight(c, Classes, TRUE)
  /\ LET i == call[c].intent
         g == call[c].grant
         filed == \E o \in Applied : /\ journal[o].intent.kind = "create"
                                     /\ journal[o].intent.work = i.work
                                     /\ journal[o].principal = call[c].principal
         admitted == /\ g.valid /\ call[c].gver = g.ver
                     /\ Exists(i.work) /\ ~work[i.work].completed
                     /\ work[i.work].type = "feedback"
                     /\ i.observed = work[i.work].ver
                     /\ i.target # None =>
                          /\ Exists(i.target) /\ ~work[i.target].completed
                          /\ work[i.target].type = "feedback"
                          /\ i.seen = work[i.target].ver
                     /\ filed
                     /\ \A w \in {i.work, i.target} \ {None} : Unresolved(w) = {}
                     /\ Moves(i) => MayParent(i.work, i.target)
     IN  \/ /\ ~admitted \/ Recorded(i.op)
            /\ Refuse(c)
         \/ /\ admitted /\ ~Recorded(i.op)
            /\ i.observed + 1 < MaxVersion /\ i.seen < MaxVersion
            /\ work' = Classified(i)
            /\ Journaled(c, ClassifiedSource(i).ver)
            /\ Finish(c, "applied")
            /\ UNCHANGED <<grant, asked, answered>>

-----------------------------------------------------------------------------
GrantOf(ver, valid, authority) ==
  [ver |-> ver, valid |-> valid, writes |-> authority.writes, reads |-> authority.reads]

(* GrantState.issue: the trusted control path replaces a managed grant, or      *)
(* revokes it, and advances its version.                                        *)
Issue(p, authority, valid) ==
  /\ p \in Managed
  /\ ~GrantLocked(p)
  /\ grant[p].ver < MaxGrant
  /\ grant' = [grant EXCEPT ![p] = GrantOf(grant[p].ver + 1, valid, authority)]
  /\ answer' = None
  /\ UNCHANGED <<work, journal, asked, answered, call>>

(* ReviewService.request: the occurrence is created under its subject if it is  *)
(* not there yet and the basis recorded at the revision the requester observed,  *)
(* which was checked before the transaction began and may be stale by now.      *)
RequestReview(r) ==
  /\ Exists(r.subject) /\ r.ver <= work[r.subject].ver
  /\ r \notin asked
  /\ \/ /\ ~Exists(r.occurrence)
        /\ work' = [work EXCEPT ![r.occurrence] = NewWork(r.subject, "review")]
     \/ /\ Exists(r.occurrence)
        /\ work[r.occurrence].parent = r.subject /\ work[r.occurrence].type = "review"
        /\ UNCHANGED work
  /\ asked' = asked \cup {r}
  /\ answer' = None
  /\ UNCHANGED <<journal, grant, answered, call>>

(* ReviewService.submit records an outcome once; findings are accepted for a    *)
(* stale basis too.                                                            *)
RecordOutcome(r) ==
  /\ r \in asked \ answered
  /\ answered' = answered \cup {r}
  /\ answer' = None
  /\ UNCHANGED <<work, journal, grant, asked, call>>

-----------------------------------------------------------------------------
(* A database may hold one intent of the provider-backed release whose outcome  *)
(* was never learnt; nothing in the canonical runtime resolves it.              *)
UnknownIntent(p, o, w) ==
  [principal |-> p, gver |-> 1, effect |-> "unknown", result |-> 0,
   intent |-> IntentOf(o, "append", w, 1, None, 0, FALSE)]

NoJournal == [o \in Ops |-> None]

(* WorkspaceAdmissionState.admission *)
Workspace == [writes |-> Works, reads |-> Works]

Init ==
  /\ work = [w \in Works |->
               CASE w \in Feedback -> NewWork(None, "feedback")
                 [] w \in Imported \ Feedback -> NewWork(None, "task")
                 [] OTHER -> None]
  /\ \/ journal = NoJournal
     \/ "append" \in Kinds /\ \E p \in Principals, o \in Ops, w \in Imported :
                     journal = [NoJournal EXCEPT ![o] = UnknownIntent(p, o, w)]
  /\ grant \in [Principals -> {GrantOf(1, TRUE, a) : a \in Authorities \cup {Workspace}}]
  /\ \A p \in Principals :
       grant[p] \in {GrantOf(1, TRUE, a) : a \in IF p \in Managed THEN Authorities
                                                 ELSE {Workspace}}
  /\ asked = {}
  /\ answered = {}
  /\ call = [c \in Calls |-> None]
  /\ answer = None

Next ==
  \/ \E c \in Calls, p \in Principals, o \in Ops :
       CallOnWork(c, p, o) \/ CallCreate(c, p, o) \/ CallClassify(c, p, o)
  \/ \E c \in Calls :
       \/ Abandon(c)
       \/ ProtectedUpdate(c)
       \/ CanonicalAppend(c)
       \/ ProtectedRelation(c)
       \/ LookUp(c)
       \/ ProtectedCreate(c)
       \/ ProtectedClassify(c)
  \/ \E p \in Principals, authority \in Authorities, valid \in BOOLEAN : Issue(p, authority, valid)
  \/ \E r \in Review : RequestReview(r) \/ RecordOutcome(r)

Spec == Init /\ [][Next]_vars

-----------------------------------------------------------------------------
(* Every row, journal entry, grant and call holds values of its type. *)
WorkTypeOK ==
  /\ work \in [Works -> Row \cup {None}]
  /\ journal \in [Ops -> Entry \cup {None}]
  /\ grant \in [Principals -> Grant]
  /\ asked \subseteq Review
  /\ answered \subseteq asked
  /\ call \in [Calls -> CallState \cup {None}]

(* Effect o produced version v of work w. *)
Produced(o, w, v) ==
  LET i == journal[o].intent
  IN  \/ i.work = w /\ i.observed < v /\ v <= journal[o].result
      \/ i.kind = "AMEND" /\ i.target = w /\ v = i.seen + 1

(* Every revision of a work after its first was produced by exactly one        *)
(* journaled effect, which was based on the revision before it, and the         *)
(* journal claims no revision the work has not had: no two writers that saw     *)
(* the same revision both succeed, no retry applies twice, and nothing changes  *)
(* a work without a receipt.                                                   *)
EveryVersionIsOneEffect ==
  \A w \in Works, v \in 2..MaxVersion :
    Cardinality({o \in Applied : Produced(o, w, v)})
      = IF Exists(w) /\ v <= work[w].ver THEN 1 ELSE 0

(* The parent relation is a forest over existing works: every set of works has *)
(* a member whose parent lies outside it.  Creates, re-parentings and          *)
(* classifications of several calls together never close a cycle.               *)
ParentsFormAForest ==
  /\ \A w \in Works : Exists(w) /\ work[w].parent # None => Exists(work[w].parent)
  /\ \A S \in SUBSET {w \in Works : Exists(w)} :
       S # {} => \E w \in S : work[w].parent \notin S

(* While an effect on a work is unresolved nothing changes that work: not       *)
(* another principal, not another kind of operation, not a classification that   *)
(* only names it as its target.                                                 *)
UnresolvedEffectFreezesWork ==
  [][\A w \in Works : Unresolved(w) # {} => work'[w] = work[w]]_vars

(* An effect is journaled under the grant that is in force when it commits,     *)
(* also when the call read its grant earlier: a rotation or a revocation is      *)
(* never overtaken by a call it should have stopped.                            *)
EffectsUseTheGrantInForce ==
  [][\A o \in Ops :
       (~Recorded(o) /\ Recorded(o)') =>
         /\ journal'[o].gver = grant[journal'[o].principal].ver
         /\ grant[journal'[o].principal].valid]_vars

(* A pending review stops being pending only when its outcome is recorded, when *)
(* its subject is revised by a call that confirmed the cancellation, or by one  *)
(* of the two changes that ask for no confirmation: a feedback classification    *)
(* of the subject, and an update that gives the occurrence itself another type.  *)
PendingReviewIsCancelledKnowingly ==
  [][\A w \in Works : \A r \in Pending(w) :
       r \notin Pending(w)' =>
         \/ r \in answered'
         \/ \E o \in Ops :
              /\ ~Recorded(o) /\ Recorded(o)'
              /\ LET i == journal'[o].intent
                 IN  \/ i.work = w /\ i.confirm
                     \/ i.kind \in Classes /\ w \in {i.work, i.target}
                     \/ i.kind = "retype" /\ i.work = r.occurrence]_vars

\* The journal accounts for the works through retries, races and rotations: every state is
\* well formed and every revision of a work is the doing of exactly one recorded effect.
WorkIsAccountedFor ==
  WorkTypeOK /\ EveryVersionIsOneEffect
=============================================================================
