------------------------- MODULE CanonicalWorkProofs --------------------------
(***************************************************************************)
(* Theorems about CanonicalWork for any sets of works, operations, principals *)
(* and calls: its tables stay typed, the parent relation stays a forest, an     *)
(* unresolved effect freezes its work, an effect commits under the grant in     *)
(* force, every revision is the doing of exactly one journaled effect, and a    *)
(* pending review is cancelled only knowingly.                                *)
(*                                                                         *)
(* The parts of the invariant Inv and what each is for:                       *)
(*   CallsFit           what an operation names is of the kind it can change;  *)
(*   CreatedByJournal   the WorkId of an operation is unused until the journal *)
(*                      records it, so a create adds a leaf and never rewrites *)
(*                      a row that others hang from;                          *)
(*   UnknownIsImported  an unresolved effect is on a work that exists, so      *)
(*                      creates and review requests cannot touch it;           *)
(*   ReadGrantInForce   the grant a call read under its lock is still the       *)
(*                      current one when the call's transaction commits.        *)
(* A step either keeps the parents, moves one work after a search of its new   *)
(* parent's ancestors, or adds a leaf; each keeps the forest.                  *)
(*                                                                         *)
(* OneProducerEach restates the cardinalities of EveryVersionIsOneEffect as     *)
(* existence and uniqueness of a producer.  It is inductive beside Inv: a step   *)
(* journals at most one entry, and the revisions that entry claims are those     *)
(* that the rows newly reach.                                                 *)
(***************************************************************************)
EXTENDS CanonicalWork, FiniteSetTheorems, TLAPS

-----------------------------------------------------------------------------
(* The rows the operations build. *)
LEMMA ScalarsTyped ==
  ASSUME NEW row \in Row, row.ver < MaxVersion, NEW kind
  PROVE  Scalars(row, kind) \in Row
<1>1. row.ver + 1 \in Version
  BY WorkConstants DEF WorkConstants, Row, Version
<1> QED
  BY <1>1 DEF Scalars, Row, Type

(* An append. *)
LEMMA BumpedTyped ==
  ASSUME NEW row \in Row, row.ver < MaxVersion PROVE Bumped(row) \in Row
BY WorkConstants DEF WorkConstants, Bumped, Row, Version

(* A changed relation. *)
LEMMA RelatedTyped ==
  ASSUME NEW row \in Row, NEW i \in Intent, row.ver < MaxVersion,
         i.kind = "parent" => i.target \in Works \cup {None},
         i.kind = "link" => i.target \in Works \cup Projects
  PROVE  Related(row, i) \in Row
<1>1. row.ver + 1 \in Version
  BY WorkConstants DEF WorkConstants, Row, Version
<1>2. Related(row, i).links \in SUBSET (Works \cup Projects)
  BY DEF Related, Row
<1>3. Related(row, i).parent \in Works \cup {None}
  BY DEF Related, Row
<1> QED
  BY <1>1, <1>2, <1>3 DEF Related, Row

(* A created work. *)
LEMMA NewWorkTyped ==
  ASSUME NEW t \in Works \cup {None}, NEW type \in Type
  PROVE  NewWork(t, type) \in Row
BY WorkConstants DEF WorkConstants, NewWork, Row, Version

(* An issued grant. *)
LEMMA GrantOfTyped ==
  ASSUME NEW a \in [writes: SUBSET Works, reads: SUBSET Works],
         NEW v \in 1..MaxGrant, NEW b \in BOOLEAN
  PROVE  GrantOf(v, b, a) \in Grant
BY DEF GrantOf, Grant

(* A request. *)
LEMMA IntentOfTyped ==
  ASSUME NEW o \in Ops, NEW kind \in Kinds, NEW w \in Works, NEW v \in 0..MaxVersion,
         NEW t \in Works \cup Projects \cup {None}, NEW seen \in 0..MaxVersion,
         NEW confirm \in BOOLEAN
  PROVE  IntentOf(o, kind, w, v, t, seen, confirm) \in Intent
BY DEF IntentOf, Intent

(* A row of the journal. *)
LEMMA EntryOfTyped ==
  ASSUME WorkTypeOK, NEW c \in Calls, call[c] # None, NEW result \in 0..MaxVersion
  PROVE  EntryOf(c, result) \in Entry
BY DEF WorkTypeOK, EntryOf, Entry, CallState

-----------------------------------------------------------------------------
(* The forest.  Every step changes the parent relation in one of three ways.   *)
SameParents ==
  /\ \A x \in Works : Exists(x)' <=> Exists(x)
  /\ \A x \in Works : Exists(x) => work'[x].parent = work[x].parent

MovesOne ==
  \E w \in Works, t \in Works \cup {None} :
    /\ Exists(w) /\ MayParent(w, t)
    /\ work'[w].parent = t
    /\ \A x \in Works : Exists(x)' <=> Exists(x)
    /\ \A x \in Works \ {w} : Exists(x) => work'[x].parent = work[x].parent

AddsOne ==
  \E w \in Works, t \in Works \cup {None} :
    /\ ~Exists(w) /\ Exists(w)' /\ work'[w].parent = t
    /\ t # None => Exists(t)
    /\ \A x \in Works \ {w} : work'[x] = work[x]

(* The search for ancestors yields a set that is closed under parents. *)
LEMMA AncestorsClosed ==
  ASSUME NEW t \in Works, NEW x \in Ancestors(t), Exists(x), work[x].parent \in Works
  PROVE  work[x].parent \in Ancestors(t)
<1> SUFFICES ASSUME NEW S \in SUBSET Works, t \in S,
                    \A y \in S : Exists(y) /\ work[y].parent # None => work[y].parent \in S
             PROVE  work[x].parent \in S
  BY DEF Ancestors
<1>1. x \in S
  BY DEF Ancestors
<1>2. work[x].parent # None
  BY WorkConstants DEF WorkConstants
<1> QED
  BY <1>1, <1>2

(* The search starts with the work itself. *)
LEMMA OwnAncestor ==
  ASSUME NEW t \in Works PROVE t \in Ancestors(t)
BY DEF Ancestors

(* Parents are works. *)
ParentsAreWorks == \A w \in Works : Exists(w) => work[w].parent \in Works \cup {None}

(* A step that keeps the parents keeps the forest. *)
LEMMA ForestKept ==
  ASSUME ParentsAreWorks, ParentsFormAForest, SameParents PROVE ParentsFormAForest'
<1>1. \A w \in Works :
        work'[w] # None /\ work'[w].parent # None => work'[work'[w].parent] # None
  BY DEF ParentsFormAForest, SameParents, Exists, ParentsAreWorks
<1>2. \A S \in SUBSET {w \in Works : work'[w] # None} :
        S # {} => \E w \in S : work'[w].parent \notin S
  <2> SUFFICES ASSUME NEW S \in SUBSET {w \in Works : work'[w] # None}, S # {}
               PROVE  \E w \in S : work'[w].parent \notin S
    OBVIOUS
  <2>1. S \in SUBSET {w \in Works : Exists(w)}
    BY DEF SameParents, Exists
  <2>2. PICK w \in S : work[w].parent \notin S
    BY <2>1 DEF ParentsFormAForest
  <2> QED
    BY <2>1, <2>2 DEF SameParents
<1> QED
  BY <1>1, <1>2 DEF ParentsFormAForest, Exists

(* A new leaf: nothing that existed can have it as its parent. *)
LEMMA ForestGrows ==
  ASSUME ParentsAreWorks, ParentsFormAForest, AddsOne PROVE ParentsFormAForest'
<1>1. PICK w \in Works, t \in Works \cup {None} :
        /\ work[w] = None /\ work'[w] # None /\ work'[w].parent = t
        /\ t # None => work[t] # None
        /\ \A x \in Works \ {w} : work'[x] = work[x]
  BY DEF AddsOne, Exists
<1>2. t # w /\ None \notin Works
  BY <1>1, WorkConstants DEF WorkConstants
<1>3. ASSUME NEW x \in Works, work'[x] # None, work'[x].parent # None
      PROVE  work'[work'[x].parent] # None
  <2>1. CASE x = w
    BY <1>1, <1>2, <1>3, <2>1
  <2>2. CASE x # w
    <3>1. work'[x] = work[x] /\ work[x].parent \in Works /\ work[work[x].parent] # None
      BY <1>1, <1>3, <2>2 DEF ParentsFormAForest, ParentsAreWorks, Exists
    <3> QED
      BY <1>1, <3>1
  <2> QED
    BY <2>1, <2>2
<1>4. ASSUME NEW S \in SUBSET {x \in Works : work'[x] # None}, S # {}
      PROVE  \E x \in S : work'[x].parent \notin S
  <2>1. CASE S = {w}
    BY <1>1, <1>2, <2>1
  <2>2. CASE S # {w}
    <3> DEFINE R == S \ {w}
    <3>1. R # {} /\ R \in SUBSET {x \in Works : Exists(x)}
      BY <1>1, <1>4, <2>2 DEF Exists
    <3>2. PICK x \in R : work[x].parent \notin R
      BY <3>1 DEF ParentsFormAForest
    <3>3. work[x].parent # w /\ work'[x] = work[x]
      <4>1. x \in Works \ {w} /\ work[x] # None
        BY <3>1 DEF Exists
      <4>2. work[x].parent # None => work[work[x].parent] # None
        BY <4>1 DEF ParentsFormAForest, Exists
      <4> QED
        BY <1>1, <1>2, <4>1, <4>2
    <3> QED
      BY <3>2, <3>3
  <2> QED
    BY <2>1, <2>2
<1> QED
  BY <1>3, <1>4 DEF ParentsFormAForest, Exists

(* Moving w under t closes no cycle: one through w would also pass through the  *)
(* ancestors of t, and w is none of them.                                      *)
LEMMA ForestMoves ==
  ASSUME ParentsAreWorks, ParentsFormAForest, MovesOne PROVE ParentsFormAForest'
<1>1. PICK w \in Works, t \in Works \cup {None} :
        /\ Exists(w) /\ MayParent(w, t)
        /\ work'[w].parent = t
        /\ \A x \in Works : (work'[x] # None) <=> (work[x] # None)
        /\ \A x \in Works : (Exists(x) /\ x # w) => work'[x].parent = work[x].parent
  BY DEF MovesOne, Exists
<1>2. None \notin Works
  BY WorkConstants DEF WorkConstants
<1>3. ASSUME NEW x \in Works, work'[x] # None, work'[x].parent # None
      PROVE  work'[work'[x].parent] # None
  <2>1. CASE x = w
    BY <1>1, <1>3, <2>1 DEF MayParent, Exists
  <2>2. CASE x # w
    <3>1. /\ work'[x].parent = work[x].parent
          /\ work[x].parent \in Works /\ work[work[x].parent] # None
      BY <1>1, <1>3, <2>2 DEF ParentsFormAForest, ParentsAreWorks, Exists
    <3> QED
      BY <1>1, <3>1
  <2> QED
    BY <2>1, <2>2
<1>4. ASSUME NEW S \in SUBSET {x \in Works : work'[x] # None}, S # {},
             \A x \in S : work'[x].parent \in S
      PROVE  FALSE
  <2>1. \A x \in S : x \in Works /\ Exists(x)
    BY <1>1, <1>4 DEF Exists
  <2>2. w \in S
    <3>1. SUFFICES ASSUME w \notin S PROVE FALSE
      OBVIOUS
    <3>2. \A x \in S : work[x].parent \in S
      BY <1>1, <1>4, <2>1, <3>1
    <3> QED
      BY <1>4, <2>1, <3>2 DEF ParentsFormAForest
  <2>3. t \in S /\ t \in Works /\ w \notin Ancestors(t)
    BY <1>1, <1>2, <1>4, <2>1, <2>2 DEF MayParent
  <2> DEFINE R == S \cap Ancestors(t)
  <2>4. t \in R /\ R \in SUBSET {x \in Works : Exists(x)}
    BY <2>1, <2>3, OwnAncestor
  <2>5. ASSUME NEW x \in R PROVE work[x].parent \in R
    <3>1. x \in S /\ x # w /\ x \in Ancestors(t)
      BY <2>3
    <3>2. work[x].parent \in S
      BY <1>1, <1>4, <2>1, <3>1
    <3>3. work[x].parent \in Ancestors(t)
      BY <2>1, <2>3, <3>1, <3>2, AncestorsClosed
    <3> QED
      BY <3>2, <3>3
  <2> QED
    BY <2>4, <2>5 DEF ParentsFormAForest
<1> QED
  BY <1>3, <1>4 DEF ParentsFormAForest, Exists

-----------------------------------------------------------------------------
(* What the client's intent names fits the operation it asks for. *)
Fits(i) ==
  /\ i.kind \in {"parent", "create"} => i.target \in Works \cup {None}
  /\ i.kind = "link" => i.target \in Works \cup Projects
  /\ i.kind \in {"AMEND", "SUB-ITEM"} => i.target \in Works \ {i.work}
  /\ i.kind \in Classes => i.target \in Works \cup {None}
  /\ i.kind = "create" => i.work = WorkOf[i.op]

CallsFit == \A c \in Calls : call[c] # None => Fits(call[c].intent)

(* A WorkId derived from an operation exists only once the operation is in     *)
(* the journal, and an unresolved effect is one the database came with.        *)
CreatedByJournal == \A o \in Ops : Exists(WorkOf[o]) => Recorded(o)

UnknownIsImported ==
  \A o \in Ops : (Recorded(o) /\ journal[o].effect = "unknown") => journal[o].intent.work \in Imported

ImportedExist == \A w \in Imported : Exists(w)

(* The grant a call has read is the grant in force for as long as it uses it.  *)
ReadGrantInForce ==
  \A c \in Calls : (call[c] # None /\ call[c].grant # None) =>
                     call[c].grant = grant[call[c].principal]

Inv == /\ WorkTypeOK
       /\ CallsFit
       /\ CreatedByJournal
       /\ UnknownIsImported
       /\ ImportedExist
       /\ ReadGrantInForce
       /\ ParentsFormAForest

-----------------------------------------------------------------------------
(* Every call that ends leaves the others alone, and one that begins fits.     *)
LEMMA NoneIsNoRow ==
  /\ None \notin Row /\ None \notin Entry /\ None \notin Grant /\ None \notin CallState
  /\ None \notin Works
BY WorkConstants DEF WorkConstants

(* Beginning a call with a fitting intent changes nothing else. *)
LEMMA CallKeeps ==
  ASSUME Inv, NEW c \in Calls, NEW p \in Principals, NEW i \in Intent, Fits(i), Call(c, p, i)
  PROVE  Inv'
<1>1. WorkTypeOK'
  <2>1. [principal |-> p, intent |-> i, gver |-> grant[p].ver, grant |-> None] \in CallState
    BY DEF Inv, WorkTypeOK, Grant, CallState
  <2> QED
    BY <2>1 DEF Inv, WorkTypeOK, Call
<1>2. CallsFit'
  BY DEF Inv, CallsFit, WorkTypeOK, Call
<1>3. CreatedByJournal' /\ UnknownIsImported' /\ ImportedExist'
  BY DEF Inv, Call, CreatedByJournal, UnknownIsImported, ImportedExist, Exists, Recorded
<1>4. ReadGrantInForce'
  BY DEF Inv, WorkTypeOK, Call, ReadGrantInForce
<1>5. ParentsFormAForest'
  BY DEF Inv, Call, ParentsFormAForest, Exists
<1> QED
  BY <1>1, <1>2, <1>3, <1>4, <1>5 DEF Inv

(* The two action properties, as predicates on one step. *)
Frozen == \A w \in Works : Unresolved(w) # {} => work'[w] = work[w]

Authorized ==
  \A o \in Ops :
    (~Recorded(o) /\ Recorded(o)') =>
      /\ journal'[o].gver = grant[journal'[o].principal].ver
      /\ grant[journal'[o].principal].valid

(* A step that leaves the tables alone and at most ends a call. *)
LEMMA QuietKeeps ==
  ASSUME Inv, NEW c \in Calls, call' \in {call, [call EXCEPT ![c] = None]},
         UNCHANGED <<work, journal, grant, asked, answered>>
  PROVE  Inv' /\ Frozen /\ Authorized
<1>1. \A b \in Calls : call'[b] \in {call[b], None}
  BY DEF Inv, WorkTypeOK
<1>2. WorkTypeOK'
  BY DEF Inv, WorkTypeOK
<1>3. CallsFit' /\ ReadGrantInForce'
  BY <1>1 DEF Inv, CallsFit, ReadGrantInForce
<1>4. CreatedByJournal' /\ UnknownIsImported' /\ ImportedExist'
  BY DEF Inv, CreatedByJournal, UnknownIsImported, ImportedExist, Exists, Recorded
<1>5. ParentsFormAForest'
  BY DEF Inv, ParentsFormAForest, Exists
<1>6. Frozen /\ Authorized
  BY DEF Frozen, Authorized, Recorded
<1> QED
  BY <1>2, <1>3, <1>4, <1>5, <1>6 DEF Inv

(* The type invariant makes every parent a work. *)
LEMMA ParentsTyped ==
  ASSUME WorkTypeOK PROVE ParentsAreWorks
BY NoneIsNoRow DEF WorkTypeOK, ParentsAreWorks, Exists, Row

(* A step that journals the effect of call c and ends it. *)
LEMMA EffectKeeps ==
  ASSUME Inv, NEW c \in Calls, call[c] # None, ~Recorded(call[c].intent.op),
         NEW result \in 0..MaxVersion, Journaled(c, result),
         call' = [call EXCEPT ![c] = None],
         UNCHANGED <<grant, asked, answered>>,
         work' \in [Works -> Row \cup {None}],
         \A w \in Works : Exists(w) => Exists(w)',
         \A w \in Works : Exists(w)' => Exists(w) \/ w = WorkOf[call[c].intent.op],
         SameParents \/ MovesOne \/ AddsOne,
         call[c].gver = grant[call[c].principal].ver,
         grant[call[c].principal].valid
  PROVE  Inv' /\ Authorized
<1> DEFINE op == call[c].intent.op
<1>1. op \in Ops /\ EntryOf(c, result) \in Entry
  BY EntryOfTyped DEF Inv, WorkTypeOK, CallState, Intent
<1>2. journal' = [journal EXCEPT ![op] = EntryOf(c, result)]
  BY DEF Journaled
<1>3. journal'[op] = EntryOf(c, result) /\ \A o \in Ops \ {op} : journal'[o] = journal[o]
  BY <1>1, <1>2 DEF Inv, WorkTypeOK
<1>4. WorkTypeOK'
  BY <1>1, <1>2 DEF Inv, WorkTypeOK
<1>5. \A b \in Calls : call'[b] \in {call[b], None}
  BY DEF Inv, WorkTypeOK
<1>6. CallsFit' /\ ReadGrantInForce'
  BY <1>5 DEF Inv, CallsFit, ReadGrantInForce
<1>7. CreatedByJournal'
  <2> SUFFICES ASSUME NEW o \in Ops, Exists(WorkOf[o])' PROVE Recorded(o)'
    BY DEF CreatedByJournal
  <2>1. CASE o = op
    BY <1>1, <1>3, <2>1, NoneIsNoRow DEF Recorded
  <2>2. CASE o # op
    <3>1. WorkOf[o] \in Works /\ WorkOf[o] # WorkOf[op]
      BY <1>1, <2>2, WorkConstants DEF WorkConstants
    <3>2. Exists(WorkOf[o])
      BY <3>1
    <3> QED
      BY <1>3, <2>2, <3>2 DEF Inv, CreatedByJournal, Recorded
  <2> QED
    BY <2>1, <2>2
<1>8. UnknownIsImported'
  <2>1. journal'[op].effect = "applied"
    BY <1>3 DEF EntryOf
  <2> QED
    BY <1>3, <2>1 DEF Inv, UnknownIsImported, Recorded
<1>9. ImportedExist'
  BY WorkConstants DEF WorkConstants, Inv, ImportedExist
<1>10. ParentsFormAForest'
  BY ParentsTyped, ForestKept, ForestMoves, ForestGrows DEF Inv
<1>11. Authorized
  <2>1. journal'[op].gver = call[c].gver /\ journal'[op].principal = call[c].principal
    BY <1>3 DEF EntryOf
  <2> QED
    BY <1>3, <2>1 DEF Authorized, Recorded
<1> QED
  BY <1>4, <1>6, <1>7, <1>8, <1>9, <1>10, <1>11 DEF Inv

-----------------------------------------------------------------------------
(* The operations, one lemma each. *)
LEMMA ReplayKeeps ==
  ASSUME Inv, NEW c \in Calls, Replay(c) PROVE Inv' /\ Frozen /\ Authorized
BY QuietKeeps DEF Replay, Finish

(* A refused request changes no table. *)
LEMMA RefuseKeeps ==
  ASSUME Inv, NEW c \in Calls, Refuse(c) PROVE Inv' /\ Frozen /\ Authorized
BY QuietKeeps DEF Refuse, Finish

(* What the invariant says of a call in flight. *)
LEMMA CallTyped ==
  ASSUME Inv, NEW c \in Calls, call[c] # None
  PROVE  /\ call[c] \in CallState
         /\ call[c].intent \in Intent
         /\ call[c].intent.work \in Works
         /\ call[c].intent.observed \in 0..MaxVersion
         /\ call[c].intent.seen \in 0..MaxVersion
         /\ Fits(call[c].intent)
BY DEF Inv, WorkTypeOK, CallState, Intent, CallsFit

(* A change of one existing row that keeps its parent. *)
LEMMA ReviseOne ==
  ASSUME Inv, NEW w \in Works, Exists(w), NEW row \in Row, row.parent = work[w].parent,
         work' = [work EXCEPT ![w] = row], Unresolved(w) = {}
  PROVE  /\ work' \in [Works -> Row \cup {None}]
         /\ \A x \in Works : Exists(x)' <=> Exists(x)
         /\ SameParents
         /\ Frozen
<1>1. work' \in [Works -> Row \cup {None}]
  BY DEF Inv, WorkTypeOK
<1>2. \A x \in Works : work'[x] = IF x = w THEN row ELSE work[x]
  BY DEF Inv, WorkTypeOK
<1>3. row # None
  BY NoneIsNoRow
<1>4. \A x \in Works : Exists(x)' <=> Exists(x)
  BY <1>2, <1>3 DEF Exists
<1>5. SameParents
  BY <1>2, <1>4 DEF SameParents
<1>6. Frozen
  BY <1>2 DEF Frozen
<1> QED
  BY <1>1, <1>4, <1>5, <1>6

(* protected_update: one row, checked and changed under its lock. *)
LEMMA UpdateKeeps ==
  ASSUME Inv, NEW c \in Calls, ProtectedUpdate(c) PROVE Inv' /\ Frozen /\ Authorized
<1> DEFINE i == call[c].intent
<1>1. call[c] # None
  BY DEF ProtectedUpdate, InFlight
<1>2. CASE Replay(c) \/ Refuse(c)
  BY <1>2, ReplayKeeps, RefuseKeeps
<1>3. CASE /\ ~Recorded(i.op) /\ Granted(c, grant[call[c].principal]) /\ RowAdmits(c)
           /\ i.observed < MaxVersion
           /\ work' = [work EXCEPT ![i.work] = Scalars(work[i.work], i.kind)]
           /\ Journaled(c, i.observed + 1)
           /\ Finish(c, "applied")
           /\ UNCHANGED <<grant, asked, answered>>
  <2>1. /\ i.work \in Works /\ Exists(i.work) /\ work[i.work] \in Row
        /\ work[i.work].ver = i.observed /\ Unresolved(i.work) = {}
    BY <1>1, <1>3, CallTyped DEF RowAdmits, Inv, WorkTypeOK, Exists
  <2>2. /\ Scalars(work[i.work], i.kind) \in Row
        /\ Scalars(work[i.work], i.kind).parent = work[i.work].parent
    BY <1>3, <2>1, ScalarsTyped DEF Scalars
  <2>3. /\ work' \in [Works -> Row \cup {None}]
        /\ \A x \in Works : Exists(x)' <=> Exists(x)
        /\ SameParents
        /\ Frozen
    BY <1>3, <2>1, <2>2, ReviseOne
  <2>4. i.observed + 1 \in 0..MaxVersion
    BY <1>1, <1>3, CallTyped, WorkConstants DEF WorkConstants
  <2> QED
    BY <1>1, <1>3, <2>3, <2>4, EffectKeeps DEF Granted, Finish
<1> QED
  BY <1>2, <1>3 DEF ProtectedUpdate

(* CanonicalAppendGateway.append. *)
LEMMA AppendKeeps ==
  ASSUME Inv, NEW c \in Calls, CanonicalAppend(c) PROVE Inv' /\ Frozen /\ Authorized
<1> DEFINE i == call[c].intent
<1>1. call[c] # None
  BY DEF CanonicalAppend, InFlight
<1>2. CASE Replay(c) \/ Refuse(c)
  BY <1>2, ReplayKeeps, RefuseKeeps
<1>3. CASE /\ ~Recorded(i.op) /\ Granted(c, grant[call[c].principal]) /\ RowAdmits(c)
           /\ i.observed < MaxVersion
           /\ work' = [work EXCEPT ![i.work] = Bumped(work[i.work])]
           /\ Journaled(c, i.observed + 1)
           /\ Finish(c, "applied")
           /\ UNCHANGED <<grant, asked, answered>>
  <2>1. /\ i.work \in Works /\ Exists(i.work) /\ work[i.work] \in Row
        /\ work[i.work].ver = i.observed /\ Unresolved(i.work) = {}
    BY <1>1, <1>3, CallTyped DEF RowAdmits, Inv, WorkTypeOK, Exists
  <2>2. /\ Bumped(work[i.work]) \in Row
        /\ Bumped(work[i.work]).parent = work[i.work].parent
    BY <1>3, <2>1, BumpedTyped DEF Bumped, Row
  <2>3. /\ work' \in [Works -> Row \cup {None}]
        /\ \A x \in Works : Exists(x)' <=> Exists(x)
        /\ SameParents
        /\ Frozen
    BY <1>3, <2>1, <2>2, ReviseOne
  <2>4. i.observed + 1 \in 0..MaxVersion
    BY <1>1, <1>3, CallTyped, WorkConstants DEF WorkConstants
  <2> QED
    BY <1>1, <1>3, <2>3, <2>4, EffectKeeps DEF Granted, Finish
<1> QED
  BY <1>2, <1>3 DEF CanonicalAppend

(* A change of one existing row that moves it to a parent it may have. *)
LEMMA MoveOne ==
  ASSUME Inv, NEW w \in Works, Exists(w), NEW row \in Row, MayParent(w, row.parent),
         work' = [work EXCEPT ![w] = row], Unresolved(w) = {}
  PROVE  /\ work' \in [Works -> Row \cup {None}]
         /\ \A x \in Works : Exists(x)' <=> Exists(x)
         /\ MovesOne
         /\ Frozen
<1>1. work' \in [Works -> Row \cup {None}]
  BY DEF Inv, WorkTypeOK
<1>2. \A x \in Works : work'[x] = IF x = w THEN row ELSE work[x]
  BY DEF Inv, WorkTypeOK
<1>3. row # None /\ row.parent \in Works \cup {None}
  BY NoneIsNoRow DEF Row
<1>4. \A x \in Works : Exists(x)' <=> Exists(x)
  BY <1>2, <1>3 DEF Exists
<1>5. work'[w].parent = row.parent
      /\ \A x \in Works \ {w} : Exists(x) => work'[x].parent = work[x].parent
  BY <1>2
<1>6. MovesOne
  BY <1>3, <1>4, <1>5 DEF MovesOne
<1>7. Frozen
  BY <1>2 DEF Frozen
<1> QED
  BY <1>1, <1>4, <1>6, <1>7

(* protected_relation: a move is checked against the ancestors of its target. *)
LEMMA RelationKeeps ==
  ASSUME Inv, NEW c \in Calls, ProtectedRelation(c) PROVE Inv' /\ Frozen /\ Authorized
<1> DEFINE i == call[c].intent
<1>1. call[c] # None
  BY DEF ProtectedRelation, InFlight
<1>2. CASE Replay(c) \/ Refuse(c)
  BY <1>2, ReplayKeeps, RefuseKeeps
<1>3. CASE /\ ~Recorded(i.op) /\ Granted(c, grant[call[c].principal]) /\ RowAdmits(c)
           /\ i.kind = "parent" /\ ChangesRelation(i) => MayParent(i.work, i.target)
           /\ IF ChangesRelation(i)
              THEN /\ i.observed < MaxVersion
                   /\ work' = [work EXCEPT ![i.work] = Related(work[i.work], i)]
                   /\ Journaled(c, i.observed + 1)
              ELSE /\ UNCHANGED work
                   /\ Journaled(c, i.observed)
           /\ Finish(c, "applied")
           /\ UNCHANGED <<grant, asked, answered>>
  <2>1. /\ i \in Intent /\ i.work \in Works /\ Exists(i.work) /\ work[i.work] \in Row
        /\ work[i.work].ver = i.observed /\ Unresolved(i.work) = {}
        /\ i.observed \in 0..MaxVersion
    BY <1>1, <1>3, CallTyped DEF RowAdmits, Inv, WorkTypeOK, Exists
  <2>2. call' = [call EXCEPT ![c] = None]
        /\ call[c].gver = grant[call[c].principal].ver /\ grant[call[c].principal].valid
    BY <1>3 DEF Granted, Finish
  <2>3. CASE ~ChangesRelation(i)
    <3>1. UNCHANGED work /\ Journaled(c, i.observed) /\ UNCHANGED <<grant, asked, answered>>
      BY <1>3, <2>3
    <3>2. /\ work' \in [Works -> Row \cup {None}] /\ SameParents /\ Frozen
          /\ \A x \in Works : Exists(x)' <=> Exists(x)
      BY <3>1 DEF Inv, WorkTypeOK, SameParents, Exists, Frozen
    <3> QED
      BY <1>1, <1>3, <2>1, <2>2, <3>1, <3>2, EffectKeeps
  <2>4. CASE ChangesRelation(i)
    <3>1. /\ i.observed < MaxVersion /\ Journaled(c, i.observed + 1)
          /\ work' = [work EXCEPT ![i.work] = Related(work[i.work], i)]
          /\ UNCHANGED <<grant, asked, answered>>
      BY <1>3, <2>4
    <3>2. Related(work[i.work], i) \in Row
      BY <1>1, <2>1, <3>1, CallTyped, RelatedTyped DEF Fits
    <3>3. i.observed + 1 \in 0..MaxVersion
      BY <2>1, <3>1, WorkConstants DEF WorkConstants
    <3>4. /\ work' \in [Works -> Row \cup {None}]
          /\ \A x \in Works : Exists(x)' <=> Exists(x)
          /\ SameParents \/ MovesOne
          /\ Frozen
      <4>1. CASE i.kind = "parent"
        <5>1. MayParent(i.work, Related(work[i.work], i).parent)
          BY <1>3, <2>4, <4>1 DEF Related
        <5> QED
          BY <2>1, <3>1, <3>2, <5>1, MoveOne
      <4>2. CASE i.kind # "parent"
        <5>1. Related(work[i.work], i).parent = work[i.work].parent
          BY <4>2 DEF Related
        <5> QED
          BY <2>1, <3>1, <3>2, <5>1, ReviseOne
      <4> QED
        BY <4>1, <4>2
    <3> QED
      BY <1>1, <1>3, <2>2, <3>1, <3>3, <3>4, EffectKeeps
  <2> QED
    BY <2>3, <2>4
<1> QED
  BY <1>2, <1>3 DEF ProtectedRelation

(* The lookup records the grant it locked, which is the one in force. *)
LEMMA LookUpKeeps ==
  ASSUME Inv, NEW c \in Calls, LookUp(c) PROVE Inv' /\ Frozen /\ Authorized
<1>1. CASE Replay(c)
  BY <1>1, ReplayKeeps
<1>2. CASE /\ call' = [call EXCEPT ![c].grant = grant[call[c].principal]]
           /\ UNCHANGED <<work, journal, grant, asked, answered>>
  <2>1. call[c] # None /\ call[c] \in CallState /\ Fits(call[c].intent)
    BY CallTyped DEF LookUp, InFlight
  <2> DEFINE d == [call[c] EXCEPT !.grant = grant[call[c].principal]]
  <2>2. d \in CallState /\ d.intent = call[c].intent /\ d.principal = call[c].principal
        /\ d.grant = grant[call[c].principal]
    BY <2>1 DEF CallState, Inv, WorkTypeOK
  <2>3. call' \in [Calls -> CallState \cup {None}]
        /\ \A b \in Calls : call'[b] = IF b = c THEN d ELSE call[b]
    BY <1>2, <2>2 DEF Inv, WorkTypeOK
  <2>4. WorkTypeOK'
    BY <1>2, <2>3 DEF Inv, WorkTypeOK
  <2>5. CallsFit'
    BY <2>1, <2>2, <2>3 DEF Inv, CallsFit
  <2>6. ReadGrantInForce'
    BY <1>2, <2>2, <2>3 DEF Inv, ReadGrantInForce
  <2>7. CreatedByJournal' /\ UnknownIsImported' /\ ImportedExist'
    BY <1>2 DEF Inv, CreatedByJournal, UnknownIsImported, ImportedExist, Exists, Recorded
  <2>8. ParentsFormAForest'
    BY <1>2 DEF Inv, ParentsFormAForest, Exists
  <2>9. Frozen /\ Authorized
    BY <1>2 DEF Frozen, Authorized, Recorded
  <2> QED
    BY <2>4, <2>5, <2>6, <2>7, <2>8, <2>9 DEF Inv
<1> QED
  BY <1>1, <1>2 DEF LookUp

(* An unresolved effect is on a work that exists. *)
LEMMA UnresolvedExists ==
  ASSUME Inv, NEW w \in Works, ~Exists(w) PROVE Unresolved(w) = {}
BY DEF Inv, Unresolved, UnknownIsImported, ImportedExist

(* A new row for a work that does not exist. *)
LEMMA AddOne ==
  ASSUME Inv, NEW w \in Works, ~Exists(w), NEW row \in Row,
         row.parent # None => Exists(row.parent),
         work' = [work EXCEPT ![w] = row]
  PROVE  /\ work' \in [Works -> Row \cup {None}]
         /\ \A x \in Works : Exists(x) => Exists(x)'
         /\ \A x \in Works : Exists(x)' => Exists(x) \/ x = w
         /\ AddsOne
         /\ Frozen
<1>1. work' \in [Works -> Row \cup {None}]
  BY DEF Inv, WorkTypeOK
<1>2. \A x \in Works : work'[x] = IF x = w THEN row ELSE work[x]
  BY DEF Inv, WorkTypeOK
<1>3. row # None /\ row.parent \in Works \cup {None}
  BY NoneIsNoRow DEF Row
<1>4. \A x \in Works : Exists(x)' <=> Exists(x) \/ x = w
  BY <1>2, <1>3 DEF Exists
<1>5. AddsOne
  <2>1. ~Exists(w) /\ Exists(w)' /\ work'[w].parent = row.parent
        /\ \A x \in Works \ {w} : work'[x] = work[x]
    BY <1>2, <1>4
  <2> QED
    BY <1>3, <2>1 DEF AddsOne
<1>6. Frozen
  BY <1>2, UnresolvedExists DEF Frozen
<1> QED
  BY <1>1, <1>4, <1>5, <1>6

(* What a call that looked the journal up relies on. *)
LEMMA LookedUp ==
  ASSUME Inv, NEW c \in Calls, NEW kinds, InFlight(c, kinds, TRUE)
  PROVE  call[c] # None /\ call[c].intent.kind \in kinds
         /\ call[c].grant = grant[call[c].principal]
BY DEF InFlight, Inv, ReadGrantInForce

(* protected_create: the WorkId of an operation not yet journaled is unused. *)
LEMMA CreateKeeps ==
  ASSUME Inv, NEW c \in Calls, ProtectedCreate(c) PROVE Inv' /\ Frozen /\ Authorized
<1> DEFINE i == call[c].intent
           g == call[c].grant
<1>1. call[c] # None /\ i.kind = "create" /\ g = grant[call[c].principal]
  <2>1. InFlight(c, {"create"}, TRUE)
    BY DEF ProtectedCreate
  <2>2. call[c] # None /\ i.kind \in {"create"} /\ g = grant[call[c].principal]
    BY <2>1, LookedUp
  <2> QED
    BY <2>2
<1>2. CASE Replay(c) \/ Refuse(c)
  BY <1>2, ReplayKeeps, RefuseKeeps
<1>3. CASE /\ g.valid /\ call[c].gver = g.ver
           /\ i.target # None => Exists(i.target)
           /\ ~Recorded(i.op)
           /\ \E type \in {"task", "feedback"} :
                work' = [work EXCEPT ![i.work] = NewWork(i.target, type)]
           /\ Journaled(c, 1)
           /\ Finish(c, "applied")
           /\ UNCHANGED <<grant, asked, answered>>
  <2>1. /\ i.op \in Ops /\ i.work \in Works /\ i.work = WorkOf[i.op]
        /\ i.target \in Works \cup {None}
    BY <1>1, CallTyped DEF Fits, Intent
  <2>2. ~Exists(i.work)
    BY <1>3, <2>1 DEF Inv, CreatedByJournal
  <2>3. PICK type \in {"task", "feedback"} :
          work' = [work EXCEPT ![i.work] = NewWork(i.target, type)]
    BY <1>3
  <2>4. /\ NewWork(i.target, type) \in Row
        /\ NewWork(i.target, type).parent = i.target
    BY <2>1, NewWorkTyped DEF Type, NewWork
  <2>5. /\ work' \in [Works -> Row \cup {None}]
        /\ \A x \in Works : Exists(x) => Exists(x)'
        /\ \A x \in Works : Exists(x)' => Exists(x) \/ x = i.work
        /\ AddsOne
        /\ Frozen
    BY <1>3, <2>1, <2>2, <2>3, <2>4, AddOne
  <2>6. 1 \in 0..MaxVersion
    BY WorkConstants DEF WorkConstants
  <2> QED
    BY <1>1, <1>3, <2>1, <2>5, <2>6, EffectKeeps DEF Finish
<1> QED
  BY <1>2, <1>3 DEF ProtectedCreate

(* The source of a classification, once it is admitted. *)
LEMMA ClassifiedSourceTyped ==
  ASSUME Inv, NEW i \in Intent, i.kind \in Classes, Fits(i), work[i.work] \in Row,
         work[i.work].ver + 1 < MaxVersion
  PROVE  /\ ClassifiedSource(i) \in Row
         /\ ClassifiedSource(i).ver \in 0..MaxVersion
         /\ ClassifiedSource(i).parent = IF Moves(i) THEN i.target ELSE work[i.work].parent
<1>1. work[i.work].ver + (IF Moves(i) THEN 2 ELSE 1) \in Version
  BY WorkConstants DEF WorkConstants, Row, Version
<1>2. (IF Moves(i) THEN i.target ELSE work[i.work].parent) \in Works \cup {None}
  BY DEF Moves, Fits, Row
<1>3. ClassifiedSource(i).ver = work[i.work].ver + (IF Moves(i) THEN 2 ELSE 1)
  BY DEF ClassifiedSource
<1>4. ClassifiedSource(i) \in Row
  BY <1>1, <1>2 DEF ClassifiedSource, Row
<1> QED
  BY <1>1, <1>3, <1>4, WorkConstants DEF WorkConstants, ClassifiedSource, Version

(* protected_feedback_classification: up to two rows, both free of unresolved effects. *)
LEMMA ClassifyKeeps ==
  ASSUME Inv, NEW c \in Calls, ProtectedClassify(c) PROVE Inv' /\ Frozen /\ Authorized
<1> DEFINE i == call[c].intent
           g == call[c].grant
<1>1. call[c] # None /\ i.kind \in Classes /\ g = grant[call[c].principal]
  BY LookedUp DEF ProtectedClassify
<1>2. CASE Refuse(c)
  BY <1>2, RefuseKeeps
<1>3. CASE /\ g.valid /\ call[c].gver = g.ver
           /\ Exists(i.work) /\ i.observed = work[i.work].ver
           /\ i.target # None => Exists(i.target) /\ i.seen = work[i.target].ver
           /\ \A w \in {i.work, i.target} \ {None} : Unresolved(w) = {}
           /\ Moves(i) => MayParent(i.work, i.target)
           /\ i.observed + 1 < MaxVersion /\ i.seen < MaxVersion
           /\ work' = Classified(i)
           /\ ~Recorded(i.op)
           /\ Journaled(c, ClassifiedSource(i).ver)
           /\ Finish(c, "applied")
           /\ UNCHANGED <<grant, asked, answered>>
  <2>1. /\ i \in Intent /\ i.work \in Works /\ Fits(i) /\ work[i.work] \in Row
        /\ Unresolved(i.work) = {}
    BY <1>1, <1>3, CallTyped, NoneIsNoRow DEF Inv, WorkTypeOK, Exists
  <2>2. /\ ClassifiedSource(i) \in Row
        /\ ClassifiedSource(i).ver \in 0..MaxVersion
        /\ ClassifiedSource(i).parent = IF Moves(i) THEN i.target ELSE work[i.work].parent
    BY <1>1, <1>3, <2>1, ClassifiedSourceTyped
  <2>3. /\ work' \in [Works -> Row \cup {None}]
        /\ \A x \in Works : Exists(x)' <=> Exists(x)
        /\ SameParents \/ MovesOne
        /\ Frozen
    <3>1. CASE i.kind = "AMEND"
      <4>1. /\ i.target \in Works \ {i.work} /\ Exists(i.target) /\ work[i.target] \in Row
            /\ work[i.target].ver < MaxVersion /\ Unresolved(i.target) = {}
        BY <1>3, <2>1, <3>1, NoneIsNoRow DEF Fits, Inv, WorkTypeOK, Exists
      <4>2. Bumped(work[i.target]) \in Row /\ Bumped(work[i.target]).parent = work[i.target].parent
        BY <4>1, BumpedTyped DEF Bumped, Row
      <4>3. work' = [work EXCEPT ![i.work] = ClassifiedSource(i),
                                 ![i.target] = Bumped(work[i.target])]
        BY <1>3, <3>1 DEF Classified
      <4>4. \A x \in Works : work'[x] = IF x = i.target THEN Bumped(work[i.target])
                                        ELSE IF x = i.work THEN ClassifiedSource(i)
                                        ELSE work[x]
        BY <2>1, <4>1, <4>3 DEF Inv, WorkTypeOK
      <4>5. work' \in [Works -> Row \cup {None}]
        BY <2>1, <2>2, <4>1, <4>2, <4>3 DEF Inv, WorkTypeOK
      <4>6. ClassifiedSource(i) # None /\ Bumped(work[i.target]) # None
        BY <2>2, <4>2, NoneIsNoRow
      <4>7. \A x \in Works : Exists(x)' <=> Exists(x)
        BY <1>3, <4>1, <4>4, <4>6 DEF Exists
      <4>8. ClassifiedSource(i).parent = work[i.work].parent
        BY <2>2, <3>1 DEF Moves
      <4>9. SameParents
        BY <4>2, <4>4, <4>7, <4>8 DEF SameParents
      <4>10. Frozen
        BY <2>1, <4>1, <4>4 DEF Frozen
      <4> QED
        BY <4>5, <4>7, <4>9, <4>10
    <3>2. CASE i.kind # "AMEND"
      <4>1. work' = [work EXCEPT ![i.work] = ClassifiedSource(i)]
        BY <1>3, <3>2 DEF Classified
      <4>2. CASE Moves(i)
        BY <1>3, <2>1, <2>2, <4>1, <4>2, MoveOne
      <4>3. CASE ~Moves(i)
        BY <1>3, <2>1, <2>2, <4>1, <4>3, ReviseOne
      <4> QED
        BY <4>2, <4>3
    <3> QED
      BY <3>1, <3>2
  <2> QED
    BY <1>1, <1>3, <2>2, <2>3, EffectKeeps DEF Finish
<1> QED
  BY <1>2, <1>3 DEF ProtectedClassify

(* A grant is replaced only while no call has it locked. *)
LEMMA IssueKeeps ==
  ASSUME Inv, NEW p \in Principals, NEW a \in Authorities, NEW b \in BOOLEAN, Issue(p, a, b)
  PROVE  Inv' /\ Frozen /\ Authorized
<1>1. /\ grant' = [grant EXCEPT ![p] = GrantOf(grant[p].ver + 1, b, a)]
      /\ UNCHANGED <<work, journal, asked, answered, call>>
  BY DEF Issue
<1>2. GrantOf(grant[p].ver + 1, b, a) \in Grant
  <2>1. grant[p].ver + 1 \in 1..MaxGrant
    BY WorkConstants DEF WorkConstants, Issue, Inv, WorkTypeOK, Grant
  <2> QED
    BY <2>1, GrantOfTyped, WorkConstants DEF WorkConstants
<1>3. WorkTypeOK'
  BY <1>1, <1>2 DEF Inv, WorkTypeOK
<1>4. ReadGrantInForce'
  <2> SUFFICES ASSUME NEW c \in Calls, call[c] # None, call[c].grant # None
               PROVE  call[c].grant = grant'[call[c].principal]
    BY <1>1 DEF ReadGrantInForce
  <2>1. call[c].principal \in Principals /\ call[c].principal # p
    BY DEF Issue, GrantLocked, Inv, WorkTypeOK, CallState
  <2>2. grant'[call[c].principal] = grant[call[c].principal]
    BY <1>1, <2>1 DEF Inv, WorkTypeOK
  <2> QED
    BY <2>2 DEF Inv, ReadGrantInForce
<1>5. CallsFit' /\ CreatedByJournal' /\ UnknownIsImported' /\ ImportedExist'
  BY <1>1 DEF Inv, CallsFit, CreatedByJournal, UnknownIsImported, ImportedExist, Exists, Recorded
<1>6. ParentsFormAForest'
  BY <1>1 DEF Inv, ParentsFormAForest, Exists
<1>7. Frozen /\ Authorized
  BY <1>1 DEF Frozen, Authorized, Recorded
<1> QED
  BY <1>3, <1>4, <1>5, <1>6, <1>7 DEF Inv

(* A review request adds an occurrence as a leaf, or nothing. *)
LEMMA RequestReviewKeeps ==
  ASSUME Inv, NEW r \in Review, RequestReview(r) PROVE Inv' /\ Frozen /\ Authorized
<1>1. /\ asked' = asked \cup {r} /\ UNCHANGED <<journal, grant, answered, call>>
      /\ Exists(r.subject)
  BY DEF RequestReview
<1>2. /\ r.occurrence \in Works /\ r.subject \in Works
      /\ \A o \in Ops : WorkOf[o] \in Works /\ WorkOf[o] # r.occurrence
  BY WorkConstants DEF WorkConstants, Review
<1>3. /\ work' \in [Works -> Row \cup {None}]
      /\ \A x \in Works : Exists(x) => Exists(x)'
      /\ \A x \in Works : Exists(x)' => Exists(x) \/ x = r.occurrence
      /\ SameParents \/ AddsOne
      /\ Frozen
  <2>1. CASE UNCHANGED work
    BY <2>1 DEF Inv, WorkTypeOK, Exists, SameParents, Frozen
  <2>2. CASE /\ ~Exists(r.occurrence)
             /\ work' = [work EXCEPT ![r.occurrence] = NewWork(r.subject, "review")]
    <3>1. /\ NewWork(r.subject, "review") \in Row
          /\ NewWork(r.subject, "review").parent = r.subject
      BY <1>2, NewWorkTyped DEF Type, NewWork
    <3> QED
      BY <1>1, <1>2, <2>2, <3>1, AddOne
  <2> QED
    BY <2>1, <2>2 DEF RequestReview
<1>4. WorkTypeOK'
  BY <1>1, <1>3 DEF Inv, WorkTypeOK
<1>5. CallsFit' /\ ReadGrantInForce'
  BY <1>1 DEF Inv, CallsFit, ReadGrantInForce
<1>6. CreatedByJournal'
  BY <1>1, <1>2, <1>3 DEF Inv, CreatedByJournal, Recorded
<1>7. UnknownIsImported' /\ ImportedExist'
  BY <1>1, <1>3, WorkConstants DEF WorkConstants, Inv, UnknownIsImported, ImportedExist, Recorded
<1>8. ParentsFormAForest'
  BY <1>3, ParentsTyped, ForestKept, ForestGrows DEF Inv
<1>9. Authorized
  BY <1>1 DEF Authorized, Recorded
<1> QED
  BY <1>3, <1>4, <1>5, <1>6, <1>7, <1>8, <1>9 DEF Inv

(* An outcome changes no work. *)
LEMMA RecordOutcomeKeeps ==
  ASSUME Inv, NEW r \in Review, RecordOutcome(r) PROVE Inv' /\ Frozen /\ Authorized
<1>1. UNCHANGED <<work, journal, grant, asked, call>> /\ answered' = answered \cup {r} /\ r \in asked
  BY DEF RecordOutcome
<1>2. WorkTypeOK'
  BY <1>1 DEF Inv, WorkTypeOK
<1>3. /\ CallsFit' /\ ReadGrantInForce' /\ CreatedByJournal' /\ UnknownIsImported'
      /\ ImportedExist'
  BY <1>1 DEF Inv, CallsFit, ReadGrantInForce, CreatedByJournal, UnknownIsImported,
     ImportedExist, Exists, Recorded
<1>4. ParentsFormAForest'
  BY <1>1 DEF Inv, ParentsFormAForest, Exists
<1>5. Frozen /\ Authorized
  BY <1>1 DEF Frozen, Authorized, Recorded
<1> QED
  BY <1>2, <1>3, <1>4, <1>5 DEF Inv

(* The three ways to begin a call build an intent that fits its operation. *)
LEMMA KnownTyped ==
  ASSUME NEW o, NEW w, NEW v \in KnownRevisions(o, w) PROVE v \in 0..MaxVersion
BY WorkConstants DEF WorkConstants, KnownRevisions, Version

(* Every way to begin a call keeps the invariant. *)
LEMMA BeginKeeps ==
  ASSUME Inv, NEW c \in Calls, NEW p \in Principals, NEW o \in Ops,
         CallOnWork(c, p, o) \/ CallCreate(c, p, o) \/ CallClassify(c, p, o)
  PROVE  Inv' /\ Frozen /\ Authorized
<1>1. ASSUME NEW i \in Intent, Fits(i), Call(c, p, i) PROVE Inv' /\ Frozen /\ Authorized
  BY <1>1, CallKeeps DEF Call, Frozen, Authorized, Recorded
<1>2. 0 \in 0..MaxVersion
  BY WorkConstants DEF WorkConstants
<1>3. CASE CallOnWork(c, p, o)
  <2>1. PICK kind \in Kinds \cap (Updates \cup Relations \cup {"append"}), w \in Works,
             confirm \in Confirmations :
          \E v \in KnownRevisions(o, w), t \in TargetsOf(kind) :
            Call(c, p, IntentOf(o, kind, w, v, t, 0, confirm))
    BY <1>3 DEF CallOnWork
  <2>2. PICK v \in KnownRevisions(o, w), t \in TargetsOf(kind) :
          Call(c, p, IntentOf(o, kind, w, v, t, 0, confirm))
    BY <2>1
  <2> DEFINE i == IntentOf(o, kind, w, v, t, 0, confirm)
  <2>3. /\ t \in Works \cup Projects \cup {None}
        /\ kind = "parent" => t \in Works \cup {None}
        /\ kind = "link" => t \in Works \cup Projects
    BY DEF TargetsOf
  <2>4. i \in Intent
    BY <1>2, <2>3, KnownTyped, IntentOfTyped DEF Confirmations
  <2>5. Fits(i)
    BY <2>3 DEF Fits, IntentOf, Updates, Relations, Classes
  <2> QED
    BY <1>1, <2>2, <2>4, <2>5
<1>4. CASE CallCreate(c, p, o)
  <2>1. PICK t \in Works \cup {None} : Call(c, p, IntentOf(o, "create", WorkOf[o], 0, t, 0, FALSE))
    BY <1>4 DEF CallCreate
  <2> DEFINE i == IntentOf(o, "create", WorkOf[o], 0, t, 0, FALSE)
  <2>2. WorkOf[o] \in Works /\ "create" \in Kinds
    BY <1>4, WorkConstants DEF WorkConstants, CallCreate
  <2>3. i \in Intent
    BY <1>2, <2>2, IntentOfTyped
  <2>4. Fits(i)
    BY DEF Fits, IntentOf, Classes
  <2> QED
    BY <1>1, <2>1, <2>3, <2>4
<1>5. CASE CallClassify(c, p, o)
  <2>1. PICK kind \in Kinds \cap Classes, w \in Works :
          \E v \in KnownRevisions(o, w) :
            IF kind = "NEW" THEN Call(c, p, IntentOf(o, kind, w, v, None, 0, FALSE))
            ELSE \E t \in Works \ {w} : \E seen \in KnownRevisions(o, t) :
                   Call(c, p, IntentOf(o, kind, w, v, t, seen, FALSE))
    BY <1>5 DEF CallClassify
  <2>2. PICK v \in KnownRevisions(o, w) :
            IF kind = "NEW" THEN Call(c, p, IntentOf(o, kind, w, v, None, 0, FALSE))
            ELSE \E t \in Works \ {w} : \E seen \in KnownRevisions(o, t) :
                   Call(c, p, IntentOf(o, kind, w, v, t, seen, FALSE))
    BY <2>1
  <2>3. CASE kind = "NEW"
    <3> DEFINE i == IntentOf(o, kind, w, v, None, 0, FALSE)
    <3>1. i \in Intent
      BY <1>2, KnownTyped, IntentOfTyped
    <3>2. Fits(i)
      BY <2>3 DEF Fits, IntentOf, Classes
    <3> QED
      BY <1>1, <2>2, <2>3, <3>1, <3>2
  <2>4. CASE kind # "NEW"
    <3>1. PICK t \in Works \ {w} : \E seen \in KnownRevisions(o, t) :
            Call(c, p, IntentOf(o, kind, w, v, t, seen, FALSE))
      BY <2>2, <2>4
    <3>2. PICK seen \in KnownRevisions(o, t) :
            Call(c, p, IntentOf(o, kind, w, v, t, seen, FALSE))
      BY <3>1
    <3> DEFINE i == IntentOf(o, kind, w, v, t, seen, FALSE)
    <3>3. i \in Intent
      BY KnownTyped, IntentOfTyped
    <3>4. Fits(i)
      BY DEF Fits, IntentOf, Classes
    <3> QED
      BY <1>1, <3>2, <3>3, <3>4
  <2> QED
    BY <2>3, <2>4
<1> QED
  BY <1>3, <1>4, <1>5

-----------------------------------------------------------------------------
(* The database starts with imported rows that have no parents. *)
LEMMA InitEstablishes == Init => Inv
<1> SUFFICES ASSUME Init PROVE Inv
  OBVIOUS
<1>1. /\ NewWork(None, "feedback") \in Row /\ NewWork(None, "task") \in Row
      /\ NewWork(None, "feedback").parent = None /\ NewWork(None, "task").parent = None
  BY NewWorkTyped DEF Type, NewWork
<1>2. \A w \in Works : /\ work[w] # None <=> w \in Imported
                       /\ w \in Imported => work[w] \in Row /\ work[w].parent = None
  BY <1>1, NoneIsNoRow, WorkConstants DEF WorkConstants, Init
<1>3. work \in [Works -> Row \cup {None}]
  BY <1>1, WorkConstants DEF WorkConstants, Init
<1>4. /\ journal \in [Ops -> Entry \cup {None}]
      /\ UnknownIsImported
  <2>1. CASE journal = NoJournal
    BY <2>1 DEF NoJournal, UnknownIsImported, Recorded
  <2>2. CASE "append" \in Kinds /\ \E p \in Principals, o \in Ops, w \in Imported :
               journal = [NoJournal EXCEPT ![o] = UnknownIntent(p, o, w)]
    <3>1. PICK p \in Principals, o \in Ops, w \in Imported :
            journal = [NoJournal EXCEPT ![o] = UnknownIntent(p, o, w)]
      BY <2>2
    <3>2. 1 \in 0..MaxVersion /\ 0 \in 0..MaxVersion /\ 1 \in 1..MaxGrant /\ w \in Works
      BY WorkConstants DEF WorkConstants
    <3>3. IntentOf(o, "append", w, 1, None, 0, FALSE) \in Intent
      BY <2>2, <3>2, IntentOfTyped
    <3>4. UnknownIntent(p, o, w) \in Entry /\ UnknownIntent(p, o, w).intent.work = w
      BY <3>2, <3>3 DEF UnknownIntent, Entry, IntentOf
    <3>5. \A x \in Ops : journal[x] = IF x = o THEN UnknownIntent(p, o, w) ELSE None
      BY <3>1 DEF NoJournal
    <3>6. UnknownIsImported
      BY <3>4, <3>5 DEF UnknownIsImported, Recorded
    <3> QED
      BY <3>1, <3>4, <3>6 DEF NoJournal
  <2> QED
    BY <2>1, <2>2 DEF Init
<1>5. grant \in [Principals -> Grant]
  <2>1. 1 \in 1..MaxGrant
    BY WorkConstants DEF WorkConstants
  <2>2. ASSUME NEW a \in Authorities \cup {Workspace} PROVE GrantOf(1, TRUE, a) \in Grant
    <3>1. a \in [writes: SUBSET Works, reads: SUBSET Works]
      BY WorkConstants DEF WorkConstants, Workspace
    <3> QED
      BY <2>1, <3>1, GrantOfTyped
  <2> DEFINE First == {GrantOf(1, TRUE, a) : a \in Authorities \cup {Workspace}}
  <2>3. First \subseteq Grant
    BY <2>2
  <2>4. grant \in [Principals -> First]
    BY DEF Init
  <2> HIDE DEF First
  <2> QED
    BY <2>3, <2>4
<1>6. WorkTypeOK
  BY <1>3, <1>4, <1>5 DEF Init, WorkTypeOK
<1>7. CallsFit /\ ReadGrantInForce
  BY DEF Init, CallsFit, ReadGrantInForce
<1>8. CreatedByJournal /\ ImportedExist
  BY <1>2, WorkConstants DEF WorkConstants, CreatedByJournal, ImportedExist, Exists
<1>9. ParentsFormAForest
  <2>1. \A w \in Works : Exists(w) => work[w].parent = None
    BY <1>2 DEF Exists
  <2> QED
    BY <2>1, NoneIsNoRow DEF ParentsFormAForest
<1> QED
  BY <1>4, <1>6, <1>7, <1>8, <1>9 DEF Inv

(* Every step keeps the invariant and has both action properties. *)
LEMMA NextKeeps == Inv /\ [Next]_vars => Inv' /\ Frozen /\ Authorized
<1> SUFFICES ASSUME Inv, [Next]_vars PROVE Inv' /\ Frozen /\ Authorized
  OBVIOUS
<1>1. CASE UNCHANGED vars
  <2>1. UNCHANGED <<work, journal, grant, asked, answered, call>>
    BY <1>1 DEF vars
  <2>2. WorkTypeOK'
    BY <2>1 DEF Inv, WorkTypeOK
  <2>3. /\ CallsFit' /\ ReadGrantInForce' /\ CreatedByJournal' /\ UnknownIsImported'
        /\ ImportedExist'
    BY <2>1 DEF Inv, CallsFit, ReadGrantInForce, CreatedByJournal, UnknownIsImported,
       ImportedExist, Exists, Recorded
  <2>4. ParentsFormAForest'
    BY <2>1 DEF Inv, ParentsFormAForest, Exists
  <2>5. Frozen /\ Authorized
    BY <2>1 DEF Frozen, Authorized, Recorded
  <2> QED
    BY <2>2, <2>3, <2>4, <2>5 DEF Inv
<1>2. ASSUME NEW c \in Calls, NEW p \in Principals, NEW o \in Ops,
             CallOnWork(c, p, o) \/ CallCreate(c, p, o) \/ CallClassify(c, p, o)
      PROVE  Inv' /\ Frozen /\ Authorized
  BY <1>2, BeginKeeps
<1>3. ASSUME NEW c \in Calls, Abandon(c) PROVE Inv' /\ Frozen /\ Authorized
  BY <1>3, QuietKeeps DEF Abandon
<1>4. ASSUME NEW c \in Calls,
             \/ ProtectedUpdate(c) \/ CanonicalAppend(c) \/ ProtectedRelation(c)
             \/ LookUp(c) \/ ProtectedCreate(c) \/ ProtectedClassify(c)
      PROVE  Inv' /\ Frozen /\ Authorized
  BY <1>4, UpdateKeeps, AppendKeeps, RelationKeeps, LookUpKeeps, CreateKeeps, ClassifyKeeps
<1>5. ASSUME NEW p \in Principals, NEW a \in Authorities, NEW b \in BOOLEAN, Issue(p, a, b)
      PROVE  Inv' /\ Frozen /\ Authorized
  BY <1>5, IssueKeeps
<1>6. ASSUME NEW r \in Review, RequestReview(r) \/ RecordOutcome(r)
      PROVE  Inv' /\ Frozen /\ Authorized
  BY <1>6, RequestReviewKeeps, RecordOutcomeKeeps
<1> QED
  BY <1>1, <1>2, <1>3, <1>4, <1>5, <1>6 DEF Next

(* The invariant holds in every behaviour. *)
LEMMA InvHolds == Spec => []Inv
BY InitEstablishes, NextKeeps, PTL DEF Spec

(* Every table and every call in flight holds values of its type: in particular *)
(* the versions that the operations compute stay in range.                      *)
THEOREM WorkTypeCorrect == Spec => []WorkTypeOK
<1>1. Inv => WorkTypeOK
  BY DEF Inv
<1> QED
  BY <1>1, InvHolds, PTL

(* Creates, re-parentings, review requests and classifications of any number of *)
(* calls never close a cycle of parents or leave a parent that does not exist.   *)
THEOREM WorksFormAForest == Spec => []ParentsFormAForest
<1>1. Inv => ParentsFormAForest
  BY DEF Inv
<1> QED
  BY <1>1, InvHolds, PTL

(* While an effect on a work is unresolved no operation of any principal changes *)
(* that work.                                                                    *)
THEOREM UnresolvedWorkIsFrozen == Spec => UnresolvedEffectFreezesWork
<1>1. Inv /\ [Next]_vars => \A w \in Works : Unresolved(w) # {} => work'[w] = work[w]
  BY NextKeeps DEF Frozen
<1> QED
  BY <1>1, InvHolds, PTL DEF Spec, UnresolvedEffectFreezesWork

(* An effect is journaled under the grant in force at its commit, also by the     *)
(* operations that read the grant in an earlier step.                            *)
THEOREM GrantInForceAtCommit == Spec => EffectsUseTheGrantInForce
<1>1. Inv /\ [Next]_vars =>
        \A o \in Ops :
          (~Recorded(o) /\ Recorded(o)') =>
            /\ journal'[o].gver = grant[journal'[o].principal].ver
            /\ grant[journal'[o].principal].valid
  BY NextKeeps DEF Authorized
<1> QED
  BY <1>1, InvHolds, PTL DEF Spec, EffectsUseTheGrantInForce

-----------------------------------------------------------------------------
(* The account of revisions.  Entry e of the journal produced revision v of w, *)
(* and a row has reached revision v.                                          *)
Counts(e, w, v) ==
  /\ e # None /\ e.effect = "applied"
  /\ \/ e.intent.work = w /\ e.intent.observed < v /\ v <= e.result
     \/ e.intent.kind = "AMEND" /\ e.intent.target = w /\ v = e.intent.seen + 1

Reached(row, v) == row # None /\ v <= row.ver

(* Every revision after the first has one producer, and every producer's revision *)
(* has been reached.                                                             *)
OneProducerEach ==
  \A w \in Works, v \in 2..MaxVersion :
    /\ \A o1, o2 \in Ops : Counts(journal[o1], w, v) /\ Counts(journal[o2], w, v) => o1 = o2
    /\ Reached(work[w], v) <=> \E o \in Ops : Counts(journal[o], w, v)

(* One producer each is what the cardinalities of the property say. *)
LEMMA OneProducerCounts ==
  ASSUME OneProducerEach PROVE EveryVersionIsOneEffect
<1> SUFFICES ASSUME NEW w \in Works, NEW v \in 2..MaxVersion
             PROVE  Cardinality({o \in Applied : Produced(o, w, v)})
                      = IF Exists(w) /\ v <= work[w].ver THEN 1 ELSE 0
  BY DEF EveryVersionIsOneEffect
<1> DEFINE P == {o \in Applied : Produced(o, w, v)}
<1>1. \A o : o \in P <=> o \in Ops /\ Counts(journal[o], w, v)
  BY DEF Applied, Produced, Recorded, Counts
<1>2. CASE Exists(w) /\ v <= work[w].ver
  <2>1. PICK o \in Ops : Counts(journal[o], w, v)
    BY <1>2 DEF OneProducerEach, Exists, Reached
  <2>2. P = {o}
    BY <1>1, <2>1 DEF OneProducerEach
  <2> QED
    BY <1>2, <2>2, FS_Singleton
<1>3. CASE ~(Exists(w) /\ v <= work[w].ver)
  <2>1. P = {}
    BY <1>1, <1>3 DEF OneProducerEach, Exists, Reached
  <2> QED
    BY <1>3, <2>1, FS_EmptySet
<1> QED
  BY <1>2, <1>3

(* A step that journals nothing and lets no row reach a later revision. *)
LEMMA AccountKept ==
  ASSUME OneProducerEach, \A o \in Ops : journal'[o] = journal[o],
         \A w \in Works, v \in 2..MaxVersion : Reached(work'[w], v) <=> Reached(work[w], v)
  PROVE  OneProducerEach'
BY DEF OneProducerEach

(* A step that journals one entry, which produced exactly what was newly reached. *)
LEMMA AccountGrows ==
  ASSUME OneProducerEach, NEW op \in Ops, journal[op] = None,
         \A o \in Ops \ {op} : journal'[o] = journal[o],
         \A w \in Works, v \in 2..MaxVersion :
           /\ Reached(work[w], v) => Reached(work'[w], v)
           /\ Counts(journal'[op], w, v) <=> Reached(work'[w], v) /\ ~Reached(work[w], v)
  PROVE  OneProducerEach'
<1> SUFFICES ASSUME NEW w \in Works, NEW v \in 2..MaxVersion
             PROVE  /\ \A o1, o2 \in Ops :
                         Counts(journal'[o1], w, v) /\ Counts(journal'[o2], w, v) => o1 = o2
                    /\ Reached(work'[w], v) <=> \E o \in Ops : Counts(journal'[o], w, v)
  BY DEF OneProducerEach
<1>1. ~Counts(journal[op], w, v)
  BY DEF Counts
<1>2. \A o \in Ops : o # op => Counts(journal'[o], w, v) <=> Counts(journal[o], w, v)
  OBVIOUS
<1>3. CASE Reached(work[w], v)
  <2>1. ~Counts(journal'[op], w, v) /\ Reached(work'[w], v)
    BY <1>3
  <2> QED
    BY <1>1, <1>2, <1>3, <2>1 DEF OneProducerEach
<1>4. CASE ~Reached(work[w], v)
  <2>1. \A o \in Ops : ~Counts(journal[o], w, v)
    BY <1>4 DEF OneProducerEach
  <2> QED
    BY <1>2, <1>4, <2>1
<1> QED
  BY <1>3, <1>4

(* What journaling the effect of a call does. *)
LEMMA JournalGains ==
  ASSUME Inv, NEW c \in Calls, call[c] # None, ~Recorded(call[c].intent.op), NEW result,
         Journaled(c, result)
  PROVE  /\ call[c].intent.op \in Ops /\ journal[call[c].intent.op] = None
         /\ \A o \in Ops \ {call[c].intent.op} : journal'[o] = journal[o]
         /\ journal'[call[c].intent.op] = EntryOf(c, result)
<1>1. call[c].intent.op \in Ops
  BY DEF Inv, WorkTypeOK, CallState, Intent
<1> QED
  BY <1>1 DEF Inv, WorkTypeOK, Journaled, Recorded

(* An effect on one existing row, based on its current revision. *)
LEMMA OneRowAccounts ==
  ASSUME Inv, OneProducerEach, NEW c \in Calls, call[c] # None,
         ~Recorded(call[c].intent.op), call[c].intent.kind # "AMEND",
         NEW result \in 0..MaxVersion, Journaled(c, result),
         Exists(call[c].intent.work), call[c].intent.observed = work[call[c].intent.work].ver,
         NEW row \in Row, row.ver = result, call[c].intent.observed <= result,
         \A x \in Works : work'[x] = IF x = call[c].intent.work THEN row ELSE work[x]
  PROVE  OneProducerEach'
<1>1. PICK i : i = call[c].intent
  OBVIOUS
<1>2. PICK e : e = EntryOf(c, result)
  OBVIOUS
<1>3. e.effect = "applied" /\ e.intent = i /\ e.result = result /\ e # None
  <2>1. e \in Entry
    BY <1>2, EntryOfTyped DEF Inv
  <2> QED
    BY <1>1, <1>2, <2>1, NoneIsNoRow DEF EntryOf
<1>4. i.op \in Ops /\ journal[i.op] = None /\ journal'[i.op] = e
      /\ \A o \in Ops \ {i.op} : journal'[o] = journal[o]
  BY <1>1, <1>2, JournalGains
<1>5. i.work \in Works /\ i.observed \in Nat /\ result \in Nat /\ row # None
      /\ work[i.work] # None /\ work[i.work].ver = i.observed /\ work'[i.work] = row
  BY <1>1, CallTyped, NoneIsNoRow, WorkConstants DEF WorkConstants, Exists
<1>6. ASSUME NEW w \in Works, NEW v \in 2..MaxVersion
      PROVE  /\ Reached(work[w], v) => Reached(work'[w], v)
             /\ Counts(journal'[i.op], w, v) <=> Reached(work'[w], v) /\ ~Reached(work[w], v)
  <2>1. v \in Nat
    OBVIOUS
  <2>2. Counts(e, w, v) <=> i.work = w /\ i.observed < v /\ v <= result
    BY <1>1, <1>3 DEF Counts
  <2>3. CASE w = i.work
    BY <1>1, <1>4, <1>5, <2>1, <2>2, <2>3 DEF Reached
  <2>4. CASE w # i.work
    BY <1>1, <1>4, <2>2, <2>4
  <2> QED
    BY <2>3, <2>4
<1> QED
  BY <1>4, <1>6, AccountGrows

-----------------------------------------------------------------------------
(* Pending reviews.  Review r waits for the row of its subject w, under which    *)
(* its occurrence is; intent i may cancel it.                                  *)
Waits(r, w, subject, occurrence) ==
  /\ r.subject = w /\ subject # None /\ r.ver = subject.ver
  /\ occurrence # None /\ occurrence.type = "review" /\ occurrence.parent = w

MayCancel(i, w, r) ==
  \/ i.work = w /\ i.confirm
  \/ i.kind \in Classes /\ w \in {i.work, i.target}
  \/ i.kind = "retype" /\ i.work = r.occurrence

(* The action property, as a predicate on one step. *)
Knowingly ==
  \A w \in Works : \A r \in Pending(w) :
    r \notin Pending(w)' =>
      \/ r \in answered'
      \/ \E o \in Ops : /\ ~Recorded(o) /\ Recorded(o)'
                        /\ MayCancel(journal'[o].intent, w, r)

(* Pending is: asked, not answered, and waiting. *)
LEMMA PendingWaits ==
  ASSUME NEW w, NEW r
  PROVE  /\ r \in Pending(w) <=> r \in asked \ answered /\ Waits(r, w, work[w], work[r.occurrence])
         /\ r \in Pending(w)' <=> r \in asked' \ answered' /\ Waits(r, w, work'[w], work'[r.occurrence])
BY DEF Pending, Waits, Exists

(* Occurrences are works, and a subject is not None. *)
LEMMA PendingTyped ==
  ASSUME Inv, NEW w \in Works, NEW r \in Pending(w)
  PROVE  /\ r.occurrence \in Works /\ r.occurrence \notin Imported
         /\ work[w] # None /\ work[r.occurrence] # None
         /\ work[r.occurrence].type = "review" /\ work[r.occurrence].parent = w
         /\ r.subject = w /\ r.ver = work[w].ver /\ w # None
<1>1. r \in asked /\ Waits(r, w, work[w], work[r.occurrence])
  BY PendingWaits
<1>2. r \in Review
  BY <1>1 DEF Inv, WorkTypeOK
<1>3. r.occurrence \in Occurrences
  BY <1>2 DEF Review
<1> QED
  BY <1>1, <1>3, NoneIsNoRow, WorkConstants DEF WorkConstants, Waits

(* A step that leaves waiting what waits. *)
LEMMA ReviewsKept ==
  ASSUME Inv, asked \subseteq asked',
         \A w \in Works : \A r \in Pending(w) :
           r \notin answered' => Waits(r, w, work'[w], work'[r.occurrence])
  PROVE  Knowingly
<1> SUFFICES ASSUME NEW w \in Works, NEW r \in Pending(w), r \notin Pending(w)'
             PROVE  r \in answered'
  BY DEF Knowingly
<1> QED
  BY PendingWaits

(* A step that journals one effect, which may cancel what stops waiting. *)
LEMMA ReviewsCancelled ==
  ASSUME Inv, NEW c \in Calls, call[c] # None, ~Recorded(call[c].intent.op), NEW result,
         result \in 0..MaxVersion,
         Journaled(c, result), UNCHANGED <<asked, answered>>,
         \A w \in Works : \A r \in Pending(w) :
           \/ MayCancel(call[c].intent, w, r)
           \/ Waits(r, w, work'[w], work'[r.occurrence])
  PROVE  Knowingly
<1>1. PICK op : op = call[c].intent.op
  OBVIOUS
<1>2. op \in Ops /\ journal[op] = None /\ journal'[op] = EntryOf(c, result)
  BY <1>1, JournalGains
<1>3. journal'[op] # None /\ journal'[op].intent = call[c].intent
  <2>1. EntryOf(c, result) \in Entry
    BY EntryOfTyped DEF Inv
  <2> QED
    BY <1>2, <2>1, NoneIsNoRow DEF EntryOf
<1>4. ~Recorded(op) /\ Recorded(op)'
  BY <1>2, <1>3 DEF Recorded
<1> SUFFICES ASSUME NEW w \in Works, NEW r \in Pending(w), r \notin Pending(w)'
             PROVE  MayCancel(journal'[op].intent, w, r)
  BY <1>2, <1>4 DEF Knowingly
<1>5. ~Waits(r, w, work'[w], work'[r.occurrence])
  BY PendingWaits
<1> QED
  BY <1>3, <1>5

(* What is proved of every step beside the invariant. *)
Accounted == OneProducerEach' /\ Knowingly

(* A step that changes neither a work nor the journal. *)
LEMMA QuietAccounts ==
  ASSUME Inv, OneProducerEach, asked \subseteq asked', UNCHANGED <<work, journal>>
  PROVE  Accounted
<1>1. OneProducerEach'
  BY AccountKept
<1>2. \A w \in Works : \A r \in Pending(w) : Waits(r, w, work'[w], work'[r.occurrence])
  BY PendingWaits
<1>3. Knowingly
  BY <1>2, ReviewsKept
<1> QED
  BY <1>1, <1>3 DEF Accounted

(* A changed row other than the subject's, whose type and parent stay, waits on. *)
LEMMA WaitsOn ==
  ASSUME Inv, NEW w \in Works, NEW r \in Pending(w), NEW x \in Works, x # w, NEW row \in Row,
         \A y \in Works : work'[y] = IF y = x THEN row ELSE work[y],
         r.occurrence = x => row.type = work[x].type /\ row.parent = work[x].parent
  PROVE  Waits(r, w, work'[w], work'[r.occurrence])
<1>1. row # None
  BY NoneIsNoRow
<1> QED
  BY <1>1, PendingTyped DEF Waits

(* An effect on one existing row. *)
LEMMA OneRowReviews ==
  ASSUME Inv, NEW c \in Calls, call[c] # None, ~Recorded(call[c].intent.op),
         NEW result \in 0..MaxVersion, Journaled(c, result), UNCHANGED <<asked, answered>>,
         Confirmed(c), NEW row \in Row,
         \A x \in Works : work'[x] = IF x = call[c].intent.work THEN row ELSE work[x],
         \A w \in Works : \A r \in Pending(w) :
           r.occurrence = call[c].intent.work =>
             row.parent = w /\ (row.type = "review" \/ call[c].intent.kind = "retype")
  PROVE  Knowingly
<1>1. PICK i : i = call[c].intent
  OBVIOUS
<1>2. i.work \in Works
  BY <1>1, CallTyped
<1>3. ASSUME NEW w \in Works, NEW r \in Pending(w), ~MayCancel(i, w, r)
      PROVE  Waits(r, w, work'[w], work'[r.occurrence])
  <2>1. i.work # w
    BY <1>1, <1>3 DEF Confirmed, MayCancel
  <2>2. r.occurrence = i.work => row.type = work[i.work].type /\ row.parent = work[i.work].parent
    BY <1>1, <1>3, PendingTyped DEF MayCancel
  <2> QED
    BY <1>1, <1>2, <2>1, <2>2, WaitsOn
<1> QED
  BY <1>1, <1>3, ReviewsCancelled

(* A replay and a refusal account for nothing new. *)
LEMMA AnswerAccounts ==
  ASSUME Inv, OneProducerEach, NEW c \in Calls, Replay(c) \/ Refuse(c)
  PROVE  Accounted
<1>1. UNCHANGED <<work, journal, asked>>
  BY DEF Replay, Refuse
<1> QED
  BY <1>1, QuietAccounts

(* protected_update *)
LEMMA UpdateAccounts ==
  ASSUME Inv, OneProducerEach, NEW c \in Calls, ProtectedUpdate(c) PROVE Accounted
<1>1. call[c] # None /\ call[c].intent.kind \in Updates
  BY DEF ProtectedUpdate, InFlight
<1>2. CASE Replay(c) \/ Refuse(c)
  BY <1>2, AnswerAccounts
<1>3. CASE ~(Replay(c) \/ Refuse(c))
  <2>1. PICK i : i = call[c].intent
    OBVIOUS
  <2>2. /\ ~Recorded(i.op) /\ RowAdmits(c) /\ Confirmed(c)
        /\ i.observed < MaxVersion
        /\ work' = [work EXCEPT ![i.work] = Scalars(work[i.work], i.kind)]
        /\ Journaled(c, i.observed + 1)
        /\ UNCHANGED <<grant, asked, answered>>
    BY <1>3, <2>1 DEF ProtectedUpdate
  <2>3. PICK row : row = Scalars(work[i.work], i.kind)
    OBVIOUS
  <2>4. work[i.work] \in Row /\ work[i.work].ver = i.observed /\ i.observed \in Nat
    BY <1>1, <2>1, <2>2, CallTyped, WorkConstants DEF WorkConstants, RowAdmits, Inv, WorkTypeOK, Exists
  <2>5. row \in Row /\ row.ver = i.observed + 1 /\ row.parent = work[i.work].parent
        /\ (i.kind # "retype" => row.type = work[i.work].type)
    BY <2>2, <2>3, <2>4, ScalarsTyped DEF Scalars
  <2>6. i.work \in Works /\ Exists(i.work)
        /\ \A x \in Works : work'[x] = IF x = i.work THEN row ELSE work[x]
    <3>1. i.work \in Works /\ Exists(i.work)
      BY <1>1, <2>1, <2>2, CallTyped DEF RowAdmits
    <3>2. \A x \in Works : work'[x] = IF x = i.work THEN row ELSE work[x]
      BY <2>2, <2>3, <3>1 DEF Inv, WorkTypeOK
    <3> QED
      BY <3>1, <3>2
  <2>7. i.observed + 1 \in 0..MaxVersion /\ i.observed <= i.observed + 1 /\ i.kind # "AMEND"
    BY <1>1, <2>1, <2>2, <2>4, WorkConstants DEF WorkConstants, Updates
  <2>8. OneProducerEach'
    BY <1>1, <2>1, <2>2, <2>4, <2>5, <2>6, <2>7, OneRowAccounts
  <2>9. ASSUME NEW w \in Works, NEW r \in Pending(w), r.occurrence = i.work
        PROVE  row.parent = w /\ (row.type = "review" \/ i.kind = "retype")
    BY <2>5, <2>9, PendingTyped
  <2>10. Knowingly
    BY <1>1, <2>1, <2>2, <2>5, <2>6, <2>7, <2>9, OneRowReviews
  <2> QED
    BY <2>8, <2>10 DEF Accounted
<1> QED
  BY <1>2, <1>3

(* CanonicalAppendGateway.append *)
LEMMA AppendAccounts ==
  ASSUME Inv, OneProducerEach, NEW c \in Calls, CanonicalAppend(c) PROVE Accounted
<1>1. call[c] # None /\ call[c].intent.kind = "append"
  BY DEF CanonicalAppend, InFlight
<1>2. CASE Replay(c) \/ Refuse(c)
  BY <1>2, AnswerAccounts
<1>3. CASE ~(Replay(c) \/ Refuse(c))
  <2>1. PICK i : i = call[c].intent
    OBVIOUS
  <2>2. /\ ~Recorded(i.op) /\ RowAdmits(c) /\ Confirmed(c)
        /\ i.observed < MaxVersion
        /\ work' = [work EXCEPT ![i.work] = Bumped(work[i.work])]
        /\ Journaled(c, i.observed + 1)
        /\ UNCHANGED <<grant, asked, answered>>
    BY <1>3, <2>1 DEF CanonicalAppend
  <2>3. PICK row : row = Bumped(work[i.work])
    OBVIOUS
  <2>4. work[i.work] \in Row /\ work[i.work].ver = i.observed /\ i.observed \in Nat
    BY <1>1, <2>1, <2>2, CallTyped, WorkConstants DEF WorkConstants, RowAdmits, Inv, WorkTypeOK, Exists
  <2>5. row \in Row /\ row.ver = i.observed + 1 /\ row.parent = work[i.work].parent
        /\ row.type = work[i.work].type
    BY <2>2, <2>3, <2>4, BumpedTyped DEF Bumped, Row
  <2>6. i.work \in Works /\ Exists(i.work)
        /\ \A x \in Works : work'[x] = IF x = i.work THEN row ELSE work[x]
    <3>1. i.work \in Works /\ Exists(i.work)
      BY <1>1, <2>1, <2>2, CallTyped DEF RowAdmits
    <3>2. \A x \in Works : work'[x] = IF x = i.work THEN row ELSE work[x]
      BY <2>2, <2>3, <3>1 DEF Inv, WorkTypeOK
    <3> QED
      BY <3>1, <3>2
  <2>7. i.observed + 1 \in 0..MaxVersion /\ i.observed <= i.observed + 1 /\ i.kind # "AMEND"
    BY <1>1, <2>1, <2>2, <2>4, WorkConstants DEF WorkConstants
  <2>8. OneProducerEach'
    BY <1>1, <2>1, <2>2, <2>4, <2>5, <2>6, <2>7, OneRowAccounts
  <2>9. ASSUME NEW w \in Works, NEW r \in Pending(w), r.occurrence = i.work
        PROVE  row.parent = w /\ row.type = "review"
    BY <2>5, <2>9, PendingTyped
  <2>10. Knowingly
    BY <1>1, <2>1, <2>2, <2>5, <2>6, <2>7, <2>9, OneRowReviews
  <2> QED
    BY <2>8, <2>10 DEF Accounted
<1> QED
  BY <1>2, <1>3

(* protected_relation: a real change is confirmed, and does not move a pending  *)
(* occurrence.                                                                 *)
LEMMA RelationAccounts ==
  ASSUME Inv, OneProducerEach, NEW c \in Calls, ProtectedRelation(c) PROVE Accounted
<1>1. call[c] # None /\ call[c].intent.kind \in Relations
  BY DEF ProtectedRelation, InFlight
<1>2. CASE Replay(c) \/ Refuse(c)
  BY <1>2, AnswerAccounts
<1>3. CASE ~(Replay(c) \/ Refuse(c))
  <2>1. PICK i : i = call[c].intent
    OBVIOUS
  <2>2. /\ ~Recorded(i.op) /\ RowAdmits(c) /\ ~HidesReview(i)
        /\ ChangesRelation(i) => Confirmed(c)
        /\ IF ChangesRelation(i)
           THEN /\ i.observed < MaxVersion
                /\ work' = [work EXCEPT ![i.work] = Related(work[i.work], i)]
                /\ Journaled(c, i.observed + 1)
           ELSE /\ UNCHANGED work
                /\ Journaled(c, i.observed)
        /\ UNCHANGED <<grant, asked, answered>>
    BY <1>3, <2>1 DEF ProtectedRelation
  <2>3. /\ i \in Intent /\ i.work \in Works /\ work[i.work] \in Row /\ Exists(i.work)
        /\ work[i.work].ver = i.observed /\ i.observed \in 0..MaxVersion /\ i.kind # "AMEND"
        /\ Fits(i)
    BY <1>1, <2>1, <2>2, CallTyped DEF RowAdmits, Inv, WorkTypeOK, Exists, Relations
  <2>4. CASE ~ChangesRelation(i)
    <3>1. UNCHANGED work /\ Journaled(c, i.observed) /\ UNCHANGED <<asked, answered>>
      BY <2>2, <2>4
    <3>2. \A x \in Works : work'[x] = IF x = i.work THEN work[i.work] ELSE work[x]
      BY <3>1
    <3>3. i.observed <= i.observed
      BY <2>3, WorkConstants DEF WorkConstants
    <3>4. OneProducerEach'
      BY <1>1, <2>1, <2>2, <2>3, <3>1, <3>2, <3>3, OneRowAccounts
    <3>5. \A w \in Works : \A r \in Pending(w) : Waits(r, w, work'[w], work'[r.occurrence])
      BY <3>1, PendingWaits
    <3>6. Knowingly
      BY <3>1, <3>5, ReviewsKept
    <3> QED
      BY <3>4, <3>6 DEF Accounted
  <2>5. CASE ChangesRelation(i)
    <3>1. /\ i.observed < MaxVersion /\ Journaled(c, i.observed + 1) /\ Confirmed(c)
          /\ work' = [work EXCEPT ![i.work] = Related(work[i.work], i)]
          /\ UNCHANGED <<asked, answered>>
      BY <2>2, <2>5
    <3>2. PICK row : row = Related(work[i.work], i)
      OBVIOUS
    <3>3. row \in Row
      BY <2>3, <3>1, <3>2, RelatedTyped DEF Fits
    <3>4. row.ver = i.observed + 1 /\ row.type = work[i.work].type
          /\ row.parent = IF i.kind = "parent" THEN i.target ELSE work[i.work].parent
      BY <2>3, <3>2 DEF Related
    <3>5. \A x \in Works : work'[x] = IF x = i.work THEN row ELSE work[x]
      BY <2>3, <3>1, <3>2 DEF Inv, WorkTypeOK
    <3>6. i.observed + 1 \in 0..MaxVersion /\ i.observed <= i.observed + 1
      BY <2>3, <3>1, WorkConstants DEF WorkConstants
    <3>7. OneProducerEach'
      BY <1>1, <2>1, <2>2, <2>3, <3>1, <3>3, <3>4, <3>5, <3>6, OneRowAccounts
    <3>8. ASSUME NEW w \in Works, NEW r \in Pending(w), r.occurrence = i.work
          PROVE  row.parent = w /\ (row.type = "review" \/ i.kind = "retype")
      <4>1. work[i.work].type = "review" /\ work[i.work].parent = w /\ w # None
        BY <3>8, PendingTyped
      <4>2. CASE i.kind = "parent"
        <5>1. w # i.target
          BY <2>5, <4>1, <4>2 DEF ChangesRelation
        <5>2. HidesReview(i)
          BY <3>8, <4>1, <4>2, <5>1 DEF HidesReview
        <5> QED
          BY <2>2, <5>2
      <4>3. CASE i.kind # "parent"
        BY <3>4, <4>1, <4>3
      <4> QED
        BY <4>2, <4>3
    <3>9. Knowingly
      BY <1>1, <2>1, <2>2, <3>1, <3>3, <3>5, <3>6, <3>8, OneRowReviews
    <3> QED
      BY <3>7, <3>9 DEF Accounted
  <2> QED
    BY <2>4, <2>5
<1> QED
  BY <1>2, <1>3

(* A new row for a work that does not exist: its first revision needs no producer, *)
(* and nothing waits for it.                                                     *)
LEMMA NewRowAccounts ==
  ASSUME Inv, NEW w \in Works, ~Exists(w), NEW row \in Row, row.ver = 1,
         work' = [work EXCEPT ![w] = row]
  PROVE  /\ \A x \in Works, v \in 2..MaxVersion : Reached(work'[x], v) <=> Reached(work[x], v)
         /\ \A x \in Works : \A r \in Pending(x) : Waits(r, x, work'[x], work'[r.occurrence])
<1>1. \A x \in Works : work'[x] = IF x = w THEN row ELSE work[x]
  BY DEF Inv, WorkTypeOK
<1>2. \A v \in 2..MaxVersion : ~Reached(row, v) /\ ~Reached(work[w], v)
  BY DEF Reached, Exists
<1>3. \A x \in Works, v \in 2..MaxVersion : Reached(work'[x], v) <=> Reached(work[x], v)
  BY <1>1, <1>2
<1>4. ASSUME NEW x \in Works, NEW r \in Pending(x)
      PROVE  Waits(r, x, work'[x], work'[r.occurrence])
  <2>1. x # w /\ r.occurrence # w /\ r.occurrence \in Works
    BY PendingTyped DEF Exists
  <2> QED
    BY <1>1, <2>1, PendingWaits
<1> QED
  BY <1>3, <1>4

(* protected_create *)
LEMMA CreateAccounts ==
  ASSUME Inv, OneProducerEach, NEW c \in Calls, ProtectedCreate(c) PROVE Accounted
<1>1. call[c] # None /\ call[c].intent.kind = "create"
  BY DEF ProtectedCreate, InFlight
<1>2. CASE Replay(c) \/ Refuse(c)
  BY <1>2, AnswerAccounts
<1>3. CASE ~(Replay(c) \/ Refuse(c))
  <2>1. PICK i : i = call[c].intent
    OBVIOUS
  <2>2. /\ ~Recorded(i.op) /\ Journaled(c, 1) /\ UNCHANGED <<grant, asked, answered>>
        /\ \E type \in {"task", "feedback"} :
             work' = [work EXCEPT ![i.work] = NewWork(i.target, type)]
    BY <1>3, <2>1 DEF ProtectedCreate
  <2>3. PICK type \in {"task", "feedback"} :
          work' = [work EXCEPT ![i.work] = NewWork(i.target, type)]
    BY <2>2
  <2>4. PICK row : row = NewWork(i.target, type)
    OBVIOUS
  <2>5. i.op \in Ops /\ i.work \in Works /\ i.work = WorkOf[i.op] /\ i.target \in Works \cup {None}
        /\ i.kind = "create"
    BY <1>1, <2>1, CallTyped DEF Fits, Intent
  <2>6. row \in Row /\ row.ver = 1
    BY <2>4, <2>5, NewWorkTyped DEF Type, NewWork
  <2>7. ~Exists(i.work)
    BY <2>2, <2>5 DEF Inv, CreatedByJournal
  <2>8. work' = [work EXCEPT ![i.work] = row]
    BY <2>3, <2>4
  <2>9. /\ \A x \in Works, v \in 2..MaxVersion : Reached(work'[x], v) <=> Reached(work[x], v)
        /\ \A x \in Works : \A r \in Pending(x) : Waits(r, x, work'[x], work'[r.occurrence])
    BY <2>5, <2>6, <2>7, <2>8, NewRowAccounts
  <2>10. journal[i.op] = None /\ journal'[i.op] = EntryOf(c, 1)
         /\ \A o \in Ops \ {i.op} : journal'[o] = journal[o]
    BY <1>1, <2>1, <2>2, JournalGains
  <2>11. ASSUME NEW w \in Works, NEW v \in 2..MaxVersion PROVE ~Counts(journal'[i.op], w, v)
    <3>1. journal'[i.op].intent.kind = "create" /\ journal'[i.op].result = 1
      BY <2>1, <2>5, <2>10 DEF EntryOf
    <3> QED
      BY <3>1 DEF Counts
  <2>12. OneProducerEach'
    BY <2>5, <2>9, <2>10, <2>11, AccountGrows
  <2>13. Knowingly
    BY <2>2, <2>9, ReviewsKept
  <2> QED
    BY <2>12, <2>13 DEF Accounted
<1> QED
  BY <1>2, <1>3

(* ReviewService.request *)
LEMMA RequestReviewAccounts ==
  ASSUME Inv, OneProducerEach, NEW q \in Review, RequestReview(q) PROVE Accounted
<1>1. asked' = asked \cup {q} /\ UNCHANGED <<journal, answered>>
  BY DEF RequestReview
<1>2. CASE UNCHANGED work
  BY <1>1, <1>2, QuietAccounts
<1>3. CASE ~UNCHANGED work
  <2>1. PICK row : row = NewWork(q.subject, "review")
    OBVIOUS
  <2>2. q.occurrence \in Works /\ q.subject \in Works
    BY WorkConstants DEF WorkConstants, Review
  <2>3. row \in Row /\ row.ver = 1
    BY <2>1, <2>2, NewWorkTyped DEF Type, NewWork
  <2>4. ~Exists(q.occurrence) /\ work' = [work EXCEPT ![q.occurrence] = row]
    BY <1>3, <2>1 DEF RequestReview
  <2>5. /\ \A x \in Works, v \in 2..MaxVersion : Reached(work'[x], v) <=> Reached(work[x], v)
        /\ \A x \in Works : \A r \in Pending(x) : Waits(r, x, work'[x], work'[r.occurrence])
    BY <2>2, <2>3, <2>4, NewRowAccounts
  <2>6. OneProducerEach'
    BY <1>1, <2>5, AccountKept
  <2>7. Knowingly
    BY <1>1, <2>5, ReviewsKept
  <2> QED
    BY <2>6, <2>7 DEF Accounted
<1> QED
  BY <1>2, <1>3

(* protected_feedback_classification: the source gains one revision, or two when  *)
(* it moves, and an amended target gains one.                                    *)
LEMMA ClassifyAccounts ==
  ASSUME Inv, OneProducerEach, NEW c \in Calls, ProtectedClassify(c) PROVE Accounted
<1>1. call[c] # None /\ call[c].intent.kind \in Classes
  BY DEF ProtectedClassify, InFlight
<1>2. CASE Refuse(c)
  BY <1>2, AnswerAccounts
<1>3. CASE ~Refuse(c)
  <2>1. PICK i : i = call[c].intent
    OBVIOUS
  <2>2. /\ ~Recorded(i.op)
        /\ Exists(i.work) /\ work[i.work].type = "feedback" /\ i.observed = work[i.work].ver
        /\ i.target # None => /\ Exists(i.target) /\ work[i.target].type = "feedback"
                              /\ i.seen = work[i.target].ver
        /\ i.observed + 1 < MaxVersion /\ i.seen < MaxVersion
        /\ work' = Classified(i)
        /\ Journaled(c, ClassifiedSource(i).ver)
        /\ UNCHANGED <<grant, asked, answered>>
    BY <1>3, <2>1 DEF ProtectedClassify
  <2>3. /\ i \in Intent /\ i.work \in Works /\ Fits(i) /\ work[i.work] \in Row
        /\ i.observed \in Nat /\ i.seen \in Nat /\ i.kind \in Classes
    BY <1>1, <2>1, <2>2, CallTyped, WorkConstants DEF WorkConstants, Inv, WorkTypeOK, Exists
  <2>4. PICK row : row = ClassifiedSource(i)
    OBVIOUS
  <2>5. row \in Row /\ row.ver \in 0..MaxVersion
    BY <2>2, <2>3, <2>4, ClassifiedSourceTyped
  <2>6. row.ver \in Nat /\ i.observed <= row.ver
    <3>1. row.ver = i.observed + IF Moves(i) THEN 2 ELSE 1
      BY <2>2, <2>4 DEF ClassifiedSource
    <3> QED
      BY <2>3, <3>1
  <2>7. Journaled(c, row.ver) /\ UNCHANGED <<asked, answered>>
    BY <2>2, <2>4
  <2>8. CASE i.kind # "AMEND"
    <3>1. work' = [work EXCEPT ![i.work] = row]
      BY <2>2, <2>4, <2>8 DEF Classified
    <3>2. \A x \in Works : work'[x] = IF x = i.work THEN row ELSE work[x]
      BY <2>3, <3>1 DEF Inv, WorkTypeOK
    <3>3. OneProducerEach'
      BY <1>1, <2>1, <2>2, <2>5, <2>6, <2>7, <2>8, <3>2, OneRowAccounts
    <3>4. ASSUME NEW w \in Works, NEW r \in Pending(w), ~MayCancel(i, w, r)
          PROVE  Waits(r, w, work'[w], work'[r.occurrence])
      <4>1. w # i.work /\ r.occurrence # i.work
        BY <2>2, <2>3, <3>4, PendingTyped DEF MayCancel
      <4> QED
        BY <2>3, <2>5, <3>2, <4>1, WaitsOn
    <3>5. Knowingly
      BY <1>1, <2>1, <2>2, <2>5, <2>7, <3>4, ReviewsCancelled
    <3> QED
      BY <3>3, <3>5 DEF Accounted
  <2>9. CASE i.kind = "AMEND"
    <3>1. /\ i.target \in Works \ {i.work} /\ Exists(i.target) /\ work[i.target] \in Row
          /\ work[i.target].type = "feedback" /\ work[i.target].ver = i.seen
      BY <2>2, <2>3, <2>9, NoneIsNoRow DEF Fits, Inv, WorkTypeOK, Exists
    <3>2. PICK next : next = Bumped(work[i.target])
      OBVIOUS
    <3>3. next \in Row /\ next.ver = i.seen + 1
      BY <2>2, <3>1, <3>2, BumpedTyped DEF Bumped, Row
    <3>4. work' = [work EXCEPT ![i.work] = row, ![i.target] = next]
      BY <2>2, <2>4, <2>9, <3>2 DEF Classified
    <3>5. \A x \in Works : work'[x] = IF x = i.target THEN next
                                      ELSE IF x = i.work THEN row ELSE work[x]
      BY <2>3, <3>1, <3>4 DEF Inv, WorkTypeOK
    <3>6. PICK e : e = EntryOf(c, row.ver)
      OBVIOUS
    <3>7. e.effect = "applied" /\ e.intent = i /\ e.result = row.ver /\ e # None
      <4>1. e \in Entry
        BY <1>1, <2>5, <3>6, EntryOfTyped DEF Inv
      <4> QED
        BY <2>1, <3>6, <4>1, NoneIsNoRow DEF EntryOf
    <3>8. i.op \in Ops /\ journal[i.op] = None /\ journal'[i.op] = e
          /\ \A o \in Ops \ {i.op} : journal'[o] = journal[o]
      BY <1>1, <2>1, <2>2, <2>7, <3>6, JournalGains
    <3>9. row # None /\ next # None /\ work[i.work] # None /\ work[i.target] # None
      BY <2>2, <2>5, <3>1, <3>3, NoneIsNoRow DEF Exists
    <3>10. ASSUME NEW w \in Works, NEW v \in 2..MaxVersion
           PROVE  /\ Reached(work[w], v) => Reached(work'[w], v)
                  /\ Counts(journal'[i.op], w, v) <=> Reached(work'[w], v) /\ ~Reached(work[w], v)
      <4>1. v \in Nat
        OBVIOUS
      <4>2. Counts(e, w, v) <=> \/ i.work = w /\ i.observed < v /\ v <= row.ver
                                \/ i.target = w /\ v = i.seen + 1
        BY <2>9, <3>7 DEF Counts
      <4>3. CASE w = i.work
        <5>1. work'[w] = row /\ w # i.target
          BY <3>1, <3>5, <4>3
        <5>2. Reached(work'[w], v) <=> v <= row.ver
          BY <3>9, <5>1 DEF Reached
        <5>3. Reached(work[w], v) <=> v <= i.observed
          BY <2>2, <3>9, <4>3 DEF Reached
        <5> QED
          BY <2>3, <2>6, <3>8, <4>1, <4>2, <4>3, <5>1, <5>2, <5>3
      <4>4. CASE w = i.target
        <5>1. work'[w] = next /\ w # i.work
          BY <3>1, <3>5, <4>4
        <5>2. Reached(work'[w], v) <=> v <= i.seen + 1
          BY <3>3, <3>9, <5>1 DEF Reached
        <5>3. Reached(work[w], v) <=> v <= i.seen
          BY <3>1, <3>9, <4>4 DEF Reached
        <5> QED
          BY <2>3, <3>8, <4>1, <4>2, <4>4, <5>1, <5>2, <5>3
      <4>5. CASE w \notin {i.work, i.target}
        BY <3>5, <3>8, <4>2, <4>5
      <4> QED
        BY <4>3, <4>4, <4>5
    <3>11. OneProducerEach'
      BY <3>8, <3>10, AccountGrows
    <3>12. ASSUME NEW w \in Works, NEW r \in Pending(w), ~MayCancel(i, w, r)
           PROVE  Waits(r, w, work'[w], work'[r.occurrence])
      <4>1. w \notin {i.work, i.target}
        BY <2>3, <3>12 DEF MayCancel
      <4>2. r.occurrence \notin {i.work, i.target} /\ r.occurrence \in Works
        BY <2>2, <3>1, PendingTyped
      <4> QED
        BY <3>5, <4>1, <4>2, PendingWaits
    <3>13. Knowingly
      BY <1>1, <2>1, <2>2, <2>5, <2>7, <3>12, ReviewsCancelled
    <3> QED
      BY <3>11, <3>13 DEF Accounted
  <2> QED
    BY <2>8, <2>9
<1> QED
  BY <1>2, <1>3

(* The imported rows are at their first revision. *)
LEMMA InitAccounts == Init => OneProducerEach
<1> SUFFICES ASSUME Init PROVE OneProducerEach
  OBVIOUS
<1>1. \A w \in Works : work[w] # None => work[w].ver = 1
  BY WorkConstants DEF WorkConstants, Init, NewWork
<1>2. \A w \in Works, v \in 2..MaxVersion : ~Reached(work[w], v)
  BY <1>1 DEF Reached
<1>3. \A o \in Ops : journal[o] # None => journal[o].effect = "unknown"
  <2>1. CASE journal = NoJournal
    BY <2>1 DEF NoJournal
  <2>2. ASSUME NEW p, NEW x \in Ops, NEW w, journal = [NoJournal EXCEPT ![x] = UnknownIntent(p, x, w)]
        PROVE  \A o \in Ops : journal[o] # None => journal[o].effect = "unknown"
    <3>1. \A o \in Ops : journal[o] = IF o = x THEN UnknownIntent(p, x, w) ELSE None
      BY <2>2 DEF NoJournal
    <3>2. UnknownIntent(p, x, w).effect = "unknown"
      BY DEF UnknownIntent
    <3> QED
      BY <3>1, <3>2
  <2> QED
    BY <2>1, <2>2 DEF Init
<1> QED
  BY <1>2, <1>3 DEF OneProducerEach, Counts

(* Every step is accounted for. *)
LEMMA NextAccounts == Inv /\ OneProducerEach /\ [Next]_vars => Accounted
<1> SUFFICES ASSUME Inv, OneProducerEach, [Next]_vars PROVE Accounted
  OBVIOUS
<1>1. CASE UNCHANGED vars
  BY <1>1, QuietAccounts DEF vars
<1>2. ASSUME NEW c \in Calls, NEW p \in Principals, NEW o \in Ops,
             CallOnWork(c, p, o) \/ CallCreate(c, p, o) \/ CallClassify(c, p, o)
      PROVE  Accounted
  <2>1. UNCHANGED <<work, journal, asked>>
    BY <1>2 DEF CallOnWork, CallCreate, CallClassify, Call
  <2> QED
    BY <2>1, QuietAccounts
<1>3. ASSUME NEW c \in Calls, Abandon(c) \/ LookUp(c) PROVE Accounted
  <2>1. UNCHANGED <<work, journal, asked>>
    BY <1>3 DEF Abandon, LookUp, Replay
  <2> QED
    BY <2>1, QuietAccounts
<1>4. ASSUME NEW c \in Calls,
             \/ ProtectedUpdate(c) \/ CanonicalAppend(c) \/ ProtectedRelation(c)
             \/ ProtectedCreate(c) \/ ProtectedClassify(c)
      PROVE  Accounted
  BY <1>4, UpdateAccounts, AppendAccounts, RelationAccounts, CreateAccounts, ClassifyAccounts
<1>5. ASSUME NEW p \in Principals, NEW a \in Authorities, NEW b \in BOOLEAN, Issue(p, a, b)
      PROVE  Accounted
  BY <1>5, QuietAccounts DEF Issue
<1>6. ASSUME NEW r \in Review, RequestReview(r) \/ RecordOutcome(r) PROVE Accounted
  BY <1>6, RequestReviewAccounts, QuietAccounts DEF RecordOutcome
<1> QED
  BY <1>1, <1>2, <1>3, <1>4, <1>5, <1>6 DEF Next

(* The account is kept in every behaviour. *)
LEMMA AccountHolds == Spec => []OneProducerEach
<1>1. Inv /\ OneProducerEach /\ [Next]_vars => OneProducerEach'
  BY NextAccounts DEF Accounted
<1> QED
  BY <1>1, InitAccounts, InvHolds, PTL DEF Spec

(* Every revision of every work after its first is the doing of exactly one       *)
(* journaled effect, and no receipt claims a revision the work has not had: no     *)
(* update is lost between writers that saw the same revision, no retry applies     *)
(* twice, and nothing changes a work without a receipt.                           *)
THEOREM WorkStaysAccountedFor == Spec => []WorkIsAccountedFor
<1>1. Inv /\ OneProducerEach => WorkIsAccountedFor
  BY OneProducerCounts DEF Inv, WorkIsAccountedFor
<1> QED
  BY <1>1, InvHolds, AccountHolds, PTL

(* A pending review stops being pending only by its outcome, by a confirmed        *)
(* revision of its subject, by a classification of it, or by a retyping of the     *)
(* occurrence: whatever the calls in flight, no other step cancels or hides it.     *)
THEOREM ReviewsAreCancelledKnowingly == Spec => PendingReviewIsCancelledKnowingly
<1>1. Inv /\ OneProducerEach /\ [Next]_vars =>
        \A w \in Works : \A r \in Pending(w) :
          r \notin Pending(w)' =>
            \/ r \in answered'
            \/ \E o \in Ops :
                 /\ ~Recorded(o) /\ Recorded(o)'
                 /\ LET i == journal'[o].intent
                    IN  \/ i.work = w /\ i.confirm
                        \/ i.kind \in Classes /\ w \in {i.work, i.target}
                        \/ i.kind = "retype" /\ i.work = r.occurrence
  BY NextAccounts DEF Accounted, Knowingly, MayCancel
<1> QED
  BY <1>1, InvHolds, AccountHolds, PTL DEF Spec, PendingReviewIsCancelledKnowingly
=============================================================================
