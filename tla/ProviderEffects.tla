--------------------------- MODULE ProviderEffects ---------------------------
(***************************************************************************)
(* Effects on the external tracker (tracker/appends.py, updates.py,       *)
(* provider_relations.py, creates.py over mutation_effect.py,             *)
(* grant_state.py and provider.py).  A call holds the row locks of its    *)
(* principal's grant and of its target work, journals an intent as        *)
(* UNKNOWN in a transaction of its own, sends, reads back and records the *)
(* verdict.  Answers get lost, requests arrive late, calls die at any     *)
(* step; a retry of the same operation finds the journal.                 *)
(*                                                                         *)
(* A refused call leaves no trace and is no step: the guards below are    *)
(* the conditions under which the code goes on.                           *)
(***************************************************************************)
EXTENDS Naturals

CONSTANTS
  PeCallers,      \* principals, each with one call at a time
  PeOps,          \* operation ids
  PeWorks,        \* works bound to provider tasks
  PeValues,       \* values of a task's fields, the admission projects among them
  PeKinds,        \* operation kinds the clients use
  MaxEvents, MaxCalls  \* bounds

VARIABLES
  peOps,          \* what each operation asks for: kind, work, want
  peGrants,       \* principal -> version, current
  peJournal,      \* effect_intents: operation -> who, version, seen, effect
  peTasks,        \* provider tasks: rev, open, scalar, relation, projects
  peBound,        \* created works bound in work_handles
  peWire,         \* requests whose answer was lost and that may still arrive
  peLanded,       \* how often each operation took effect (observer)
  peCalls,        \* principal -> the call it has in progress
  peEvents, peCount \* edits in the tracker, grants reissued or expired; calls begun

peVars == <<peOps, peGrants, peJournal, peTasks, peBound, peWire, peLanded,
            peCalls, peEvents, peCount>>

Root == "root"    \* a create without a parent

PeRequests ==
  [kind : PeKinds \cap {"update", "relate", "move"}, work : PeWorks, want : PeValues]
    \cup [kind : PeKinds \cap {"append"}, work : PeWorks, want : {"text"}]
    \cup [kind : PeKinds \cap {"create"}, work : PeWorks \cup {Root}, want : {"text"}]

NoCall == [pc |-> "idle"]
NoIntent == [effect |-> "none"]

ASSUME ProviderConstants ==
  /\ PeKinds \subseteq {"append", "update", "relate", "move", "create"}
  /\ Root \notin PeWorks
  /\ MaxEvents \in Nat /\ MaxCalls \in Nat

PeTypeOK ==
  /\ peOps \in [PeOps -> PeRequests]
  /\ peGrants \in [PeCallers -> [version : 1..MaxEvents + 1, current : BOOLEAN]]
  /\ \A o \in PeOps : peJournal[o].effect \in {"none", "unknown", "applied", "not_sent"}
  /\ \A w \in PeWorks : peTasks[w].projects \subseteq PeValues
  /\ peBound \subseteq PeOps
  /\ \A m \in peWire : m.op \in PeOps
  /\ peLanded \in [PeOps -> Nat]
  /\ \A c \in PeCallers : peCalls[c].pc \in
       {"idle", "admitted", "prepared", "reading", "adding", "removing",
        "readback", "recover", "finish"}

PeInit ==
  /\ peOps \in [PeOps -> PeRequests]
  /\ peGrants = [c \in PeCallers |-> [version |-> 1, current |-> TRUE]]
  /\ peJournal = [o \in PeOps |-> NoIntent]
  /\ \E v \in PeValues :
       peTasks = [w \in PeWorks |-> [rev |-> 0, open |-> TRUE, scalar |-> v,
                                     relation |-> v, projects |-> {v}]]
  /\ peBound = {} /\ peWire = {}
  /\ peLanded = [o \in PeOps |-> 0]
  /\ peCalls = [c \in PeCallers |-> NoCall]
  /\ peEvents = 0 /\ peCount = 0

-----------------------------------------------------------------------------
(* The tracker.  A request changes one task; a create makes another.      *)

Kind(o) == peOps[o].kind
Work(o) == peOps[o].work
Want(o) == peOps[o].want

\* What a request of each kind does to its task.
Updated(t, o) == [t EXCEPT !.scalar = Want(o), !.rev = @ + 1]
Related(t, o) == [t EXCEPT !.relation = Want(o), !.rev = @ + 1]
Appended(t) == [t EXCEPT !.rev = @ + 1]
Placed(t, project) == [t EXCEPT !.projects = @ \cup {project}, !.rev = @ + 1]
Displaced(t, project) == [t EXCEPT !.projects = @ \ {project}, !.rev = @ + 1]

\* Effect of the request m = [op, part, project].
Changed(t, m) ==
  CASE m.part = "add" -> Placed(t, m.project)
    [] m.part = "remove" -> Displaced(t, m.project)
    [] m.part = "update" -> Updated(t, m.op)
    [] m.part = "relate" -> Related(t, m.op)
    [] m.part = "append" -> Appended(t)

Lands(m) ==
  /\ peTasks' = IF m.part = "create" THEN peTasks
                ELSE [peTasks EXCEPT ![Work(m.op)] = Changed(@, m)]
  /\ peLanded' = [peLanded EXCEPT ![m.op] = @ + 1]

\* _write: the answer arrives, the request is refused for certain, or a
\* transport or server error leaves the effect unknown.
Written(m, result) ==
  \/ result = "answered" /\ Lands(m) /\ UNCHANGED peWire
  \/ result = "rejected" /\ UNCHANGED <<peTasks, peLanded, peWire>>
  \/ result = "unknown" /\ peWire' = peWire \cup {m} /\ UNCHANGED <<peTasks, peLanded>>

PeLateArrival ==
  \E m \in peWire :
    /\ peWire' = peWire \ {m}
    /\ Lands(m) \/ UNCHANGED <<peTasks, peLanded>>
    /\ UNCHANGED <<peOps, peGrants, peJournal, peBound, peCalls, peEvents, peCount>>

\* Somebody edits the task in the tracker itself.
PeEdit ==
  \E w \in PeWorks, v \in PeValues, open \in BOOLEAN :
    /\ peEvents < MaxEvents /\ peEvents' = peEvents + 1
    /\ peTasks' = [peTasks EXCEPT ![w] = [rev |-> @.rev + 1, open |-> open, scalar |-> v,
                                          relation |-> v, projects |-> {v}]]
    /\ UNCHANGED <<peOps, peGrants, peJournal, peBound, peWire, peLanded, peCalls, peCount>>

ScalarMatches(o) == peTasks[Work(o)].scalar = Want(o)

RelationMatches(o) ==
  IF Kind(o) = "move" THEN peTasks[Work(o)].projects = {Want(o)}
  ELSE peTasks[Work(o)].relation = Want(o)

Matches(o) == IF Kind(o) = "update" THEN ScalarMatches(o) ELSE RelationMatches(o)

-----------------------------------------------------------------------------
(* Grants and the journal.                                                *)

Busy(c) == peCalls[c].pc # "idle"

\* locked: the rows of the principal's grant and of the work.
Locked(c, w) ==
  /\ ~Busy(c)
  /\ \A d \in PeCallers \ {c} : Busy(d) => Work(peCalls[d].op) # w \/ w = Root

Reissued(grant) == [version |-> grant.version + 1, current |-> TRUE]

PeIssue ==
  \E c \in PeCallers :
    /\ ~Busy(c)
    /\ peEvents < MaxEvents /\ peEvents' = peEvents + 1
    /\ peGrants' = [peGrants EXCEPT ![c] = Reissued(@)]
    /\ UNCHANGED <<peOps, peJournal, peTasks, peBound, peWire, peLanded, peCalls, peCount>>

\* The clock passes the end of a grant, in the middle of a call too.
PeExpire ==
  \E c \in PeCallers :
    /\ peGrants[c].current
    /\ peEvents < MaxEvents /\ peEvents' = peEvents + 1
    /\ peGrants' = [peGrants EXCEPT ![c].current = FALSE]
    /\ UNCHANGED <<peOps, peJournal, peTasks, peBound, peWire, peLanded, peCalls, peCount>>

Recorded(o) == peJournal[o].effect # "none"
Unresolved(o) == peJournal[o].effect = "unknown"

PreviousOfOperation(o, w) == {p \in PeOps : p = o /\ Recorded(p)}

\* previous: the operation's own row and every unresolved one of its target.
\* The intent of a create carries the work it makes, not the parent.
Previous(o, w) ==
  {p \in PeOps : (p = o /\ Recorded(p))
                   \/ (Unresolved(p) /\ Kind(p) # "create" /\ Work(p) = w)}

\* unresolved_create: an unresolved create under the same parent.
UnresolvedCreate(w) ==
  w # Root /\ \E p \in PeOps : Unresolved(p) /\ Kind(p) = "create" /\ Work(p) = w

Granted(c, version) == peGrants[c].current /\ version = peGrants[c].version

Revisions == UNION {0..peTasks[w].rev : w \in PeWorks}

\* The target is as the caller saw it.
SourceCurrent(o, seen) == seen = peTasks[Work(o)].rev

Begin(c, o, version, seen, pc) ==
  /\ peCount < MaxCalls /\ peCount' = peCount + 1
  /\ peCalls' = [peCalls EXCEPT ![c] = [pc |-> pc, op |-> o, version |-> version,
                   seen |-> seen, out |-> "unknown", todo |-> {}, again |-> FALSE]]
  /\ UNCHANGED <<peOps, peGrants, peJournal, peTasks, peBound, peWire, peLanded, peEvents>>

\* AppendGateway.append: the grant first, then the journal; a recorded
\* append is answered from the journal and never looked at again.
PeAppend(c, o, version, seen) ==
  /\ Kind(o) = "append" /\ Locked(c, Work(o))
  /\ Granted(c, version)
  /\ Previous(o, Work(o)) = {}
  /\ peTasks[Work(o)].open /\ SourceCurrent(o, seen)
  /\ Begin(c, o, version, seen, "admitted")

\* run_update_or_relation: the operation's own record first.
Mutate(c, o, version, seen) ==
  /\ Locked(c, Work(o))
  /\ ~Recorded(o)
  /\ Granted(c, version)
  /\ Previous(o, Work(o)) = {}
  /\ Begin(c, o, version, seen, "admitted")

PeUpdate(c, o, version, seen) ==
  Kind(o) = "update" /\ SourceCurrent(o, seen) /\ Mutate(c, o, version, seen)

PeRelate(c, o, version, seen) ==
  Kind(o) \in {"relate", "move"} /\ SourceCurrent(o, seen) /\ Mutate(c, o, version, seen)

\* CreateGateway.create: no revision, but one create at a time per parent.
PeCreate(c, o, version) ==
  /\ Kind(o) = "create" /\ Locked(c, Work(o))
  /\ ~Recorded(o)
  /\ ~UnresolvedCreate(Work(o))
  /\ Granted(c, version)
  /\ Work(o) # Root => peTasks[Work(o)].open
  /\ Begin(c, o, version, 0, "admitted")

\* The same request again, its record still UNKNOWN: read, do not send.
PeRetry(c, o, version, seen) ==
  /\ Kind(o) # "append" /\ Locked(c, Work(o))
  /\ Unresolved(o)
  /\ peJournal[o].who = c /\ peJournal[o].version = version /\ peJournal[o].seen = seen
  /\ Begin(c, o, version, seen, "recover")

\* prepare commits on a connection of its own; the operation id is the key
\* of the journal, so of two creates without a parent the second fails.
PePrepare(c) ==
  LET call == peCalls[c] IN
  /\ call.pc = "admitted" /\ ~Recorded(call.op)
  /\ peJournal' = [peJournal EXCEPT ![call.op] =
       [who |-> c, version |-> call.version, seen |-> call.seen, effect |-> "unknown"]]
  /\ peCalls' = [peCalls EXCEPT ![c].pc = "prepared"]
  /\ UNCHANGED <<peOps, peGrants, peTasks, peBound, peWire, peLanded, peEvents, peCount>>

Goto(c, pc, out) == peCalls' = [peCalls EXCEPT ![c].pc = pc, ![c].out = out]

PeExpiredBeforeSend(c) ==
  /\ peCalls[c].pc = "prepared" /\ ~peGrants[c].current
  /\ Goto(c, "finish", "not_sent")
  /\ UNCHANGED <<peOps, peGrants, peJournal, peTasks, peBound, peWire, peLanded,
                 peEvents, peCount>>

-----------------------------------------------------------------------------
(* Sending.                                                               *)

\* An unanswered append is not read back.
AppendSent(c, result) ==
  CASE result = "answered" -> Goto(c, "readback", "unknown")
    [] result = "rejected" -> Goto(c, "finish", "not_sent")
    [] result = "unknown" -> Goto(c, "finish", "unknown")

\* An unanswered update or relation is.
UpdateSent(c, result) ==
  IF result = "rejected" THEN Goto(c, "finish", "not_sent") ELSE Goto(c, "readback", "unknown")

RelationSent(c, result) == UpdateSent(c, result)

CreateSentUnknownRejected(c, result) ==
  IF result = "answered" THEN Goto(c, "readback", "unknown") ELSE Goto(c, "finish", "not_sent")

\* An unanswered create can only be found through its binding.
CreateSent(c, result) ==
  CASE result = "answered" -> Goto(c, "readback", "unknown")
    [] result = "rejected" -> Goto(c, "finish", "not_sent")
    [] result = "unknown" -> Goto(c, "recover", "unknown")

PeSend(c) ==
  \E result \in {"answered", "rejected", "unknown"} :
    LET o == peCalls[c].op IN
    /\ peCalls[c].pc = "prepared" /\ Kind(o) # "move" /\ peGrants[c].current
    /\ Written([op |-> o, part |-> Kind(o), project |-> "-"], result)
    /\ CASE Kind(o) = "append" -> AppendSent(c, result)
         [] Kind(o) = "update" -> UpdateSent(c, result)
         [] Kind(o) = "relate" -> RelationSent(c, result)
         [] Kind(o) = "create" -> CreateSent(c, result)
    /\ UNCHANGED <<peOps, peGrants, peJournal, peBound, peEvents, peCount>>

\* _move_placement reads the memberships and decides what to write.  A read
\* that fails before any write proves that nothing was sent.
MoveTodo(c, o) ==
  LET projects == peTasks[Work(o)].projects IN
  peCalls' = [peCalls EXCEPT
    ![c].pc = IF Want(o) \in projects THEN "removing" ELSE "adding",
    ![c].todo = projects \ {Want(o)}]

PeMoveBegin(c) ==
  LET call == peCalls[c] IN
  /\ \/ call.pc = "prepared" /\ Kind(call.op) = "move" /\ peGrants[c].current
     \/ call.pc = "reading"
  /\ \/ MoveTodo(c, call.op)
     \/ IF call.again THEN Goto(c, "readback", "unknown") ELSE Goto(c, "finish", "not_sent")
  /\ UNCHANGED <<peOps, peGrants, peJournal, peTasks, peBound, peWire, peLanded,
                 peEvents, peCount>>

\* addProject, then the memberships are read again.
PeMoveAdd(c) ==
  \E result \in {"answered", "rejected", "unknown"} :
    LET o == peCalls[c].op
        todo == peTasks'[Work(o)].projects \ {Want(o)} IN
    /\ peCalls[c].pc = "adding"
    /\ Written([op |-> o, part |-> "add", project |-> Want(o)], result)
    /\ IF result = "answered"
       THEN peCalls' = [peCalls EXCEPT ![c].pc = "removing", ![c].todo = todo]
       ELSE Goto(c, "readback", "unknown")
    /\ UNCHANGED <<peOps, peGrants, peJournal, peBound, peEvents, peCount>>

PeMoveRemove(c) ==
  \E result \in {"answered", "rejected", "unknown"}, p \in PeValues :
    LET o == peCalls[c].op IN
    /\ peCalls[c].pc = "removing" /\ p \in peCalls[c].todo
    /\ Written([op |-> o, part |-> "remove", project |-> p], result)
    /\ IF result = "answered"
       THEN peCalls' = [peCalls EXCEPT ![c].todo = @ \ {p}]
       ELSE Goto(c, "readback", "unknown")
    /\ UNCHANGED <<peOps, peGrants, peJournal, peBound, peEvents, peCount>>

PeMoveEnd(c) ==
  /\ peCalls[c].pc = "removing" /\ peCalls[c].todo = {}
  /\ Goto(c, "readback", "unknown")
  /\ UNCHANGED <<peOps, peGrants, peJournal, peTasks, peBound, peWire, peLanded,
                 peEvents, peCount>>

-----------------------------------------------------------------------------
(* Reading back and recording the verdict.                                *)

\* An answered append or create is read by the id in the answer, an update
\* or relation by the state it asked for.
Confirmed(o) == IF Kind(o) \in {"append", "create"} THEN TRUE ELSE Matches(o)

\* _applied binds the reserved work of a create before the verdict.
PeReadback(c) ==
  LET o == peCalls[c].op IN
  /\ peCalls[c].pc = "readback"
  /\ \/ /\ Confirmed(o)
        /\ Goto(c, "finish", "applied")
        /\ peBound' = IF Kind(o) = "create" THEN peBound \cup {o} ELSE peBound
     \/ /\ ~(Confirmed(o) /\ Kind(o) \in {"update", "relate", "move"})
        /\ Goto(c, "finish", "unknown") /\ UNCHANGED peBound
  /\ UNCHANGED <<peOps, peGrants, peJournal, peTasks, peWire, peLanded, peEvents, peCount>>

\* _reconcile.  A create is recovered through its binding only: the tracker
\* offers no search.  A move that does not match is sent again.
RecoverCreate(c, o) == Goto(c, "finish", IF o \in peBound THEN "applied" ELSE "unknown")

RecoverUpdate(c, o) == Goto(c, "readback", "unknown")

RecoverRelation(c, o) ==
  IF Kind(o) = "move" /\ ~Matches(o)
  THEN peCalls' = [peCalls EXCEPT ![c].pc = "reading", ![c].again = TRUE]
  ELSE Goto(c, "readback", "unknown")

PeRecover(c) ==
  LET o == peCalls[c].op IN
  /\ peCalls[c].pc = "recover"
  /\ CASE Kind(o) = "create" -> RecoverCreate(c, o)
       [] Kind(o) = "update" -> RecoverUpdate(c, o)
       [] OTHER -> RecoverRelation(c, o)
  /\ UNCHANGED <<peOps, peGrants, peJournal, peTasks, peBound, peWire, peLanded,
                 peEvents, peCount>>

\* finish, and the locks are released.
PeFinish(c) ==
  LET call == peCalls[c] IN
  /\ call.pc = "finish"
  /\ peJournal' = [peJournal EXCEPT ![call.op].effect = call.out]
  /\ peCalls' = [peCalls EXCEPT ![c] = NoCall]
  /\ UNCHANGED <<peOps, peGrants, peTasks, peBound, peWire, peLanded, peEvents, peCount>>

\* The process dies, a read or a commit fails, the caller is cancelled: the
\* locks go, the journal stays.
PeAbandon(c) ==
  /\ Busy(c)
  /\ peCalls' = [peCalls EXCEPT ![c] = NoCall]
  /\ UNCHANGED <<peOps, peGrants, peJournal, peTasks, peBound, peWire, peLanded,
                 peEvents, peCount>>

PeNext ==
  \/ PeLateArrival \/ PeEdit \/ PeIssue \/ PeExpire
  \/ \E c \in PeCallers :
       \/ \E o \in PeOps, version \in 1..MaxEvents + 1 :
            \/ PeCreate(c, o, version)
            \/ \E seen \in Revisions :
                 \/ PeAppend(c, o, version, seen)
                 \/ PeUpdate(c, o, version, seen)
                 \/ PeRelate(c, o, version, seen)
                 \/ PeRetry(c, o, version, seen)
       \/ PePrepare(c) \/ PeExpiredBeforeSend(c) \/ PeSend(c)
       \/ PeMoveBegin(c) \/ PeMoveAdd(c) \/ PeMoveRemove(c) \/ PeMoveEnd(c)
       \/ PeReadback(c) \/ PeRecover(c) \/ PeFinish(c) \/ PeAbandon(c)

PeSpec == PeInit /\ [][PeNext]_peVars

-----------------------------------------------------------------------------
(* Properties.                                                            *)

\* The gateways keep the promise of EffectOnce: an append or a create takes
\* effect once at most and only while its verdict is open, an operation
\* reported as not sent never takes effect, not even from a request that
\* arrives late, and no verdict is ever revised.
Once == INSTANCE EffectOnce WITH
  Operations <- PeOps,
  promise <- [o \in PeOps |-> CASE Kind(o) \in {"append", "create"} -> "exact"
                                [] Kind(o) = "move" -> "repeatable"
                                [] OTHER -> "converging"],
  verdict <- [o \in PeOps |-> peJournal[o].effect],
  effects <- peLanded

EffectsHappenAsRecorded == Once!OnceSpec

\* grant_state.previous and unresolved_create: whoever calls, at most one
\* effect on a work is unresolved, and at most one create under a parent.
OneUnresolvedEffect ==
  \A o, p \in PeOps :
    Unresolved(o) /\ Unresolved(p) /\ Work(o) = Work(p) /\ Work(o) # Root
      /\ (Kind(o) = "create") = (Kind(p) = "create") => o = p

\* The journal of the provider-backed gateways, through lost answers, retries and
\* rotations of the grant: at most one unresolved effect per task.
JournalIsSound ==
  PeTypeOK /\ OneUnresolvedEffect
=============================================================================
