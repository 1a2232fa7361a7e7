------------------------ MODULE ProviderEffectsProofs ------------------------
(***************************************************************************)
(* What ProviderEffects and, at the end, TokenRefresh guarantee for every    *)
(* value of their constants.  For any callers, operations, works and        *)
(* bounds: the journal is sound, and the gateways implement EffectOnce.     *)
(*                                                                         *)
(* The argument: a call past its admission owns the journal row of its      *)
(* operation (the row names it and is unresolved), so at most one call acts  *)
(* for an operation; before that call sends, the operation has neither taken *)
(* effect nor a request on the way, and it is reported as not sent only from *)
(* there; and a request on the way is the only one of its operation unless   *)
(* the operation is a placement move.                                       *)
(***************************************************************************)
EXTENDS ProviderEffects, TokenRefresh, SequenceTheorems, FiniteSetTheorems, TLAPS

PeIntent == [who : PeCallers, version : 1..MaxEvents + 1, seen : Nat,
             effect : {"unknown", "applied", "not_sent"}]

PeCall == [pc : {"admitted", "prepared", "reading", "adding", "removing",
                 "readback", "recover", "finish"},
           op : PeOps, version : 1..MaxEvents + 1, seen : Nat,
           out : {"unknown", "applied", "not_sent"}, todo : SUBSET PeValues, again : BOOLEAN]

PeMessage == [op : PeOps, part : {"append", "update", "relate", "create", "add", "remove"},
              project : PeValues \cup {"-"}]

PeTask == [rev : Nat, open : BOOLEAN, scalar : PeValues, relation : PeValues,
           projects : SUBSET PeValues]

Typed ==
  /\ peOps \in [PeOps -> PeRequests]
  /\ peGrants \in [PeCallers -> [version : 1..MaxEvents + 1, current : BOOLEAN]]
  /\ peJournal \in [PeOps -> PeIntent \cup {NoIntent}]
  /\ peTasks \in [PeWorks -> PeTask]
  /\ peBound \subseteq PeOps
  /\ peWire \subseteq PeMessage
  /\ peLanded \in [PeOps -> Nat]
  /\ peCalls \in [PeCallers -> PeCall \cup {NoCall}]
  /\ peEvents \in 0..MaxEvents

(* Every event reissues a grant at most once. *)
GrantsCounted == \A c \in PeCallers : peGrants[c].version <= peEvents + 1

Exact(o) == Kind(o) \in {"append", "create"}
Pending(o) == \E m \in peWire : m.op = o
Untouched(o) == peLanded[o] = 0 /\ ~Pending(o)

(* A request on the wire is one its operation sends. *)
PartFits(m) ==
  IF Kind(m.op) = "move" THEN m.part \in {"add", "remove"} /\ m.project \in PeValues
                         ELSE m.part = Kind(m.op) /\ m.project = "-"
WireFits == \A m \in peWire : PartFits(m)

OpFits(o) ==
  /\ peJournal[o].effect \in {"none", "not_sent"} => Untouched(o)
  /\ Kind(o) # "move" => (peLanded[o] <= 1 /\ (Pending(o) => peLanded[o] = 0))
  /\ Exact(o) /\ peJournal[o].effect = "applied" => peLanded[o] = 1
  /\ o \in peBound => Kind(o) = "create" /\ peLanded[o] = 1
OpsFit == \A o \in PeOps : OpFits(o)

(* Nothing on the work of an admitted operation is unresolved. *)
Alone(o) ==
  \A p \in PeOps :
    Unresolved(p) /\ Work(p) = Work(o) /\ Work(o) # Root => (Kind(p) = "create") # (Kind(o) = "create")

Working(c) == Busy(c) /\ peCalls[c].pc # "admitted"

(* What a call x of caller c knows at each step. *)
CallFits(c, x) ==
  /\ x.pc = "admitted" => Alone(x.op)
  /\ x.pc # "admitted" => peJournal[x.op].effect = "unknown" /\ peJournal[x.op].who = c
  /\ x.pc = "prepared" => Untouched(x.op)
  /\ x.pc = "finish" /\ x.out = "not_sent" => Untouched(x.op)
  /\ x.pc = "reading" => x.again
  /\ x.pc \in {"reading", "adding", "removing"} => Kind(x.op) = "move"
  /\ x.pc = "recover" => Kind(x.op) # "append"
  /\ Exact(x.op) /\ (x.pc = "readback" \/ (x.pc = "finish" /\ x.out = "applied"))
       => peLanded[x.op] = 1
CallsFit == \A c \in PeCallers : Busy(c) => CallFits(c, peCalls[c])

(* locked: two calls in progress are on two works. *)
LocksHold ==
  \A c, d \in PeCallers :
    Busy(c) /\ Busy(d) /\ c # d => Work(peCalls[c].op) # Work(peCalls[d].op)
                                     \/ Work(peCalls[c].op) = Root

PeInv ==
  /\ Typed /\ GrantsCounted /\ WireFits /\ OpsFit /\ CallsFit /\ LocksHold
  /\ OneUnresolvedEffect

-----------------------------------------------------------------------------
(* What requests, messages and rows are. *)

(* What an operation asks for. *)
LEMMA Requests ==
  ASSUME Typed, NEW o \in PeOps
  PROVE  /\ Kind(o) \in {"append", "update", "relate", "move", "create"}
         /\ Kind(o) # "create" => Work(o) \in PeWorks /\ Work(o) # Root
         /\ Kind(o) \in {"update", "relate", "move"} => Want(o) \in PeValues
BY ProviderConstants DEF Typed, PeRequests, Kind, Work, Want, ProviderConstants

(* A task with new fields is a task. *)
LEMMA TaskFields ==
  ASSUME NEW t \in PeTask, NEW v \in PeValues, NEW r \in Nat, NEW S \in SUBSET PeValues
  PROVE  /\ [t EXCEPT !.rev = r] \in PeTask
         /\ [t EXCEPT !.scalar = v, !.rev = r] \in PeTask
         /\ [t EXCEPT !.relation = v, !.rev = r] \in PeTask
         /\ [t EXCEPT !.projects = S, !.rev = r] \in PeTask
BY DEF PeTask

(* A task stays a task when a request reaches it. *)
LEMMA ChangedTask ==
  ASSUME Typed, NEW m \in PeMessage, PartFits(m), NEW t \in PeTask, m.part # "create"
  PROVE  Changed(t, m) \in PeTask
<1>1. /\ m.op \in PeOps /\ m.part \in {"append", "update", "relate", "add", "remove"}
      /\ t.rev + 1 \in Nat /\ t.projects \in SUBSET PeValues
  BY DEF PeMessage, PeTask
<1>2. m.part = "append" => Appended(t) \in PeTask
  BY <1>1 DEF Appended, PeTask
<1>3. m.part = "update" => Updated(t, m.op) \in PeTask
  <2>1. m.part = "update" => Want(m.op) \in PeValues
    BY <1>1, Requests DEF PartFits
  <2> QED
    BY <1>1, <2>1, TaskFields DEF Updated
<1>4. m.part = "relate" => Related(t, m.op) \in PeTask
  <2>1. m.part = "relate" => Want(m.op) \in PeValues
    BY <1>1, Requests DEF PartFits
  <2> QED
    BY <1>1, <2>1, TaskFields DEF Related
<1>5. m.part \in {"add", "remove"} =>
        Placed(t, m.project) \in PeTask /\ Displaced(t, m.project) \in PeTask
  <2>1. m.part \in {"add", "remove"} =>
          /\ m.project \in PeValues
          /\ t.projects \cup {m.project} \in SUBSET PeValues
          /\ t.projects \ {m.project} \in SUBSET PeValues
    BY <1>1, Requests DEF PartFits
  <2> QED
    BY <1>1, <2>1, TaskFields DEF Placed, Displaced
<1> QED
  BY <1>1, <1>2, <1>3, <1>4, <1>5 DEF Changed

(* A request that lands changes one task and counts for its operation. *)
LEMMA Landing ==
  ASSUME Typed, NEW m \in PeMessage, PartFits(m), Lands(m)
  PROVE  /\ peTasks' \in [PeWorks -> PeTask]
         /\ peLanded' \in [PeOps -> Nat]
         /\ peLanded'[m.op] = peLanded[m.op] + 1
         /\ \A p \in PeOps : p # m.op => peLanded'[p] = peLanded[p]
<1>1. m.op \in PeOps
  BY DEF PeMessage
<1>2. peTasks' \in [PeWorks -> PeTask]
  <2>1. CASE m.part = "create"
    BY <2>1 DEF Lands, Typed
  <2>2. CASE m.part # "create"
    <3>1. Work(m.op) \in PeWorks
      BY <1>1, <2>2, Requests DEF PartFits
    <3>2. Changed(peTasks[Work(m.op)], m) \in PeTask
      BY <2>2, <3>1, ChangedTask DEF Typed
    <3> QED
      BY <2>2, <3>1, <3>2 DEF Lands, Typed
  <2> QED
    BY <2>1, <2>2
<1> QED
  BY <1>1, <1>2 DEF Lands, Typed

(* Only a move has several requests. *)
LEMMA OneMessage ==
  ASSUME NEW m \in PeMessage, NEW n \in PeMessage, PartFits(m), PartFits(n), m.op = n.op,
         Kind(m.op) # "move"
  PROVE  m = n
BY DEF PeMessage, PartFits

(* The row of a call in progress. *)
LEMMA CallRow ==
  ASSUME Typed, NEW c \in PeCallers, Busy(c)
  PROVE  peCalls[c] \in PeCall /\ peCalls[c].op \in PeOps
BY DEF Typed, Busy, PeCall, NoCall

(* The row of an operation. *)
LEMMA JournalRow ==
  ASSUME Typed, NEW o \in PeOps
  PROVE  /\ peJournal[o].effect \in {"none", "unknown", "applied", "not_sent"}
         /\ Recorded(o) => peJournal[o] \in PeIntent
BY DEF Typed, Recorded, PeIntent, NoIntent

(* A call that works owns the row of its operation. *)
LEMMA OneWorker ==
  ASSUME PeInv, NEW c \in PeCallers, NEW d \in PeCallers, Working(c), Working(d),
         peCalls[c].op = peCalls[d].op
  PROVE  c = d
BY DEF PeInv, CallsFit, CallFits, Working

(* What a call knows does not depend on other operations. *)
LEMMA FitsStay ==
  ASSUME NEW c, NEW x, CallFits(c, x), peOps' = peOps, x.op \in PeOps,
         x.pc # "admitted" => /\ peJournal'[x.op] = peJournal[x.op]
                              /\ peLanded'[x.op] = peLanded[x.op]
                              /\ Pending(x.op)' <=> Pending(x.op),
         x.pc = "admitted" => \A p \in PeOps : Unresolved(p)' /\ Work(p) = Work(x.op) => Unresolved(p)
  PROVE  CallFits(c, x)'
<1>1. /\ \A p : Kind(p)' = Kind(p) /\ Work(p)' = Work(p)
      /\ Exact(x.op)' <=> Exact(x.op)
  BY DEF Kind, Work, Exact
<1>2. x.pc = "admitted" => Alone(x.op)'
  BY <1>1 DEF CallFits, Alone
<1>3. x.pc # "admitted" => (Untouched(x.op)' <=> Untouched(x.op))
  BY DEF Untouched
<1> QED
  BY <1>1, <1>2, <1>3 DEF CallFits

(* What an operation's row shows depends on that operation only. *)
LEMMA OpStays ==
  ASSUME NEW o \in PeOps, OpFits(o), peOps' = peOps, peJournal'[o] = peJournal[o],
         peLanded'[o] = peLanded[o], Pending(o)' <=> Pending(o),
         o \in peBound' <=> o \in peBound
  PROVE  OpFits(o)'
BY DEF OpFits, Untouched, Kind, Exact

-----------------------------------------------------------------------------
(* What a step does to verdicts and effects, in terms of the journal. *)

VerdictsStay == \A p \in PeOps : peJournal'[p].effect = peJournal[p].effect

Moves(o, verdict) ==
  \A p \in PeOps : peJournal'[p].effect = IF p = o THEN verdict ELSE peJournal[p].effect

OnceStep ==
  /\ peOps' = peOps
  /\ \/ VerdictsStay /\ UNCHANGED peLanded
     \/ \E o \in PeOps :
          /\ peJournal[o].effect = "none" /\ Moves(o, "unknown") /\ UNCHANGED peLanded
     \/ \E o \in PeOps :
          /\ peJournal[o].effect \in IF Exact(o) THEN {"unknown"} ELSE {"unknown", "applied"}
          /\ Kind(o) = "move" \/ peLanded[o] = 0
          /\ VerdictsStay /\ peLanded' = [peLanded EXCEPT ![o] = @ + 1]
     \/ \E o \in PeOps :
          /\ peJournal[o].effect = "unknown" /\ UNCHANGED peLanded
          /\ \/ Moves(o, "applied") /\ (Exact(o) => peLanded[o] = 1)
             \/ Moves(o, "not_sent") /\ peLanded[o] = 0

Same(p) ==
  /\ peJournal'[p] = peJournal[p] /\ peLanded'[p] = peLanded[p]
  /\ Pending(p)' <=> Pending(p)

(* Nothing that the calls and the journal show changes. *)
LEMMA TablesStay ==
  ASSUME PeInv, UNCHANGED <<peOps, peCalls, peJournal, peLanded, peBound, peWire>>
  PROVE  /\ WireFits' /\ OpsFit' /\ CallsFit' /\ LocksHold' /\ OneUnresolvedEffect'
         /\ OnceStep
<1>1. \A p : Kind(p)' = Kind(p) /\ Work(p)' = Work(p)
  BY DEF Kind, Work
<1>2. WireFits'
  BY <1>1 DEF PeInv, WireFits, PartFits
<1>3. \A p \in PeOps : Same(p) /\ (p \in peBound' <=> p \in peBound)
  BY DEF Same, Pending
<1>4. OpsFit'
  BY <1>3, OpStays DEF PeInv, OpsFit, Same
<1>5. CallsFit'
  <2>1. SUFFICES ASSUME NEW c \in PeCallers, Busy(c) PROVE CallFits(c, peCalls[c])'
    BY DEF CallsFit, Busy
  <2>2. PICK x : x = peCalls[c]
    OBVIOUS
  <2>3. CallFits(c, x) /\ x.op \in PeOps
    BY <2>1, <2>2, CallRow DEF PeInv, CallsFit
  <2>4. CallFits(c, x)'
    BY <1>3, <2>3, FitsStay DEF Same, Unresolved
  <2> QED
    BY <2>2, <2>4 DEF CallFits
<1>6. LocksHold' /\ OneUnresolvedEffect'
  BY <1>1 DEF PeInv, LocksHold, OneUnresolvedEffect, Busy, Unresolved
<1> QED
  BY <1>2, <1>4, <1>5, <1>6 DEF OnceStep, VerdictsStay

(* A call goes on or ends; what it changes concerns its own operation. *)
LEMMA CallTurns ==
  ASSUME PeInv, NEW c \in PeCallers, Busy(c), NEW x \in PeCall \cup {NoCall},
         x # NoCall => x.op = peCalls[c].op /\ CallFits(c, x)',
         peCalls' = [peCalls EXCEPT ![c] = x], peOps' = peOps,
         \A p \in PeOps : (Working(c) /\ p = peCalls[c].op) \/ Same(p),
         \A p \in PeOps : Unresolved(p)' => Unresolved(p)
  PROVE  /\ peCalls' \in [PeCallers -> PeCall \cup {NoCall}]
         /\ CallsFit' /\ LocksHold' /\ OneUnresolvedEffect'
<1>1. /\ \A p : Kind(p)' = Kind(p) /\ Work(p)' = Work(p)
      /\ peCalls \in [PeCallers -> PeCall \cup {NoCall}]
      /\ peCalls'[c] = x /\ \A d \in PeCallers : d # c => peCalls'[d] = peCalls[d]
      /\ Busy(c)' => x # NoCall
  BY DEF Kind, Work, PeInv, Typed, Busy, NoCall
<1>2. CallsFit'
  <2>1. SUFFICES ASSUME NEW d \in PeCallers, Busy(d)' PROVE CallFits(d, peCalls[d])'
    BY DEF CallsFit
  <2>2. PICK y : y = peCalls'[d]
    OBVIOUS
  <2>3. CASE d = c
    BY <1>1, <2>1, <2>2, <2>3 DEF CallFits
  <2>4. CASE d # c
    <3>1. Busy(d) /\ y = peCalls[d] /\ CallFits(d, y) /\ y.op \in PeOps
      BY <1>1, <2>1, <2>2, <2>4, CallRow DEF PeInv, CallsFit, Busy
    <3>2. y.pc # "admitted" => Same(y.op)
      BY <2>4, <3>1, OneWorker DEF Working
    <3>3. CallFits(d, y)'
      BY <3>1, <3>2, FitsStay DEF Same
    <3> QED
      BY <2>2, <3>3 DEF CallFits
  <2> QED
    BY <2>3, <2>4
<1>3. LocksHold'
  <2>1. \A d \in PeCallers : Busy(d)' => Busy(d) /\ peCalls'[d].op = peCalls[d].op
    BY <1>1 DEF Busy
  <2> QED
    BY <1>1, <2>1 DEF PeInv, LocksHold
<1>4. OneUnresolvedEffect'
  BY <1>1 DEF PeInv, OneUnresolvedEffect
<1> QED
  BY <1>1, <1>2, <1>3, <1>4

(* A call goes on without touching the tables. *)
LEMMA CallGoesOn ==
  ASSUME PeInv, NEW c \in PeCallers, Busy(c), NEW x \in PeCall \cup {NoCall},
         x # NoCall => x.op = peCalls[c].op /\ CallFits(c, x),
         peCalls' = [peCalls EXCEPT ![c] = x],
         UNCHANGED <<peOps, peGrants, peJournal, peTasks, peBound, peWire, peLanded, peEvents>>
  PROVE  PeInv' /\ OnceStep
<1>1. /\ \A p \in PeOps : Same(p) /\ (p \in peBound' <=> p \in peBound)
      /\ \A p : Kind(p)' = Kind(p)
  BY DEF Same, Pending, Kind
<1>2. x # NoCall => CallFits(c, x)'
  BY <1>1, FitsStay, CallRow DEF Same, Unresolved, PeInv
<1>3. /\ peCalls' \in [PeCallers -> PeCall \cup {NoCall}]
      /\ CallsFit' /\ LocksHold' /\ OneUnresolvedEffect'
  BY <1>1, <1>2, CallTurns DEF Unresolved
<1>4. WireFits' /\ OpsFit'
  BY <1>1, OpStays DEF PeInv, WireFits, PartFits, OpsFit, Same
<1>5. Typed' /\ GrantsCounted'
  BY <1>3 DEF PeInv, Typed, GrantsCounted
<1> QED
  BY <1>3, <1>4, <1>5 DEF PeInv, OnceStep, VerdictsStay

-----------------------------------------------------------------------------
(* The steps of the world: edits in the tracker, grants reissued or expired. *)
LEMMA WorldKeeps ==
  ASSUME PeInv, PeEdit \/ PeIssue \/ PeExpire
  PROVE  PeInv' /\ OnceStep
<1>1. UNCHANGED <<peOps, peCalls, peJournal, peLanded, peBound, peWire>>
  BY DEF PeEdit, PeIssue, PeExpire
<1>2. WireFits' /\ OpsFit' /\ CallsFit' /\ LocksHold' /\ OneUnresolvedEffect' /\ OnceStep
  BY <1>1, TablesStay
<1>3. peEvents \in Nat /\ MaxEvents \in Nat /\ peEvents' = peEvents + 1 /\ peEvents' \in 0..MaxEvents
  BY ProviderConstants DEF PeInv, Typed, ProviderConstants, PeEdit, PeIssue, PeExpire
<1>4. /\ peGrants' \in [PeCallers -> [version : 1..MaxEvents + 1, current : BOOLEAN]]
      /\ GrantsCounted' /\ peTasks' \in [PeWorks -> PeTask]
  <2>0. \A c \in PeCallers : peGrants[c].version \in Nat \ {0} /\ peGrants[c].version <= peEvents + 1
    BY <1>3 DEF PeInv, Typed, GrantsCounted
  <2>1. CASE PeEdit
    <3>1. PICK w \in PeWorks, v \in PeValues, open \in BOOLEAN :
            peTasks' = [peTasks EXCEPT ![w] = [rev |-> peTasks[w].rev + 1, open |-> open, scalar |-> v,
                                          relation |-> v, projects |-> {v}]]
      BY <2>1 DEF PeEdit
    <3>2. peTasks[w].rev + 1 \in Nat
      BY DEF PeInv, Typed, PeTask
    <3>3. [rev |-> peTasks[w].rev + 1, open |-> open, scalar |-> v, relation |-> v,
           projects |-> {v}] \in PeTask
      BY <3>2 DEF PeTask
    <3>4. peGrants' = peGrants
      BY <2>1 DEF PeEdit
    <3> QED
      BY <1>3, <2>0, <3>1, <3>3, <3>4 DEF PeInv, Typed, GrantsCounted
  <2>2. CASE PeIssue
    <3>1. PICK c \in PeCallers :
            peGrants' = [peGrants EXCEPT ![c] = [version |-> peGrants[c].version + 1, current |-> TRUE]]
      BY <2>2 DEF PeIssue, Reissued
    <3>2. peGrants[c].version + 1 \in 1..MaxEvents + 1 /\ peGrants[c].version + 1 <= peEvents' + 1
      BY <1>3, <2>0
    <3>3. peTasks' = peTasks
      BY <2>2 DEF PeIssue
    <3> QED
      BY <1>3, <2>0, <3>1, <3>2, <3>3 DEF PeInv, Typed, GrantsCounted
  <2>3. CASE PeExpire
    <3>1. PICK c \in PeCallers : peGrants' = [peGrants EXCEPT ![c].current = FALSE]
      BY <2>3 DEF PeExpire
    <3>2. peTasks' = peTasks
      BY <2>3 DEF PeExpire
    <3>3. peGrants' \in [PeCallers -> [version : 1..MaxEvents + 1, current : BOOLEAN]]
      BY <3>1 DEF PeInv, Typed
    <3>4. \A d \in PeCallers : peGrants'[d].version = peGrants[d].version
      BY <3>1 DEF PeInv, Typed
    <3>5. GrantsCounted'
      BY <1>3, <2>0, <3>4 DEF GrantsCounted
    <3> QED
      BY <3>2, <3>3, <3>5 DEF PeInv, Typed
  <2> QED
    BY <2>1, <2>2, <2>3
<1> QED
  BY <1>1, <1>2, <1>3, <1>4 DEF PeInv, Typed

(* A request that arrives late is the only one of its operation, unless that   *)
(* is a move, and it arrives while its verdict allows it.                      *)
LEMMA LateArrivalKeeps ==
  ASSUME PeInv, PeLateArrival
  PROVE  PeInv' /\ OnceStep
<1>0. PICK m \in peWire :
        /\ peWire' = peWire \ {m}
        /\ Lands(m) \/ UNCHANGED <<peTasks, peLanded>>
  BY DEF PeLateArrival
<1>1. /\ UNCHANGED <<peOps, peGrants, peJournal, peBound, peCalls, peEvents>>
      /\ \A p : Kind(p)' = Kind(p) /\ Work(p)' = Work(p)
  BY DEF PeLateArrival, Kind, Work
<1> DEFINE o == m.op
<1>2. m \in PeMessage /\ PartFits(m) /\ o \in PeOps /\ Typed /\ OpFits(o) /\ Pending(o)
  BY <1>0 DEF PeInv, Typed, WireFits, PeMessage, OpsFit, Pending
<1>3. /\ peTasks' \in [PeWorks -> PeTask] /\ peLanded' \in [PeOps -> Nat]
      /\ \A p \in PeOps : p # o => peLanded'[p] = peLanded[p]
      /\ peLanded'[o] \in {peLanded[o], peLanded[o] + 1} /\ peLanded[o] \in Nat
      /\ Lands(m) => peLanded' = [peLanded EXCEPT ![o] = peLanded[o] + 1]
  BY <1>0, <1>2, Landing DEF Typed, Lands
<1>4. \A p \in PeOps : p # o => (Pending(p)' <=> Pending(p))
  BY <1>0 DEF Pending
<1>5. Kind(o) # "move" => ~Pending(o)'
  BY <1>0, <1>2, OneMessage DEF Pending, PeInv, Typed, WireFits
<1>6. /\ peJournal[o].effect \in {"unknown", "applied"}
      /\ Kind(o) # "move" => peLanded[o] = 0
      /\ Exact(o) => peJournal[o].effect = "unknown"
      /\ o \notin peBound
  <2>1. Kind(o) # "move" => peLanded[o] = 0
    BY <1>2 DEF OpFits
  <2>2. Exact(o) => peJournal[o].effect # "applied"
    BY <1>2, <2>1 DEF OpFits, Exact
  <2> QED
    BY <1>2, <2>1, <2>2, JournalRow DEF OpFits, Untouched
<1>7. WireFits' /\ peWire' \subseteq PeMessage
  BY <1>0, <1>1 DEF PeInv, Typed, WireFits, PartFits
<1>8. OpsFit'
  <2>1. SUFFICES ASSUME NEW p \in PeOps PROVE OpFits(p)'
    BY DEF OpsFit
  <2>2. CASE p # o
    BY <1>1, <1>3, <1>4, <2>2, OpStays DEF PeInv, OpsFit
  <2>3. CASE p = o
    BY <1>1, <1>3, <1>5, <1>6, <2>3 DEF OpFits, Exact
  <2> QED
    BY <2>2, <2>3
<1>9. CallsFit'
  <2>1. SUFFICES ASSUME NEW c \in PeCallers, Busy(c) PROVE CallFits(c, peCalls[c])'
    BY <1>1 DEF CallsFit, Busy
  <2>2. PICK x : x = peCalls[c]
    OBVIOUS
  <2>3. CallFits(c, x) /\ x.op \in PeOps
    BY <1>2, <2>1, <2>2, CallRow DEF PeInv, CallsFit
  <2>4. CASE x.op # o
    <3>1. CallFits(c, x)'
      BY <1>1, <1>3, <1>4, <2>3, <2>4, FitsStay DEF Unresolved
    <3> QED
      BY <1>1, <2>2, <3>1 DEF CallFits
  <2>5. CASE x.op = o
    <3>1. /\ ~(x.pc = "prepared") /\ ~(x.pc = "finish" /\ x.out = "not_sent")
          /\ ~(Exact(x.op) /\ (x.pc = "readback" \/ (x.pc = "finish" /\ x.out = "applied")))
      BY <1>2, <1>6, <2>3, <2>5 DEF CallFits, Untouched, Exact
    <3>2. Alone(x.op) => Alone(x.op)'
      BY <1>1 DEF Alone, Unresolved
    <3>3. CallFits(c, x)'
      BY <1>1, <2>3, <2>5, <3>1, <3>2 DEF CallFits, Exact
    <3> QED
      BY <1>1, <2>2, <3>3 DEF CallFits
  <2> QED
    BY <2>4, <2>5
<1>10. LocksHold' /\ OneUnresolvedEffect'
  BY <1>1 DEF PeInv, LocksHold, OneUnresolvedEffect, Busy, Unresolved
<1>11. OnceStep
  <2>1. VerdictsStay /\ peOps' = peOps
    BY <1>1 DEF VerdictsStay
  <2>2. CASE UNCHANGED peLanded
    BY <2>1, <2>2 DEF OnceStep
  <2>3. CASE Lands(m)
    BY <1>2, <1>3, <1>6, <2>1, <2>3 DEF OnceStep
  <2> QED
    BY <1>0, <2>2, <2>3
<1> QED
  BY <1>1, <1>3, <1>7, <1>8, <1>9, <1>10, <1>11 DEF PeInv, Typed, GrantsCounted

-----------------------------------------------------------------------------
(* Admission: what every gateway knows when its call begins. *)
LEMMA BeginKeeps ==
  ASSUME PeInv, NEW c \in PeCallers, NEW o \in PeOps, NEW version \in 1..MaxEvents + 1,
         NEW seen \in Nat, NEW pc \in {"admitted", "recover"}, Begin(c, o, version, seen, pc),
         Locked(c, Work(o)),
         pc = "admitted" => Alone(o),
         pc = "recover" => /\ Unresolved(o) /\ peJournal[o].who = c /\ Kind(o) # "append"
  PROVE  PeInv' /\ OnceStep
<1> DEFINE x == [pc |-> pc, op |-> o, version |-> version, seen |-> seen, out |-> "unknown",
                 todo |-> {}, again |-> FALSE]
<1>1. /\ peCalls' = [peCalls EXCEPT ![c] = x]
      /\ UNCHANGED <<peOps, peGrants, peJournal, peTasks, peBound, peWire, peLanded, peEvents>>
  BY DEF Begin
<1>2. x \in PeCall /\ x.pc = pc /\ x.op = o
  BY DEF PeCall
<1>3. CallFits(c, x)
  BY DEF CallFits, Unresolved
<1> HIDE DEF x
<1>4. /\ \A p : Kind(p)' = Kind(p) /\ Work(p)' = Work(p)
      /\ peCalls \in [PeCallers -> PeCall \cup {NoCall}]
      /\ peCalls'[c] = x /\ \A d \in PeCallers : d # c => peCalls'[d] = peCalls[d]
      /\ \A p \in PeOps : Same(p)
  BY <1>1 DEF Kind, Work, PeInv, Typed, Same, Pending
<1>5. CallsFit'
  <2>1. SUFFICES ASSUME NEW d \in PeCallers, Busy(d)' PROVE CallFits(d, peCalls[d])'
    BY DEF CallsFit
  <2>2. PICK y : y = peCalls'[d]
    OBVIOUS
  <2>3. CallFits(d, y) /\ y.op \in PeOps
    <3>1. CASE d = c
      BY <1>2, <1>3, <1>4, <2>2, <3>1
    <3>2. CASE d # c
      BY <1>4, <2>1, <2>2, <3>2, CallRow DEF PeInv, CallsFit, Busy
    <3> QED
      BY <3>1, <3>2
  <2>4. CallFits(d, y)'
    BY <1>1, <1>4, <2>3, FitsStay DEF Same, Unresolved
  <2> QED
    BY <2>2, <2>4 DEF CallFits
<1>6. LocksHold'
  <2>1. SUFFICES ASSUME NEW a \in PeCallers, NEW b \in PeCallers, Busy(a)', Busy(b)', a # b
                 PROVE  \/ Work(peCalls'[a].op) # Work(peCalls'[b].op)
                        \/ Work(peCalls'[a].op) = Root
    BY <1>4 DEF LocksHold
  <2>2. \A d \in PeCallers : d # c => (Busy(d)' <=> Busy(d))
    BY <1>4 DEF Busy
  <2> QED
    BY <1>2, <1>4, <2>1, <2>2 DEF PeInv, LocksHold, Locked
<1>7. WireFits' /\ OpsFit' /\ OneUnresolvedEffect'
  BY <1>1, <1>4, OpStays DEF PeInv, WireFits, PartFits, OpsFit, Same, OneUnresolvedEffect, Unresolved
<1>8. Typed' /\ GrantsCounted'
  <2>1. peCalls' \in [PeCallers -> PeCall \cup {NoCall}]
    BY <1>1, <1>2, <1>4
  <2> QED
    BY <1>1, <2>1 DEF PeInv, Typed, GrantsCounted
<1> QED
  BY <1>1, <1>5, <1>6, <1>7, <1>8 DEF PeInv, OnceStep, VerdictsStay

(* previous and unresolved_create leave the operation alone on its work. *)
LEMMA AdmittedAlone ==
  ASSUME PeInv, NEW o \in PeOps,
         \/ Kind(o) # "create" /\ Previous(o, Work(o)) = {}
         \/ Kind(o) = "create" /\ ~UnresolvedCreate(Work(o))
  PROVE  Alone(o)
BY DEF Alone, Previous, UnresolvedCreate

(* Every gateway's admission. *)
LEMMA AdmissionKeeps ==
  ASSUME PeInv, NEW c \in PeCallers, NEW o \in PeOps, NEW version \in 1..MaxEvents + 1,
         \/ PeCreate(c, o, version)
         \/ \E seen \in Revisions : \/ PeAppend(c, o, version, seen)
                                    \/ PeUpdate(c, o, version, seen)
                                    \/ PeRelate(c, o, version, seen)
                                    \/ PeRetry(c, o, version, seen)
  PROVE  PeInv' /\ OnceStep
<1>0. Revisions \subseteq Nat
  BY DEF Revisions, PeInv, Typed, PeTask
<1>1. CASE PeCreate(c, o, version)
  BY <1>1, AdmittedAlone, BeginKeeps DEF PeCreate
<1>2. ASSUME NEW seen \in Revisions, PeAppend(c, o, version, seen)
      PROVE  PeInv' /\ OnceStep
  <2>1. Alone(o)
    BY <1>2, AdmittedAlone DEF PeAppend
  <2> QED
    BY <1>0, <1>2, <2>1, BeginKeeps DEF PeAppend
<1>3. ASSUME NEW seen \in Revisions,
             PeUpdate(c, o, version, seen) \/ PeRelate(c, o, version, seen)
      PROVE  PeInv' /\ OnceStep
  <2>1. Alone(o)
    BY <1>3, AdmittedAlone DEF PeUpdate, PeRelate, Mutate
  <2> QED
    BY <1>0, <1>3, <2>1, BeginKeeps DEF PeUpdate, PeRelate, Mutate
<1>4. ASSUME NEW seen \in Revisions, PeRetry(c, o, version, seen)
      PROVE  PeInv' /\ OnceStep
  BY <1>0, <1>4, BeginKeeps DEF PeRetry
<1> QED
  BY <1>1, <1>2, <1>3, <1>4

(* prepare: the operation is recorded once, and nothing of it has happened. *)
LEMMA PrepareKeeps ==
  ASSUME PeInv, NEW c \in PeCallers, PePrepare(c)
  PROVE  PeInv' /\ OnceStep
<1> DEFINE o == peCalls[c].op
           row == [who |-> c, version |-> peCalls[c].version, seen |-> peCalls[c].seen,
                   effect |-> "unknown"]
           x == [peCalls[c] EXCEPT !.pc = "prepared"]
<1>0. Busy(c) /\ peCalls[c].pc = "admitted" /\ ~Recorded(o)
  BY DEF PePrepare, Busy
<1>1. /\ peCalls[c] \in PeCall /\ o \in PeOps /\ CallFits(c, peCalls[c]) /\ OpFits(o)
      /\ peCalls \in [PeCallers -> PeCall \cup {NoCall}]
      /\ peJournal \in [PeOps -> PeIntent \cup {NoIntent}]
  BY <1>0, CallRow DEF PeInv, CallsFit, OpsFit, Typed
<1>2. /\ peJournal' = [peJournal EXCEPT ![o] = row]
      /\ UNCHANGED <<peOps, peGrants, peTasks, peBound, peWire, peLanded, peEvents>>
      /\ \A p : Kind(p)' = Kind(p) /\ Work(p)' = Work(p)
  BY DEF PePrepare, Kind, Work
<1>3. peCalls' = [peCalls EXCEPT ![c] = x]
  BY <1>1 DEF PePrepare
<1>4. row \in PeIntent /\ row.who = c /\ row.effect = "unknown"
  BY <1>1 DEF PeIntent, PeCall
<1>5. x \in PeCall /\ x.pc = "prepared" /\ x.op = o
  BY <1>1 DEF PeCall
<1> HIDE DEF row, x
<1>6. /\ peJournal' \in [PeOps -> PeIntent \cup {NoIntent}] /\ peJournal'[o] = row
      /\ \A p \in PeOps : p # o => peJournal'[p] = peJournal[p]
  BY <1>1, <1>2, <1>4
<1>7. Alone(o) /\ Untouched(o)
  BY <1>0, <1>1 DEF CallFits, OpFits, Recorded
<1>8. \A p \in PeOps : (Pending(p)' <=> Pending(p)) /\ peLanded'[p] = peLanded[p]
  BY <1>2 DEF Pending
<1>9. OpsFit'
  <2>1. SUFFICES ASSUME NEW p \in PeOps PROVE OpFits(p)'
    BY DEF OpsFit
  <2>2. CASE p # o
    BY <1>2, <1>6, <1>8, <2>2, OpStays DEF PeInv, OpsFit
  <2>3. CASE p = o
    BY <1>1, <1>2, <1>4, <1>6, <1>7, <1>8, <2>3 DEF OpFits, Untouched, Exact
  <2> QED
    BY <2>2, <2>3
<1>10. CallsFit'
  <2>1. SUFFICES ASSUME NEW d \in PeCallers, Busy(d)' PROVE CallFits(d, peCalls[d])'
    BY DEF CallsFit
  <2>2. PICK y : y = peCalls'[d]
    OBVIOUS
  <2>3. CASE d = c
    <3>1. y = x
      BY <1>1, <1>3, <2>2, <2>3
    <3>2. Untouched(y.op)' /\ y.pc = "prepared" /\ y.op = o
      BY <1>1, <1>5, <1>7, <1>8, <3>1 DEF Untouched
    <3>3. CallFits(d, y)'
      BY <1>4, <1>6, <2>3, <3>2 DEF CallFits
    <3> QED
      BY <2>2, <3>3 DEF CallFits
  <2>4. CASE d # c
    <3>1. Busy(d) /\ y = peCalls[d] /\ CallFits(d, y) /\ y.op \in PeOps
      <4>1. y = peCalls[d]
        BY <1>1, <1>3, <2>2, <2>4
      <4> QED
        BY <2>1, <2>2, <4>1, CallRow DEF PeInv, CallsFit, Busy
    <3>2. CASE y.pc # "admitted"
      <4>1. y.op # o
        BY <1>0, <3>1, <3>2 DEF CallFits, Recorded
      <4> QED
        <5>1. CallFits(d, y)'
          BY <1>2, <1>6, <1>8, <3>1, <3>2, <4>1, FitsStay
        <5> QED
          BY <2>2, <5>1 DEF CallFits
    <3>3. CASE y.pc = "admitted"
      <4>1. Work(y.op) # Work(o) \/ Work(o) = Root
        BY <1>0, <2>4, <3>1 DEF PeInv, LocksHold
      <4>2. Alone(y.op)'
        <5>1. SUFFICES ASSUME NEW p \in PeOps, Unresolved(p)', Work(p) = Work(y.op), Work(y.op) # Root
                       PROVE  (Kind(p) = "create") # (Kind(y.op) = "create")
          BY <1>2 DEF Alone
        <5>2. p # o
          BY <4>1, <5>1
        <5> QED
          BY <1>6, <3>1, <3>3, <5>1, <5>2 DEF CallFits, Alone, Unresolved
      <4>3. CallFits(d, y)'
        BY <3>3, <4>2 DEF CallFits
      <4> QED
        BY <2>2, <4>3 DEF CallFits
    <3> QED
      BY <3>2, <3>3
  <2> QED
    BY <2>3, <2>4
<1>11. LocksHold'
  <2>1. \A d \in PeCallers : Busy(d)' => Busy(d) /\ peCalls'[d].op = peCalls[d].op
    BY <1>0, <1>1, <1>3, <1>5 DEF Busy
  <2> QED
    BY <1>2, <2>1 DEF PeInv, LocksHold
<1>12. OneUnresolvedEffect'
  <2>1. SUFFICES ASSUME NEW p \in PeOps, NEW q \in PeOps, Unresolved(p)', Unresolved(q)',
                        Work(p) = Work(q), Work(p) # Root,
                        (Kind(p) = "create") = (Kind(q) = "create"), p # q
                 PROVE  FALSE
    BY <1>2 DEF OneUnresolvedEffect
  <2>2. /\ p # o => Unresolved(p)
        /\ q # o => Unresolved(q)
    BY <1>6, <2>1 DEF Unresolved
  <2>3. CASE p = o
    BY <1>7, <2>1, <2>2, <2>3 DEF Alone
  <2>4. CASE q = o
    BY <1>7, <2>1, <2>2, <2>4 DEF Alone
  <2>5. CASE p # o /\ q # o
    BY <2>1, <2>2, <2>5 DEF PeInv, OneUnresolvedEffect
  <2> QED
    BY <2>3, <2>4, <2>5
<1>13. Typed' /\ GrantsCounted' /\ WireFits'
  <2>1. peCalls' \in [PeCallers -> PeCall \cup {NoCall}]
    BY <1>1, <1>3, <1>5
  <2> QED
    BY <1>2, <1>6, <2>1 DEF PeInv, Typed, GrantsCounted, WireFits, PartFits
<1>14. OnceStep
  <2>1. peJournal[o].effect = "none"
    BY <1>0 DEF Recorded
  <2>2. Moves(o, "unknown")
    BY <1>4, <1>6 DEF Moves
  <2> QED
    BY <1>1, <1>2, <2>1, <2>2 DEF OnceStep
<1> QED
  BY <1>9, <1>10, <1>11, <1>12, <1>13, <1>14 DEF PeInv

-----------------------------------------------------------------------------
(* Sending: the caller works, and its request lands, is refused or is lost. *)
LEMMA SendKeeps ==
  ASSUME PeInv, NEW c \in PeCallers, Working(c),
         NEW m \in PeMessage, m.op = peCalls[c].op, PartFits(m),
         NEW result \in {"answered", "rejected", "unknown"}, Written(m, result),
         Kind(m.op) = "move" \/ peCalls[c].pc = "prepared",
         NEW x \in PeCall, x.op = m.op, peCalls' = [peCalls EXCEPT ![c] = x],
         x.pc \notin {"admitted", "prepared", "reading"},
         x.pc \in {"adding", "removing"} => Kind(m.op) = "move",
         x.pc = "finish" => /\ x.out # "applied"
                            /\ x.out = "not_sent" => result = "rejected" /\ peCalls[c].pc = "prepared",
         x.pc = "readback" /\ Exact(m.op) => result = "answered",
         x.pc = "recover" => Kind(m.op) # "append",
         UNCHANGED <<peOps, peGrants, peJournal, peBound, peEvents>>
  PROVE  PeInv' /\ OnceStep
<1> DEFINE o == m.op
<1>1. /\ Busy(c) /\ o \in PeOps /\ OpFits(o) /\ Typed /\ CallFits(c, peCalls[c])
      /\ peJournal[o].effect = "unknown" /\ peJournal[o].who = c
      /\ peCalls[c].pc = "prepared" => Untouched(o)
  BY CallRow DEF PeInv, OpsFit, CallsFit, Working, CallFits
<1>2. \A p : Kind(p)' = Kind(p) /\ Work(p)' = Work(p)
  BY DEF Kind, Work
<1>3. /\ peTasks' \in [PeWorks -> PeTask] /\ peLanded' \in [PeOps -> Nat]
      /\ \A p \in PeOps : p # o => peLanded'[p] = peLanded[p]
      /\ result = "answered" => /\ peLanded' = [peLanded EXCEPT ![o] = peLanded[o] + 1]
                                /\ peLanded'[o] = peLanded[o] + 1 /\ peWire' = peWire
      /\ result = "rejected" => peLanded' = peLanded /\ peWire' = peWire
      /\ result = "unknown" => peLanded' = peLanded /\ peWire' = peWire \cup {m}
      /\ peLanded[o] \in Nat
  BY <1>1, Landing DEF Written, Typed, Lands
<1>4. /\ peWire' \subseteq PeMessage /\ WireFits'
      /\ \A p \in PeOps : p # o => (Pending(p)' <=> Pending(p))
      /\ result # "unknown" => (Pending(o)' <=> Pending(o))
  BY <1>1, <1>2, <1>3 DEF PeInv, Typed, WireFits, PartFits, Pending
<1>5. OpsFit'
  <2>1. SUFFICES ASSUME NEW p \in PeOps PROVE OpFits(p)'
    BY DEF OpsFit
  <2>2. CASE p # o
    BY <1>3, <1>4, <2>2, OpStays DEF PeInv, OpsFit
  <2>3. CASE p = o
    <3>1. Kind(o) # "move" => peLanded[o] = 0 /\ ~Pending(o)
      BY <1>1 DEF Untouched
    <3>2. Kind(o) # "move" => peLanded'[o] <= 1 /\ (Pending(o)' => peLanded'[o] = 0)
      BY <1>3, <1>4, <3>1
    <3>3. o \notin peBound
      BY <1>1, <3>1 DEF OpFits
    <3> QED
      BY <1>1, <1>2, <2>3, <3>2, <3>3 DEF OpFits
  <2> QED
    BY <2>2, <2>3
<1>6. CallFits(c, x)'
  <2>1. peJournal'[x.op].effect = "unknown" /\ peJournal'[x.op].who = c
    BY <1>1
  <2>2. x.pc = "finish" /\ x.out = "not_sent" => Untouched(x.op)'
    BY <1>1, <1>3, <1>4 DEF Untouched
  <2>3. Exact(x.op)' /\ x.pc = "readback" => peLanded'[x.op] = 1
    <3>1. Exact(x.op)' <=> Exact(x.op)
      BY <1>2 DEF Exact
    <3>2. Exact(x.op) => peLanded[o] = 0
      BY <1>1 DEF Exact, Untouched
    <3> QED
      BY <1>3, <3>1, <3>2
  <2> QED
    BY <1>2, <2>1, <2>2, <2>3 DEF CallFits
<1>7. /\ peCalls' \in [PeCallers -> PeCall \cup {NoCall}]
      /\ CallsFit' /\ LocksHold' /\ OneUnresolvedEffect'
  <2>1. \A p \in PeOps : (Working(c) /\ p = peCalls[c].op) \/ Same(p)
    BY <1>3, <1>4 DEF Same
  <2>2. \A p \in PeOps : Unresolved(p)' => Unresolved(p)
    BY DEF Unresolved
  <2> QED
    BY <1>1, <1>6, <2>1, <2>2, CallTurns
<1>8. OnceStep
  <2>1. VerdictsStay
    BY DEF VerdictsStay
  <2>2. CASE result = "answered"
    <3>1. Kind(o) = "move" \/ peLanded[o] = 0
      BY <1>1 DEF Untouched
    <3> QED
      BY <1>1, <1>3, <2>1, <2>2, <3>1 DEF OnceStep
  <2>3. CASE result # "answered"
    BY <1>3, <2>1, <2>3 DEF OnceStep
  <2> QED
    BY <2>2, <2>3
<1> QED
  BY <1>3, <1>4, <1>5, <1>7, <1>8 DEF PeInv, Typed, GrantsCounted

(* A call that goes to another step. *)
LEMMA GotoRow ==
  ASSUME Typed, NEW c \in PeCallers, Busy(c),
         NEW pc \in {"readback", "recover", "finish"}, NEW out \in {"unknown", "applied", "not_sent"},
         Goto(c, pc, out)
  PROVE  \E x \in PeCall : /\ peCalls' = [peCalls EXCEPT ![c] = x]
                           /\ x.pc = pc /\ x.out = out /\ x.op = peCalls[c].op
<1> DEFINE x == [peCalls[c] EXCEPT !.pc = pc, !.out = out]
<1>1. peCalls[c] \in PeCall /\ peCalls \in [PeCallers -> PeCall \cup {NoCall}]
  BY CallRow DEF Typed
<1>2. x \in PeCall /\ x.pc = pc /\ x.out = out /\ x.op = peCalls[c].op
  BY <1>1 DEF PeCall
<1>3. peCalls' = [peCalls EXCEPT ![c] = x]
  BY <1>1 DEF Goto
<1> QED
  BY <1>2, <1>3

(* The grant ended before the request went out. *)
LEMMA ExpiredKeeps ==
  ASSUME PeInv, NEW c \in PeCallers, PeExpiredBeforeSend(c)
  PROVE  PeInv' /\ OnceStep
<1>1. /\ Busy(c) /\ Typed /\ CallFits(c, peCalls[c]) /\ peCalls[c].pc = "prepared"
      /\ Goto(c, "finish", "not_sent")
  BY DEF PeExpiredBeforeSend, Busy, PeInv, CallsFit
<1>2. PICK x \in PeCall : /\ peCalls' = [peCalls EXCEPT ![c] = x]
                          /\ x.pc = "finish" /\ x.out = "not_sent" /\ x.op = peCalls[c].op
  BY <1>1, GotoRow
<1>3. CallFits(c, x)
  BY <1>1, <1>2 DEF CallFits
<1> QED
  BY <1>1, <1>2, <1>3, CallGoesOn DEF PeExpiredBeforeSend

(* The one request of an append, an update, a relation or a create. *)
LEMMA PeSendKeeps ==
  ASSUME PeInv, NEW c \in PeCallers, PeSend(c)
  PROVE  PeInv' /\ OnceStep
<1> DEFINE o == peCalls[c].op
           m == [op |-> o, part |-> Kind(o), project |-> "-"]
<1>1. /\ peCalls[c].pc = "prepared" /\ Kind(o) # "move" /\ Busy(c) /\ Working(c) /\ Typed
      /\ UNCHANGED <<peOps, peGrants, peJournal, peBound, peEvents>>
  BY DEF PeSend, Busy, Working, PeInv
<1>2. o \in PeOps /\ Kind(o) \in {"append", "update", "relate", "create"}
  BY <1>1, CallRow, Requests
<1>3. PICK result \in {"answered", "rejected", "unknown"} :
        /\ Written(m, result)
        /\ CASE Kind(o) = "append" -> AppendSent(c, result)
             [] Kind(o) = "update" -> UpdateSent(c, result)
             [] Kind(o) = "relate" -> RelationSent(c, result)
             [] Kind(o) = "create" -> CreateSent(c, result)
  BY DEF PeSend
<1>4. m \in PeMessage /\ m.op = o /\ PartFits(m)
  BY <1>1, <1>2 DEF PeMessage, PartFits
<1> HIDE DEF m
<1>5. PICK n \in PeMessage : n = m
  BY <1>4
<1>6. \E pc \in {"readback", "recover", "finish"}, out \in {"unknown", "not_sent"} :
        /\ Goto(c, pc, out)
        /\ out = "not_sent" => result = "rejected"
        /\ pc = "readback" /\ Exact(o) => result = "answered"
        /\ pc = "recover" => Kind(o) = "create"
  <2>1. CASE Kind(o) = "append"
    BY <1>3, <2>1 DEF AppendSent
  <2>2. CASE Kind(o) \in {"update", "relate"}
    BY <1>3, <2>2 DEF UpdateSent, RelationSent, Exact
  <2>3. CASE Kind(o) = "create"
    BY <1>3, <2>3 DEF CreateSent
  <2> QED
    BY <1>2, <2>1, <2>2, <2>3
<1>7. PICK pc \in {"readback", "recover", "finish"}, out \in {"unknown", "not_sent"} :
        /\ Goto(c, pc, out)
        /\ out = "not_sent" => result = "rejected"
        /\ pc = "readback" /\ Exact(o) => result = "answered"
        /\ pc = "recover" => Kind(o) = "create"
  BY <1>6
<1>8. PICK x \in PeCall : /\ peCalls' = [peCalls EXCEPT ![c] = x]
                          /\ x.pc = pc /\ x.out = out /\ x.op = peCalls[c].op
  BY <1>1, <1>7, GotoRow
<1> QED
  BY <1>1, <1>3, <1>4, <1>5, <1>7, <1>8, SendKeeps

(* _move_placement reads the memberships, or its read fails. *)
LEMMA MoveBeginKeeps ==
  ASSUME PeInv, NEW c \in PeCallers, PeMoveBegin(c)
  PROVE  PeInv' /\ OnceStep
<1> DEFINE o == peCalls[c].op
<1>1. /\ Busy(c) /\ Typed /\ CallFits(c, peCalls[c]) /\ peCalls[c] \in PeCall /\ o \in PeOps
      /\ peCalls[c].pc \in {"prepared", "reading"} /\ Kind(o) = "move"
      /\ UNCHANGED <<peOps, peGrants, peJournal, peTasks, peBound, peWire, peLanded, peEvents>>
      /\ peCalls \in [PeCallers -> PeCall \cup {NoCall}]
  <2>1. Busy(c)
    BY DEF PeMoveBegin, Busy
  <2> QED
    BY <2>1, CallRow DEF PeMoveBegin, PeInv, CallsFit, CallFits, Typed
<1>2. CASE MoveTodo(c, o)
  <2> DEFINE todo == peTasks[Work(o)].projects \ {Want(o)}
             pc == IF Want(o) \in peTasks[Work(o)].projects THEN "removing" ELSE "adding"
             x == [peCalls[c] EXCEPT !.pc = pc, !.todo = todo]
  <2>1. todo \in SUBSET PeValues
    BY <1>1, Requests DEF Typed, PeTask
  <2>2. peCalls' = [peCalls EXCEPT ![c] = x]
    BY <1>1, <1>2 DEF MoveTodo
  <2>3. pc \in {"removing", "adding"}
    OBVIOUS
  <2> HIDE DEF todo, pc
  <2>4. x \in PeCall /\ x.pc = pc /\ x.op = o
    BY <1>1, <2>1, <2>3 DEF PeCall
  <2> HIDE DEF x
  <2>5. CallFits(c, x)
    BY <1>1, <2>3, <2>4 DEF CallFits, Exact
  <2> QED
    BY <1>1, <2>2, <2>4, <2>5, CallGoesOn
<1>3. CASE IF peCalls[c].again THEN Goto(c, "readback", "unknown") ELSE Goto(c, "finish", "not_sent")
  <2>1. PICK pc \in {"readback", "finish"}, out \in {"unknown", "not_sent"} :
          /\ Goto(c, pc, out) /\ (pc = "finish" => ~peCalls[c].again)
    BY <1>3
  <2>2. PICK x \in PeCall : /\ peCalls' = [peCalls EXCEPT ![c] = x]
                            /\ x.pc = pc /\ x.out = out /\ x.op = peCalls[c].op
    BY <1>1, <2>1, GotoRow
  <2>3. CallFits(c, x)
    BY <1>1, <2>1, <2>2 DEF CallFits, Exact
  <2> QED
    BY <1>1, <2>2, <2>3, CallGoesOn
<1> QED
  BY <1>2, <1>3 DEF PeMoveBegin

(* addProject *)
LEMMA MoveAddKeeps ==
  ASSUME PeInv, NEW c \in PeCallers, PeMoveAdd(c)
  PROVE  PeInv' /\ OnceStep
<1> DEFINE o == peCalls[c].op
           m == [op |-> o, part |-> "add", project |-> Want(o)]
           todo == peTasks'[Work(o)].projects \ {Want(o)}
<1>1. /\ peCalls[c].pc = "adding" /\ Busy(c) /\ Working(c) /\ Typed /\ CallFits(c, peCalls[c])
      /\ UNCHANGED <<peOps, peGrants, peJournal, peBound, peEvents>>
      /\ peCalls \in [PeCallers -> PeCall \cup {NoCall}]
  BY DEF PeMoveAdd, Busy, Working, PeInv, CallsFit, Typed
<1>2. o \in PeOps /\ Kind(o) = "move" /\ Want(o) \in PeValues /\ Work(o) \in PeWorks /\ peCalls[c] \in PeCall
  BY <1>1, CallRow, Requests DEF CallFits
<1>3. PICK result \in {"answered", "rejected", "unknown"} :
        /\ Written(m, result)
        /\ IF result = "answered"
           THEN peCalls' = [peCalls EXCEPT ![c].pc = "removing", ![c].todo = todo]
           ELSE Goto(c, "readback", "unknown")
  BY DEF PeMoveAdd
<1>4. m \in PeMessage /\ m.op = o /\ PartFits(m)
  BY <1>2 DEF PeMessage, PartFits
<1> HIDE DEF m
<1>5. PICK n \in PeMessage : n = m
  BY <1>4
<1>6. CASE result = "answered"
  <2> DEFINE x == [peCalls[c] EXCEPT !.pc = "removing", !.todo = todo]
  <2>1. peTasks' \in [PeWorks -> PeTask]
    BY <1>1, <1>3, <1>4, <1>6, Landing DEF Written
  <2>2. todo \in SUBSET PeValues
    BY <1>2, <2>1 DEF PeTask
  <2>3. peCalls' = [peCalls EXCEPT ![c] = x]
    BY <1>1, <1>3, <1>6
  <2> HIDE DEF todo
  <2>4. x \in PeCall /\ x.pc = "removing" /\ x.op = o
    BY <1>2, <2>2 DEF PeCall
  <2> HIDE DEF x
  <2>5. PICK y \in PeCall : y = x
    BY <2>4
  <2> QED
    BY <1>1, <1>2, <1>3, <1>4, <1>5, <2>3, <2>4, <2>5, SendKeeps
<1>7. CASE result # "answered"
  <2>1. PICK x \in PeCall : /\ peCalls' = [peCalls EXCEPT ![c] = x]
                            /\ x.pc = "readback" /\ x.out = "unknown" /\ x.op = peCalls[c].op
    BY <1>1, <1>3, <1>7, GotoRow
  <2>2. ~Exact(o)
    BY <1>2 DEF Exact
  <2> QED
    BY <1>1, <1>2, <1>3, <1>4, <1>5, <2>1, <2>2, SendKeeps
<1> QED
  BY <1>6, <1>7

(* removeProject, once per membership to remove *)
LEMMA MoveRemoveKeeps ==
  ASSUME PeInv, NEW c \in PeCallers, PeMoveRemove(c)
  PROVE  PeInv' /\ OnceStep
<1> DEFINE o == peCalls[c].op
<1>1. /\ peCalls[c].pc = "removing" /\ Busy(c) /\ Working(c) /\ Typed /\ CallFits(c, peCalls[c])
      /\ UNCHANGED <<peOps, peGrants, peJournal, peBound, peEvents>>
      /\ peCalls \in [PeCallers -> PeCall \cup {NoCall}]
  BY DEF PeMoveRemove, Busy, Working, PeInv, CallsFit, Typed
<1>2. o \in PeOps /\ Kind(o) = "move" /\ peCalls[c] \in PeCall
  BY <1>1, CallRow DEF CallFits
<1>3. PICK result \in {"answered", "rejected", "unknown"}, p \in PeValues :
        /\ Written([op |-> o, part |-> "remove", project |-> p], result)
        /\ IF result = "answered"
           THEN peCalls' = [peCalls EXCEPT ![c].todo = @ \ {p}]
           ELSE Goto(c, "readback", "unknown")
  BY DEF PeMoveRemove
<1> DEFINE m == [op |-> o, part |-> "remove", project |-> p]
<1>4. m \in PeMessage /\ m.op = o /\ PartFits(m) /\ Written(m, result)
  BY <1>2, <1>3 DEF PeMessage, PartFits
<1> HIDE DEF m
<1>5. PICK n \in PeMessage : n = m
  BY <1>4
<1>6. CASE result = "answered"
  <2> DEFINE x == [peCalls[c] EXCEPT !.todo = peCalls[c].todo \ {p}]
  <2>1. peCalls' = [peCalls EXCEPT ![c] = x]
    BY <1>1, <1>2, <1>3, <1>6
  <2>2. x \in PeCall /\ x.pc = "removing" /\ x.op = o
    BY <1>1, <1>2 DEF PeCall
  <2> HIDE DEF x
  <2>3. PICK y \in PeCall : y = x
    BY <2>2
  <2> QED
    BY <1>1, <1>2, <1>4, <1>5, <2>1, <2>2, <2>3, SendKeeps
<1>7. CASE result # "answered"
  <2>1. PICK x \in PeCall : /\ peCalls' = [peCalls EXCEPT ![c] = x]
                            /\ x.pc = "readback" /\ x.out = "unknown" /\ x.op = peCalls[c].op
    BY <1>1, <1>3, <1>7, GotoRow
  <2>2. ~Exact(o)
    BY <1>2 DEF Exact
  <2> QED
    BY <1>1, <1>2, <1>4, <1>5, <2>1, <2>2, SendKeeps
<1> QED
  BY <1>6, <1>7

\* A placement move that ends keeps the invariant.
LEMMA MoveEndKeeps ==
  ASSUME PeInv, NEW c \in PeCallers, PeMoveEnd(c)
  PROVE  PeInv' /\ OnceStep
<1>1. /\ Busy(c) /\ Typed /\ CallFits(c, peCalls[c]) /\ peCalls[c].pc = "removing"
      /\ Goto(c, "readback", "unknown")
  BY DEF PeMoveEnd, Busy, PeInv, CallsFit
<1>2. PICK x \in PeCall : /\ peCalls' = [peCalls EXCEPT ![c] = x]
                          /\ x.pc = "readback" /\ x.out = "unknown" /\ x.op = peCalls[c].op
  BY <1>1, GotoRow
<1>3. CallFits(c, x)
  BY <1>1, <1>2 DEF CallFits, Exact
<1> QED
  BY <1>1, <1>2, <1>3, CallGoesOn DEF PeMoveEnd

-----------------------------------------------------------------------------
(* The read back confirms what was asked for, or leaves it unknown; an         *)
(* answered create is bound before its verdict.                                *)
LEMMA ReadbackKeeps ==
  ASSUME PeInv, NEW c \in PeCallers, PeReadback(c)
  PROVE  PeInv' /\ OnceStep
<1> DEFINE o == peCalls[c].op
<1>1. /\ Busy(c) /\ Working(c) /\ Typed /\ CallFits(c, peCalls[c]) /\ peCalls[c].pc = "readback"
      /\ o \in PeOps /\ OpFits(o)
      /\ UNCHANGED <<peOps, peGrants, peJournal, peTasks, peWire, peLanded, peEvents>>
  <2>1. Busy(c) /\ peCalls[c].pc = "readback" /\ Typed
    BY DEF PeReadback, Busy, PeInv
  <2> QED
    BY <2>1, CallRow DEF PeReadback, Working, PeInv, CallsFit, OpsFit
<1>2. PICK out \in {"applied", "unknown"} :
        /\ Goto(c, "finish", out)
        /\ peBound' = peBound \/ (Kind(o) = "create" /\ peBound' = peBound \cup {o})
  BY DEF PeReadback
<1>3. PICK x \in PeCall : /\ peCalls' = [peCalls EXCEPT ![c] = x]
                          /\ x.pc = "finish" /\ x.out = out /\ x.op = o
  BY <1>1, <1>2, GotoRow
<1>4. CallFits(c, x)
  BY <1>1, <1>3 DEF CallFits
<1>5. CASE peBound' = peBound
  BY <1>1, <1>3, <1>4, <1>5, CallGoesOn
<1>6. CASE Kind(o) = "create" /\ peBound' = peBound \cup {o}
  <2>1. /\ \A p \in PeOps : Same(p) /\ \A q : Kind(q)' = Kind(q)
    BY <1>1 DEF Same, Pending, Kind
  <2>2. CallFits(c, x)'
    BY <1>1, <1>3, <1>4, <2>1, FitsStay DEF Same, Unresolved
  <2>3. /\ peCalls' \in [PeCallers -> PeCall \cup {NoCall}]
        /\ CallsFit' /\ LocksHold' /\ OneUnresolvedEffect'
    <3>1. \A p \in PeOps : Unresolved(p)' => Unresolved(p)
      BY <1>1 DEF Unresolved
    <3> QED
      BY <1>1, <1>3, <2>1, <2>2, <3>1, CallTurns
  <2>4. peLanded[o] = 1
    BY <1>1, <1>6 DEF CallFits, Exact
  <2>5. OpsFit'
    <3>1. SUFFICES ASSUME NEW p \in PeOps PROVE OpFits(p)'
      BY DEF OpsFit
    <3>2. OpFits(p)
      BY DEF PeInv, OpsFit
    <3>3. CASE p # o
      BY <1>1, <1>6, <2>1, <3>2, <3>3, OpStays DEF Same
    <3>4. CASE p = o
      BY <1>1, <1>6, <2>1, <2>4, <3>2, <3>4 DEF OpFits, Untouched, Exact, Same
    <3> QED
      BY <3>3, <3>4
  <2>6. WireFits' /\ Typed' /\ GrantsCounted'
    BY <1>1, <1>6, <2>1, <2>3 DEF PeInv, WireFits, PartFits, Typed, GrantsCounted
  <2> QED
    BY <1>1, <2>3, <2>5, <2>6 DEF PeInv, OnceStep, VerdictsStay
<1> QED
  BY <1>2, <1>5, <1>6

(* _reconcile of an unresolved operation *)
LEMMA RecoverKeeps ==
  ASSUME PeInv, NEW c \in PeCallers, PeRecover(c)
  PROVE  PeInv' /\ OnceStep
<1> DEFINE o == peCalls[c].op
<1>1. /\ Busy(c) /\ Typed /\ CallFits(c, peCalls[c]) /\ peCalls[c].pc = "recover"
      /\ o \in PeOps /\ OpFits(o) /\ peCalls[c] \in PeCall
      /\ peCalls \in [PeCallers -> PeCall \cup {NoCall}]
      /\ UNCHANGED <<peOps, peGrants, peJournal, peTasks, peBound, peWire, peLanded, peEvents>>
  <2>1. Busy(c) /\ peCalls[c].pc = "recover" /\ Typed
    BY DEF PeRecover, Busy, PeInv
  <2> QED
    BY <2>1, CallRow DEF PeRecover, PeInv, CallsFit, OpsFit, Typed
<1>2. Kind(o) \in {"update", "relate", "move", "create"}
  BY <1>1, Requests DEF CallFits
<1>3. CASE Kind(o) = "create"
  <2>1. PICK out \in {"applied", "unknown"} :
          Goto(c, "finish", out) /\ (out = "applied" => o \in peBound)
    <3>1. Goto(c, "finish", IF o \in peBound THEN "applied" ELSE "unknown")
      BY <1>3 DEF PeRecover, RecoverCreate
    <3> QED
      BY <3>1
  <2>2. PICK x \in PeCall : /\ peCalls' = [peCalls EXCEPT ![c] = x]
                            /\ x.pc = "finish" /\ x.out = out /\ x.op = peCalls[c].op
    BY <1>1, <2>1, GotoRow
  <2>3. CallFits(c, x)
    BY <1>1, <2>1, <2>2 DEF CallFits, OpFits
  <2> QED
    BY <1>1, <2>2, <2>3, CallGoesOn
<1>4. CASE Kind(o) # "create" /\ Goto(c, "readback", "unknown")
  <2>1. PICK x \in PeCall : /\ peCalls' = [peCalls EXCEPT ![c] = x]
                            /\ x.pc = "readback" /\ x.out = "unknown" /\ x.op = peCalls[c].op
    BY <1>1, <1>4, GotoRow
  <2>2. CallFits(c, x)
    BY <1>1, <1>2, <1>4, <2>1 DEF CallFits, Exact
  <2> QED
    BY <1>1, <2>1, <2>2, CallGoesOn
<1>5. CASE /\ Kind(o) = "move"
           /\ peCalls' = [peCalls EXCEPT ![c].pc = "reading", ![c].again = TRUE]
  <2> DEFINE x == [peCalls[c] EXCEPT !.pc = "reading", !.again = TRUE]
  <2>1. peCalls' = [peCalls EXCEPT ![c] = x]
    BY <1>1, <1>5
  <2>2. x \in PeCall /\ x.pc = "reading" /\ x.again = TRUE /\ x.op = o
    BY <1>1 DEF PeCall
  <2> HIDE DEF x
  <2>3. CallFits(c, x)
    BY <1>1, <1>5, <2>2 DEF CallFits
  <2> QED
    BY <1>1, <2>1, <2>2, <2>3, CallGoesOn
<1> QED
  BY <1>2, <1>3, <1>4, <1>5 DEF PeRecover, RecoverUpdate, RecoverRelation

(* The verdict is recorded. *)
LEMMA FinishKeeps ==
  ASSUME PeInv, NEW c \in PeCallers, PeFinish(c)
  PROVE  PeInv' /\ OnceStep
<1>1. PICK o \in PeOps, out \in {"unknown", "applied", "not_sent"} :
        /\ Busy(c) /\ Working(c) /\ Typed /\ CallFits(c, peCalls[c]) /\ OpFits(o)
        /\ peCalls[c].pc = "finish" /\ o = peCalls[c].op /\ out = peCalls[c].out
        /\ peJournal[o].effect = "unknown" /\ peJournal[o] \in PeIntent
  <2>1. Busy(c) /\ Working(c) /\ Typed /\ peCalls[c].pc = "finish" /\ CallFits(c, peCalls[c])
    BY DEF PeFinish, Busy, Working, PeInv, CallsFit
  <2>2. peCalls[c] \in PeCall /\ peCalls[c].op \in PeOps
    BY <2>1, CallRow
  <2>3. peJournal[peCalls[c].op].effect = "unknown" /\ peJournal[peCalls[c].op] \in PeIntent
    BY <2>1, <2>2, JournalRow DEF CallFits, Recorded
  <2> QED
    BY <2>1, <2>2, <2>3 DEF PeCall, PeInv, OpsFit
<1> DEFINE row == [peJournal[o] EXCEPT !.effect = out]
<1>2. /\ peCalls' = [peCalls EXCEPT ![c] = NoCall]
      /\ UNCHANGED <<peOps, peGrants, peTasks, peBound, peWire, peLanded, peEvents>>
      /\ \A p : Kind(p)' = Kind(p) /\ Work(p)' = Work(p)
  BY DEF PeFinish, Kind, Work
<1>3. peJournal' = [peJournal EXCEPT ![o] = row]
  BY <1>1 DEF PeFinish, Typed
<1>4. row \in PeIntent /\ row.effect = out
  BY <1>1 DEF PeIntent
<1> HIDE DEF row
<1>5. /\ peJournal' \in [PeOps -> PeIntent \cup {NoIntent}] /\ peJournal'[o].effect = out
      /\ \A p \in PeOps : p # o => peJournal'[p] = peJournal[p]
  BY <1>1, <1>3, <1>4 DEF Typed
<1>6. \A p \in PeOps : (Pending(p)' <=> Pending(p)) /\ peLanded'[p] = peLanded[p]
  BY <1>2 DEF Pending
<1>7. /\ peCalls' \in [PeCallers -> PeCall \cup {NoCall}]
      /\ CallsFit' /\ LocksHold' /\ OneUnresolvedEffect'
  <2>1. \A p \in PeOps : (Working(c) /\ p = peCalls[c].op) \/ Same(p)
    BY <1>1, <1>5, <1>6 DEF Same
  <2>2. \A p \in PeOps : Unresolved(p)' => Unresolved(p)
    BY <1>1, <1>5 DEF Unresolved
  <2> QED
    BY <1>1, <1>2, <2>1, <2>2, CallTurns
<1>8. /\ out = "not_sent" => Untouched(o)
      /\ out = "applied" /\ Exact(o) => peLanded[o] = 1
  BY <1>1 DEF CallFits
<1>9. OpsFit'
  <2>1. SUFFICES ASSUME NEW p \in PeOps PROVE OpFits(p)'
    BY DEF OpsFit
  <2>2. CASE p # o
    BY <1>2, <1>5, <1>6, <2>2, OpStays DEF PeInv, OpsFit
  <2>3. CASE p = o
    BY <1>1, <1>2, <1>5, <1>6, <1>8, <2>3 DEF OpFits, Untouched, Exact
  <2> QED
    BY <2>2, <2>3
<1>10. Typed' /\ GrantsCounted' /\ WireFits'
  BY <1>2, <1>5, <1>7 DEF PeInv, Typed, GrantsCounted, WireFits, PartFits
<1>11. OnceStep
  <2>1. Moves(o, out) /\ peOps' = peOps /\ peLanded' = peLanded
    BY <1>2, <1>5 DEF Moves
  <2>2. CASE out = "unknown"
    BY <1>1, <2>1, <2>2 DEF Moves, VerdictsStay, OnceStep
  <2>3. CASE out = "applied"
    BY <1>1, <1>8, <2>1, <2>3 DEF OnceStep
  <2>4. CASE out = "not_sent"
    BY <1>1, <1>8, <2>1, <2>4 DEF OnceStep, Untouched
  <2> QED
    BY <2>2, <2>3, <2>4
<1> QED
  BY <1>7, <1>9, <1>10, <1>11 DEF PeInv

(* The call is gone, the journal stays. *)
LEMMA AbandonKeeps ==
  ASSUME PeInv, NEW c \in PeCallers, PeAbandon(c)
  PROVE  PeInv' /\ OnceStep
BY CallGoesOn DEF PeAbandon

-----------------------------------------------------------------------------
(* Every step of the gateways keeps the invariant and is one of EffectOnce's. *)
LEMMA NextKeepsEffects ==
  ASSUME PeInv, [PeNext]_peVars
  PROVE  PeInv' /\ OnceStep
<1>1. CASE UNCHANGED peVars
  <2>1. UNCHANGED <<peOps, peCalls, peJournal, peLanded, peBound, peWire, peGrants, peTasks, peEvents>>
    BY <1>1 DEF peVars
  <2>2. WireFits' /\ OpsFit' /\ CallsFit' /\ LocksHold' /\ OneUnresolvedEffect' /\ OnceStep
    BY <2>1, TablesStay
  <2> QED
    BY <2>1, <2>2 DEF PeInv, Typed, GrantsCounted
<1> QED
  BY <1>1, WorldKeeps, LateArrivalKeeps, AdmissionKeeps, PrepareKeeps, ExpiredKeeps, PeSendKeeps,
     MoveBeginKeeps, MoveAddKeeps, MoveRemoveKeeps, MoveEndKeeps, ReadbackKeeps, RecoverKeeps,
     FinishKeeps, AbandonKeeps DEF PeNext

(* At the start nothing is recorded, sent or in progress. *)
LEMMA InitEffects ==
  ASSUME PeInit
  PROVE  PeInv
<1>1. Typed
  <2>1. \A v \in PeValues : [rev |-> 0, open |-> TRUE, scalar |-> v, relation |-> v,
                             projects |-> {v}] \in PeTask
    BY DEF PeTask
  <2>2. peTasks \in [PeWorks -> PeTask]
    BY <2>1 DEF PeInit
  <2>3. MaxEvents \in Nat
    BY ProviderConstants DEF ProviderConstants
  <2>4. peGrants \in [PeCallers -> [version : 1..MaxEvents + 1, current : BOOLEAN]]
    BY <2>3 DEF PeInit
  <2>5. /\ peJournal \in [PeOps -> PeIntent \cup {NoIntent}]
        /\ peLanded \in [PeOps -> Nat] /\ peCalls \in [PeCallers -> PeCall \cup {NoCall}]
        /\ peBound \subseteq PeOps /\ peWire \subseteq PeMessage /\ peOps \in [PeOps -> PeRequests]
    BY DEF PeInit
  <2>6. peEvents \in 0..MaxEvents
    BY <2>3 DEF PeInit
  <2> QED
    BY <2>2, <2>4, <2>5, <2>6 DEF Typed
<1>2. /\ \A c \in PeCallers : ~Busy(c)
      /\ \A o \in PeOps : peJournal[o].effect = "none" /\ Untouched(o)
  BY DEF PeInit, Busy, NoCall, NoIntent, Untouched, Pending
<1>3. GrantsCounted /\ WireFits
  BY DEF PeInit, GrantsCounted, WireFits
<1>4. OpsFit
  BY <1>2 DEF PeInit, OpsFit, OpFits, Untouched
<1>5. CallsFit /\ LocksHold /\ OneUnresolvedEffect
  BY <1>2 DEF CallsFit, LocksHold, OneUnresolvedEffect, Unresolved
<1> QED
  BY <1>1, <1>3, <1>4, <1>5 DEF PeInv

\* The inductive invariant holds in every reachable state.
LEMMA EffectsInvariant == PeSpec => []PeInv
<1>1. PeInit => PeInv
  BY InitEffects
<1>2. PeInv /\ [PeNext]_peVars => PeInv'
  BY NextKeepsEffects
<1> QED
  BY <1>1, <1>2, PTL DEF PeSpec

(* Through lost answers, late arrivals, retries, expired grants and calls that *)
(* die, the journal of the gateways (grant_state.previous, unresolved_create)  *)
(* never holds two unresolved effects on one work.                             *)
THEOREM JournalStaysSound == PeSpec => []JournalIsSound
<1>1. PeInv => JournalIsSound
  <2>1. SUFFICES ASSUME PeInv PROVE PeTypeOK
    BY DEF PeInv, JournalIsSound
  <2>2. Typed
    BY <2>1 DEF PeInv
  <2>3. \A o \in PeOps : peJournal[o].effect \in {"none", "unknown", "applied", "not_sent"}
    BY <2>2, JournalRow
  <2>4. \A c \in PeCallers : peCalls[c].pc \in
          {"idle", "admitted", "prepared", "reading", "adding", "removing",
           "readback", "recover", "finish"}
    BY <2>2 DEF Typed, PeCall, NoCall
  <2> QED
    BY <2>2, <2>3, <2>4 DEF Typed, PeTypeOK, PeTask, PeMessage
<1> QED
  BY <1>1, EffectsInvariant, PTL

(* A step of the journal is a step of EffectOnce under its mapping. *)
LEMMA OnceStepRefines ==
  ASSUME Typed, OnceStep, Typed'
  PROVE  [Once!OnceNext]_(Once!onceVars)
<1> DEFINE promised(o) == CASE Kind(o) \in {"append", "create"} -> "exact"
                            [] Kind(o) = "move" -> "repeatable"
                            [] OTHER -> "converging"
           promise == [o \in PeOps |-> promised(o)]
           verdict == [o \in PeOps |-> peJournal[o].effect]
<1>1. promise' = promise
  BY DEF OnceStep, Kind
<1>2. \A o \in PeOps : /\ promise[o] = "exact" <=> Exact(o)
                       /\ promise[o] = "repeatable" <=> Kind(o) = "move"
  BY DEF Exact
<1>3. VerdictsStay => verdict' = verdict
  BY DEF VerdictsStay
<1>4. \A v : \A o \in PeOps : Moves(o, v) => verdict' = [verdict EXCEPT ![o] = v]
  BY DEF Moves
<1>5. CASE VerdictsStay /\ UNCHANGED peLanded
  BY <1>1, <1>3, <1>5 DEF Once!onceVars
<1>6. ASSUME NEW o \in PeOps, peJournal[o].effect = "none", Moves(o, "unknown"), UNCHANGED peLanded
      PROVE  Once!Open(o)
  BY <1>1, <1>4, <1>6 DEF Once!Open
<1>7. ASSUME NEW o \in PeOps,
             peJournal[o].effect \in IF Exact(o) THEN {"unknown"} ELSE {"unknown", "applied"},
             Kind(o) = "move" \/ peLanded[o] = 0,
             VerdictsStay, peLanded' = [peLanded EXCEPT ![o] = @ + 1]
      PROVE  Once!TakeEffect(o)
  BY <1>1, <1>2, <1>3, <1>7 DEF Once!TakeEffect
<1>8. ASSUME NEW o \in PeOps, peJournal[o].effect = "unknown", UNCHANGED peLanded,
             \/ Moves(o, "applied") /\ (Exact(o) => peLanded[o] = 1)
             \/ Moves(o, "not_sent") /\ peLanded[o] = 0
      PROVE  Once!Settle(o)
  BY <1>1, <1>2, <1>4, <1>8 DEF Once!Settle
<1> QED
  BY <1>5, <1>6, <1>7, <1>8 DEF OnceStep, Once!OnceNext

(* The gateways implement EffectOnce: an append or a create takes effect once   *)
(* at most and only while its verdict is open, what is reported as not sent     *)
(* never takes effect, and no verdict is revised, whatever is lost or late.     *)
THEOREM GatewaysImplementEffectOnce == PeSpec => EffectsHappenAsRecorded
<1>1. PeInit => Once!OnceInit
  BY DEF PeInit, Once!OnceInit, NoIntent
<1>2. PeInv /\ PeInv' /\ [PeNext]_peVars => [Once!OnceNext]_(Once!onceVars)
  BY NextKeepsEffects, OnceStepRefines DEF PeInv
<1> QED
  BY <1>1, <1>2, EffectsInvariant, PTL DEF PeSpec, EffectsHappenAsRecorded, Once!OnceSpec

-----------------------------------------------------------------------------
(***************************************************************************)
(* TokenRefresh: the refreshes of the edge's OAuth provider are sound for   *)
(* any requests, authorizations, pairs and replay window.                   *)
(*                                                                         *)
(* The argument: one request at a time is past the refresh lock, so only    *)
(* that one relies on the store; a credential other than the shared one is  *)
(* bound to one refresh token that can be used, so clearing it away after   *)
(* its pair was rebound leaves no mapping behind; a replay leads to the     *)
(* pair issued for its token; and, as long as nothing went wrong, every     *)
(* credential a request may take to GitHub is the one GitHub has now, while *)
(* GitHub has moved past everything that was spent.                         *)
(***************************************************************************)

\* Ids credentials are stored under, credentials, mappings, pairs and requests.
TokenIds == TfLines \cup {Shared}
Credentials == [line : TfLines, n : Nat]
Mappings == {Unmapped} \cup {<<u>> : u \in TokenIds}
TokenPairs == [from : Nat, stored : BOOLEAN, refresh : Mappings, access : Mappings]
Replays == [pair : Nat, old : BOOLEAN, rank : Nat]

LoadedRequests == [at : {"loaded"}, token : Nat]
RefreshRequests == [at : {"rebind", "present"}, token : Nat, use : {"refresh"}, again : BOOLEAN]
AccessRequests == [at : {"rebind", "own"}, token : Nat, use : {"access"}]
ReceivedRequests == [at : {"received"}, token : Nat, up : TokenIds, cred : Credentials]
SharingRequests == [at : {"share", "bind", "clear"}, token : Nat, up : TokenIds, pair : Nat]
AnswerRequests == [at : {"answer"}, token : Nat, pair : Nat]
TokenRequests == {Resting} \cup LoadedRequests \cup RefreshRequests \cup AccessRequests
                   \cup ReceivedRequests \cup SharingRequests \cup AnswerRequests

TokenTyped ==
  /\ tfGit \in [TfLines -> [n : Nat, aged : BOOLEAN, ok : BOOLEAN]]
  /\ tfUp \in [TokenIds -> Credentials \cup {NoCred}]
  /\ \A l \in TfLines : tfUp[l] # NoCred => tfUp[l].line = l
  /\ tfPair \in Seq(TokenPairs)
  /\ tfReplay \in [Replayed -> Replays]
  /\ tfCall \in [TfCalls -> TokenRequests]
  /\ tfKnown \subseteq DOMAIN tfPair
  /\ tfSpent \subseteq Credentials
  /\ tfUpsets \in Nat

\* GitHub has moved past what was spent.
SpentBehind == \A c \in tfSpent : c.n < tfGit[c.line].n

\* One request at a time is past the refresh lock.
Loose == {"idle", "loaded", "answer"}
Holder(r) == tfCall[r].at \notin Loose
OneHolder == \A r, q \in TfCalls : Holder(r) /\ Holder(q) => r = q

\* A replay leads to the pair issued for its token.
ReplaysFit ==
  \A t \in Replayed : /\ t \in DOMAIN tfPair /\ tfReplay[t].pair \in DOMAIN tfPair
                      /\ tfPair[tfReplay[t].pair].from = t

\* A credential of its own is bound to one refresh token that can be used.
OneBinding ==
  \A p, q \in DOMAIN tfPair :
    /\ tfPair[p].stored /\ tfPair[q].stored
    /\ tfPair[p].refresh = tfPair[q].refresh /\ tfPair[p].refresh \notin {Unmapped, <<Shared>>}
    => p = q

\* What a request relies on, by the place it has reached.
RequestFits(c) ==
  /\ c.at \in {"loaded", "rebind", "present", "own", "received"} => c.token \in DOMAIN tfPair
  /\ c.at = "received" => /\ tfPair[c.token].stored /\ tfPair[c.token].refresh = <<c.up>>
                          /\ c.up # Shared => c.cred.line = c.up
  /\ c.at \in {"share", "bind", "clear"} =>
       /\ c.token \in {0} \cup DOMAIN tfPair /\ c.pair \in DOMAIN tfPair
       /\ tfPair[c.pair].stored /\ tfPair[c.pair].from = c.token
  /\ c.at \in {"share", "bind"} => tfPair[c.pair].refresh = <<c.up>>
  /\ c.at = "bind" => tfUp[Shared] # NoCred
  /\ c.at = "clear" =>
       /\ tfPair[c.pair].refresh = <<Shared>>
       /\ c.up # Shared => \A p \in DOMAIN tfPair : tfPair[p].stored => tfPair[p].refresh # <<c.up>>
  /\ c.at = "answer" => c.pair \in DOMAIN tfPair

RefreshInv ==
  /\ TokenTyped /\ SpentBehind /\ OneHolder /\ ReplaysFit /\ OneBinding /\ MappedCredentialExists
  /\ \A r \in TfCalls : RequestFits(tfCall[r])

\* The rest holds as long as nothing went wrong.  c is the credential GitHub has now.
Fresh(c) == c # NoCred /\ tfGit[c.line].n = c.n

\* A credential that was spent and whose successor is not stored yet.
Unsaved(u) == \E r \in TfCalls : tfCall[r].at = "received" /\ tfCall[r].up = u
Usable(u) == tfUp[u] = NoCred \/ Fresh(tfUp[u]) \/ Unsaved(u)

\* A request goes to GitHub with the shared credential, or before there is one.
RequestIsFresh(c) ==
  /\ c.at = "present" => tfPair[c.token].refresh \in {Unmapped, <<Shared>>} \/ tfUp[Shared] = NoCred
  /\ c.at = "received" => Fresh(c.cred) /\ (c.up # Shared => tfUp[Shared] = NoCred)
  /\ c.at = "own" => tfUp[Shared] = NoCred
  /\ c.at = "share" => Fresh(tfUp[c.up])

FreshInv ==
  /\ \A l \in TfLines : tfGit[l].ok
  /\ Usable(Shared)
  /\ tfUp[Shared] = NoCred => \A l \in TfLines : Usable(l)
  /\ \A r \in TfCalls : RequestIsFresh(tfCall[r])

TokenInv == RefreshInv /\ (tfUpsets = 0 => FreshInv)

\* The fields of a request follow from its place.
LEMMA RequestShapes ==
  ASSUME NEW c \in TokenRequests
  PROVE  /\ c.at = "loaded" => c \in LoadedRequests
         /\ c.at = "present" => c \in RefreshRequests
         /\ c.at = "rebind" => c \in RefreshRequests \/ c \in AccessRequests
         /\ c.at = "own" => c \in AccessRequests
         /\ c.at = "received" => c \in ReceivedRequests
         /\ c.at \in {"share", "bind", "clear"} => c \in SharingRequests
         /\ c.at = "answer" => c \in AnswerRequests
BY DEF TokenRequests, LoadedRequests, RefreshRequests, AccessRequests, ReceivedRequests,
       SharingRequests, AnswerRequests, Resting

\* Nobody but r is past the lock.
HasLock(r) == \A q \in TfCalls : q # r => tfCall[q].at \in Loose

\* Whoever is past the lock, or about to take it while it is free, is alone there.
LEMMA HolderIsAlone ==
  ASSUME OneHolder, NEW r \in TfCalls, Holder(r) \/ RefreshLockFree PROVE HasLock(r)
BY DEF OneHolder, Holder, RefreshLockFree, HasLock, Loose

\* A step of the request that is alone past the lock leaves the others what they rely on.
LEMMA RequestFrame ==
  ASSUME TokenTyped, \A q \in TfCalls : RequestFits(tfCall[q]),
         NEW r \in TfCalls, HasLock(r), NEW c \in TokenRequests,
         tfCall' = [tfCall EXCEPT ![r] = c], DOMAIN tfPair \subseteq DOMAIN tfPair', RequestFits(c)'
  PROVE  /\ tfCall' \in [TfCalls -> TokenRequests] /\ OneHolder'
         /\ \A q \in TfCalls : RequestFits(tfCall[q])'
<1>1. tfCall \in [TfCalls -> TokenRequests] BY DEF TokenTyped
<1>2. tfCall' \in [TfCalls -> TokenRequests] BY <1>1
<1>3. tfCall'[r] = c /\ \A q \in TfCalls : q # r => tfCall'[q] = tfCall[q] BY <1>1
<1>4. OneHolder' BY <1>3 DEF OneHolder, Holder, HasLock
<1>5. ASSUME NEW q \in TfCalls, q # r PROVE RequestFits(tfCall[q])'
  <2>1. PICK d : d = tfCall[q] OBVIOUS
  <2>2. d.at \in Loose /\ RequestFits(d) BY <2>1, <1>5 DEF HasLock
  <2>3. RequestFits(d)' BY <2>2 DEF RequestFits, Loose
  <2> QED BY <1>3, <1>5, <2>1, <2>3
<1> QED BY <1>2, <1>3, <1>4, <1>5

\* A request outside the lock moves to another place outside it.
LEMMA LooseFrame ==
  ASSUME TokenTyped, OneHolder, \A q \in TfCalls : RequestFits(tfCall[q]),
         NEW r \in TfCalls, tfCall[r].at \in Loose, NEW c \in TokenRequests, c.at \in Loose,
         tfCall' = [tfCall EXCEPT ![r] = c], UNCHANGED <<tfPair, tfUp>>, RequestFits(c)
  PROVE  /\ tfCall' \in [TfCalls -> TokenRequests] /\ OneHolder'
         /\ \A q \in TfCalls : RequestFits(tfCall[q])'
<1>1. tfCall \in [TfCalls -> TokenRequests] BY DEF TokenTyped
<1>2. tfCall' \in [TfCalls -> TokenRequests] BY <1>1
<1>3. tfCall'[r] = c /\ \A q \in TfCalls : q # r => tfCall'[q] = tfCall[q] BY <1>1
<1>4. OneHolder' BY <1>3 DEF OneHolder, Holder
<1>5. \A d : RequestFits(d) => RequestFits(d)' BY DEF RequestFits
<1>6. ASSUME NEW q \in TfCalls PROVE RequestFits(tfCall[q])'
  <2>1. PICK d : d = tfCall'[q] OBVIOUS
  <2>2. RequestFits(d) BY <2>1, <1>3
  <2>3. RequestFits(d)' BY <2>2, <1>5
  <2> QED BY <2>1, <2>3
<1> QED BY <1>2, <1>4, <1>6

\* One pair changes.
LEMMA PairChanges ==
  ASSUME tfPair \in Seq(TokenPairs), NEW p \in DOMAIN tfPair, NEW v \in TokenPairs,
         tfPair' = [tfPair EXCEPT ![p] = v]
  PROVE  /\ tfPair' \in Seq(TokenPairs) /\ DOMAIN tfPair' = DOMAIN tfPair
         /\ tfPair'[p] = v /\ \A q \in DOMAIN tfPair : q # p => tfPair'[q] = tfPair[q]
BY ExceptSeq

\* A pair keeps its origin and its use, and is bound to nothing but what it was bound to or
\* the shared credential.
LEMMA PairRebound ==
  ASSUME TokenTyped, ReplaysFit, OneBinding, MappedCredentialExists,
         NEW p \in DOMAIN tfPair, NEW v \in TokenPairs, tfPair' = [tfPair EXCEPT ![p] = v],
         v.from = tfPair[p].from, v.stored = tfPair[p].stored,
         v.refresh \in {tfPair[p].refresh, <<Shared>>, Unmapped},
         v.refresh = <<Shared>> => tfUp'[Shared] # NoCred,
         \A u \in TokenIds : tfUp[u] # NoCred => tfUp'[u] # NoCred,
         UNCHANGED tfReplay
  PROVE  /\ tfPair' \in Seq(TokenPairs) /\ DOMAIN tfPair' = DOMAIN tfPair
         /\ ReplaysFit' /\ OneBinding' /\ MappedCredentialExists'
<1>1. /\ tfPair' \in Seq(TokenPairs) /\ DOMAIN tfPair' = DOMAIN tfPair
      /\ tfPair'[p] = v /\ \A q \in DOMAIN tfPair : q # p => tfPair'[q] = tfPair[q]
  BY PairChanges DEF TokenTyped
<1>2. \A q \in DOMAIN tfPair : tfPair'[q].from = tfPair[q].from /\ tfPair'[q].stored = tfPair[q].stored
  BY <1>1
<1>3. ReplaysFit' BY <1>1, <1>2 DEF ReplaysFit, Replayed
<1>4. \A q \in DOMAIN tfPair : tfPair'[q].refresh \in {tfPair[q].refresh, <<Shared>>, Unmapped}
  BY <1>1
<1>5. OneBinding' BY <1>1, <1>2, <1>4 DEF OneBinding
<1>6. ASSUME NEW q \in DOMAIN tfPair', tfPair'[q].stored, tfPair'[q].refresh # Unmapped
      PROVE  tfUp'[tfPair'[q].refresh[1]] # NoCred
  <2>1. tfPair[q].stored /\ tfPair[q] \in TokenPairs BY <1>1, <1>2, <1>6 DEF TokenTyped
  <2>2. CASE tfPair'[q].refresh = tfPair[q].refresh
    <3>1. PICK u \in TokenIds : tfPair[q].refresh = <<u>>
      BY <1>6, <2>1, <2>2 DEF TokenPairs, Mappings
    <3>2. <<u>>[1] = u OBVIOUS
    <3>3. tfUp[u] # NoCred BY <1>1, <1>6, <2>1, <2>2, <3>1, <3>2 DEF MappedCredentialExists
    <3> QED BY <2>2, <3>1, <3>2, <3>3
  <2>3. CASE tfPair'[q].refresh # tfPair[q].refresh
    <3>1. q = p /\ tfPair'[q].refresh = <<Shared>> BY <1>1, <1>4, <1>6, <2>3
    <3>2. <<Shared>>[1] = Shared OBVIOUS
    <3> QED BY <1>1, <3>1, <3>2
  <2> QED BY <2>2, <2>3
<1>7. MappedCredentialExists' BY <1>6 DEF MappedCredentialExists
<1> QED BY <1>1, <1>3, <1>5, <1>7

\* With the pairs as they are, credentials may come but not go.
LEMMA PairsUnchanged ==
  ASSUME TokenTyped, OneBinding, MappedCredentialExists, UNCHANGED tfPair,
         \A u \in TokenIds : tfUp[u] # NoCred => tfUp'[u] # NoCred
  PROVE  OneBinding' /\ MappedCredentialExists'
<1>1. OneBinding' BY DEF OneBinding
<1>2. ASSUME NEW q \in DOMAIN tfPair, tfPair[q].stored, tfPair[q].refresh # Unmapped
      PROVE  tfUp'[tfPair[q].refresh[1]] # NoCred
  <2>1. tfPair[q] \in TokenPairs BY DEF TokenTyped
  <2>2. PICK u \in TokenIds : tfPair[q].refresh = <<u>> BY <1>2, <2>1 DEF TokenPairs, Mappings
  <2>3. <<u>>[1] = u OBVIOUS
  <2> QED BY <1>2, <2>2, <2>3 DEF MappedCredentialExists
<1> QED BY <1>1, <1>2 DEF MappedCredentialExists

\* Reordering the replays keeps where they lead.
LEMMA KeptFits ==
  ASSUME TokenTyped, ReplaysFit, NEW T \in SUBSET Replayed
  PROVE  /\ Kept(T) \in [T -> Replays] /\ Cardinality(T) \in Nat
         /\ \A u \in T : Kept(T)[u].pair = tfReplay[u].pair
<1>1. IsFiniteSet(T)
  <2>1. DOMAIN tfPair = 1..Len(tfPair) /\ Len(tfPair) \in Nat BY DEF TokenTyped
  <2>2. IsFiniteSet(1..Len(tfPair)) BY <2>1, FS_Interval
  <2>3. T \subseteq 1..Len(tfPair) BY <2>1 DEF ReplaysFit
  <2> QED BY <2>2, <2>3, FS_Subset
<1>2. ASSUME NEW u \in T
      PROVE  Cardinality({v \in T : tfReplay[v].rank < tfReplay[u].rank}) \in Nat
  <2>1. IsFiniteSet({v \in T : tfReplay[v].rank < tfReplay[u].rank})
    BY <1>1, FS_Subset
  <2> QED BY <2>1, FS_CardinalityType
<1>3. Cardinality(T) \in Nat BY <1>1, FS_CardinalityType
<1>4. \A u \in T : tfReplay[u] \in Replays BY DEF TokenTyped
<1>5. \A u \in T : tfReplay[u].pair \in Nat /\ tfReplay[u].old \in BOOLEAN BY <1>4 DEF Replays
<1> QED BY <1>2, <1>3, <1>5 DEF Kept, Replays

\* A pair issued for a token is remembered as its replay.
LEMMA NewestFits ==
  ASSUME TokenTyped, ReplaysFit, NEW T \in SUBSET Replayed, NEW t \in DOMAIN tfPair,
         NEW p \in DOMAIN tfPair, tfPair[p].from = t
  PROVE  /\ Newest(T, t, p) \in [T \cup {t} -> Replays]
         /\ \A u \in T \cup {t} : /\ u \in DOMAIN tfPair /\ Newest(T, t, p)[u].pair \in DOMAIN tfPair
                                  /\ tfPair[Newest(T, t, p)[u].pair].from = u
<1>1. /\ Kept(T) \in [T -> Replays] /\ Cardinality(T) \in Nat
      /\ \A u \in T : Kept(T)[u].pair = tfReplay[u].pair
  BY KeptFits
<1>2. p \in Nat BY DEF TokenTyped
<1>3. [pair |-> p, old |-> FALSE, rank |-> Cardinality(T)] \in Replays BY <1>1, <1>2 DEF Replays
<1>4. Newest(T, t, p) \in [T \cup {t} -> Replays] BY <1>1, <1>3 DEF Newest
<1>5. Newest(T, t, p)[t].pair = p BY DEF Newest
<1>6. \A u \in T : u # t => Newest(T, t, p)[u].pair = tfReplay[u].pair BY <1>1 DEF Newest
<1> QED BY <1>4, <1>5, <1>6 DEF ReplaysFit

\* Looking a replay up keeps where replays lead.
LEMMA TouchedFits ==
  ASSUME TokenTyped, ReplaysFit, NEW t, tfReplay' = Touched(t), UNCHANGED tfPair
  PROVE  tfReplay' \in [DOMAIN tfReplay' -> Replays] /\ ReplaysFit'
<1> DEFINE T == Replayed \ {t}
<1>1. T \in SUBSET Replayed OBVIOUS
<1>2. CASE ReplayHolds(t)
  <2>1. t \in Replayed BY <1>2 DEF ReplayHolds
  <2>2. PICK p : p = tfReplay[t].pair OBVIOUS
  <2>3. t \in DOMAIN tfPair /\ p \in DOMAIN tfPair /\ tfPair[p].from = t BY <2>1, <2>2 DEF ReplaysFit
  <2>4. tfReplay' = Newest(T, t, p) BY <1>2, <2>2 DEF Touched
  <2> HIDE DEF T
  <2>5. /\ tfReplay' \in [T \cup {t} -> Replays]
        /\ \A u \in T \cup {t} : /\ u \in DOMAIN tfPair /\ tfReplay'[u].pair \in DOMAIN tfPair
                                 /\ tfPair[tfReplay'[u].pair].from = u
    <3>1. /\ Newest(T, t, p) \in [T \cup {t} -> Replays]
          /\ \A u \in T \cup {t} : /\ u \in DOMAIN tfPair /\ Newest(T, t, p)[u].pair \in DOMAIN tfPair
                                   /\ tfPair[Newest(T, t, p)[u].pair].from = u
      BY <1>1, <2>3, NewestFits
    <3> QED BY <2>4, <3>1
  <2> QED BY <2>5 DEF ReplaysFit, Replayed
<1>3. CASE ~ReplayHolds(t)
  <2>1. tfReplay' = Kept(T) BY <1>3 DEF Touched
  <2> HIDE DEF T
  <2>2. /\ tfReplay' \in [T -> Replays] /\ \A u \in T : tfReplay'[u].pair = tfReplay[u].pair
    BY <1>1, <2>1, KeptFits
  <2> QED BY <1>1, <2>2 DEF ReplaysFit, Replayed
<1> QED BY <1>2, <1>3

\* Zero names no authorization.
LEMMA CredentialsExist == \A c \in Credentials : c # NoCred /\ c.line \in TfLines /\ c.line # 0 /\ c.n \in Nat
BY TokenConstants DEF TokenConstants, Credentials, NoCred

\* A credential is spent: GitHub has its successor, and everything else as it was.
LEMMA SpendFits ==
  ASSUME TokenTyped, SpentBehind, NEW c \in Credentials, Spend(c)
  PROVE  /\ tfGit' \in [TfLines -> [n : Nat, aged : BOOLEAN, ok : BOOLEAN]]
         /\ \A l \in TfLines : tfGit'[l].ok = tfGit[l].ok
         /\ \A s \in tfSpent \cup {c} : s.n < tfGit'[s.line].n
         /\ Successor(c) \in Credentials /\ Successor(c).line = c.line
         /\ Successor(c).n = tfGit'[c.line].n
         /\ \A l \in TfLines : l # c.line => tfGit'[l] = tfGit[l]
<1>0. c.line \in TfLines /\ c.n \in Nat BY CredentialsExist
<1>1. tfGit \in [TfLines -> [n : Nat, aged : BOOLEAN, ok : BOOLEAN]] /\ tfSpent \subseteq Credentials
  BY DEF TokenTyped
<1>2. tfGit[c.line] \in [n : Nat, aged : BOOLEAN, ok : BOOLEAN] BY <1>0, <1>1
<1>3. PICK g : g = [tfGit[c.line] EXCEPT !.n = @ + 1, !.aged = FALSE] OBVIOUS
<1>4. g \in [n : Nat, aged : BOOLEAN, ok : BOOLEAN] /\ g.n = tfGit[c.line].n + 1 /\ g.ok = tfGit[c.line].ok
  <2>1. PICK h \in [n : Nat, aged : BOOLEAN, ok : BOOLEAN] : h = tfGit[c.line] BY <1>2
  <2>2. g = [n |-> h.n + 1, aged |-> FALSE, ok |-> h.ok] BY <1>3, <2>1
  <2>3. h.n + 1 \in Nat /\ h.ok \in BOOLEAN BY <2>1
  <2> QED BY <2>1, <2>2, <2>3
<1>5. tfGit' = [tfGit EXCEPT ![c.line] = g] BY <1>0, <1>1, <1>3 DEF Spend
<1>6. tfGit[c.line].n = c.n BY DEF Spend, Live
<1>7. tfGit' \in [TfLines -> [n : Nat, aged : BOOLEAN, ok : BOOLEAN]] BY <1>1, <1>4, <1>5
<1>8. tfGit'[c.line] = g /\ \A l \in TfLines : l # c.line => tfGit'[l] = tfGit[l]
  BY <1>0, <1>1, <1>5
<1>9. ASSUME NEW s \in tfSpent \cup {c} PROVE s.n < tfGit'[s.line].n
  <2>1. s.line \in TfLines /\ s.n \in Nat BY <1>1, CredentialsExist
  <2>2. CASE s.line = c.line
    <3>1. s.n <= c.n BY <1>0, <1>6, <2>1, <2>2 DEF SpentBehind
    <3> QED BY <1>0, <1>4, <1>6, <1>8, <2>1, <2>2, <3>1
  <2>3. CASE s.line # c.line
    BY <1>8, <2>1, <2>3 DEF SpentBehind
  <2> QED BY <2>2, <2>3
<1>10. Successor(c) \in Credentials /\ Successor(c).line = c.line /\ Successor(c).n = c.n + 1
  BY DEF Successor, Credentials
<1> QED BY <1>4, <1>6, <1>7, <1>8, <1>9, <1>10

\* What is left of freshness once the request's own part is known.
LEMMA FreshFrame ==
  ASSUME TokenTyped, NEW r \in TfCalls, HasLock(r), NEW c, tfCall' = [tfCall EXCEPT ![r] = c],
         RequestIsFresh(c)', \A l \in TfLines : tfGit'[l].ok,
         tfUp'[Shared] = NoCred \/ Fresh(tfUp[Shared])' \/ (c.at = "received" /\ c.up = Shared),
         tfUp'[Shared] = NoCred => \A l \in TfLines :
           tfUp'[l] = NoCred \/ Fresh(tfUp[l])' \/ (c.at = "received" /\ c.up = l)
  PROVE  FreshInv'
<1>1. tfCall'[r] = c /\ \A q \in TfCalls : q # r => tfCall'[q] = tfCall[q] BY DEF TokenTyped
<1>2. \A u : c.at = "received" /\ c.up = u => Unsaved(u)' BY <1>1 DEF Unsaved
<1>3. Usable(Shared)' BY <1>2 DEF Usable
<1>4. tfUp'[Shared] = NoCred => \A l \in TfLines : Usable(l)' BY <1>2 DEF Usable
<1>5. ASSUME NEW q \in TfCalls, q # r PROVE RequestIsFresh(tfCall[q])'
  <2>1. tfCall'[q].at \in Loose BY <1>1, <1>5 DEF HasLock
  <2> QED BY <2>1 DEF RequestIsFresh, Loose
<1> QED BY <1>1, <1>3, <1>4, <1>5 DEF FreshInv

\* A request outside the lock says nothing about credentials.
LEMMA FreshLoose ==
  ASSUME TokenTyped, FreshInv, NEW r \in TfCalls, tfCall[r].at \in Loose, NEW c, c.at \in Loose,
         tfCall' = [tfCall EXCEPT ![r] = c], UNCHANGED <<tfGit, tfUp, tfPair>>
  PROVE  FreshInv'
<1>1. tfCall'[r] = c /\ \A q \in TfCalls : q # r => tfCall'[q] = tfCall[q] BY DEF TokenTyped
<1>2. \A u : Unsaved(u) => Unsaved(u)' BY <1>1 DEF Unsaved, Loose
<1>3. \A d : Fresh(d) => Fresh(d)' BY DEF Fresh
<1>4. ASSUME NEW u, Usable(u) PROVE Usable(u)'
  <2>1. PICK d : d = tfUp[u] OBVIOUS
  <2>2. d = NoCred \/ Fresh(d) \/ Unsaved(u) BY <1>4, <2>1 DEF Usable
  <2>3. d = NoCred \/ Fresh(d)' \/ Unsaved(u)' BY <1>2, <1>3, <2>2
  <2> QED BY <2>1, <2>3 DEF Usable
<1>5. \A d : RequestIsFresh(d) => RequestIsFresh(d)' BY DEF RequestIsFresh, Fresh
<1>6. ASSUME NEW q \in TfCalls PROVE RequestIsFresh(tfCall[q])'
  <2>1. CASE q = r BY <1>1, <2>1 DEF RequestIsFresh, Loose
  <2>2. CASE q # r
    <3>1. PICK d : d = tfCall[q] OBVIOUS
    <3>2. RequestIsFresh(d) BY <3>1 DEF FreshInv
    <3>3. RequestIsFresh(d)' BY <1>5, <3>2
    <3> QED BY <1>1, <2>2, <3>1, <3>3
  <2> QED BY <2>1, <2>2
<1> QED BY <1>4, <1>6 DEF FreshInv

\* Unless an answer of GitHub waits to be stored, what is stored is usable as it is.
LEMMA Settled ==
  ASSUME FreshInv, OneHolder, NEW r \in TfCalls,
         (Holder(r) /\ tfCall[r].at # "received") \/ RefreshLockFree
  PROVE  /\ tfUp[Shared] = NoCred \/ Fresh(tfUp[Shared])
         /\ tfUp[Shared] = NoCred => \A l \in TfLines : tfUp[l] = NoCred \/ Fresh(tfUp[l])
<1>1. \A u : ~Unsaved(u)
  BY DEF Unsaved, OneHolder, Holder, Loose, RefreshLockFree
<1> QED BY <1>1 DEF FreshInv, Usable

\* A step that leaves credentials alone.
LEMMA FreshStill ==
  ASSUME TokenTyped, FreshInv, OneHolder, NEW r \in TfCalls,
         (Holder(r) /\ tfCall[r].at # "received") \/ RefreshLockFree,
         NEW c, tfCall' = [tfCall EXCEPT ![r] = c], RequestIsFresh(c)', UNCHANGED <<tfGit, tfUp>>
  PROVE  FreshInv'
<1>1. HasLock(r) BY HolderIsAlone
<1>2. /\ tfUp[Shared] = NoCred \/ Fresh(tfUp[Shared])
      /\ tfUp[Shared] = NoCred => \A l \in TfLines : tfUp[l] = NoCred \/ Fresh(tfUp[l])
  BY Settled
<1>3. /\ tfUp'[Shared] = NoCred \/ Fresh(tfUp[Shared])'
      /\ tfUp'[Shared] = NoCred => \A l \in TfLines : tfUp'[l] = NoCred \/ Fresh(tfUp[l])'
  BY <1>2 DEF Fresh
<1>4. \A l \in TfLines : tfGit'[l].ok BY DEF FreshInv
<1> QED BY <1>1, <1>3, <1>4, FreshFrame

-----------------------------------------------------------------------------
\* load_refresh_token.
LEMMA LoadRefreshKeeps ==
  ASSUME TokenInv, NEW r \in TfCalls, NEW t \in DOMAIN tfPair, LoadRefreshToken(r, t) PROVE TokenInv'
<1>0. /\ TokenTyped /\ SpentBehind /\ OneHolder /\ ReplaysFit /\ OneBinding /\ MappedCredentialExists
      /\ \A q \in TfCalls : RequestFits(tfCall[q])
  BY DEF TokenInv, RefreshInv
<1>1. UNCHANGED <<tfGit, tfUp, tfPair, tfKnown, tfSpent, tfUpsets>> /\ tfCall[r] = Resting
  BY DEF LoadRefreshToken
<1>2. tfReplay' \in [DOMAIN tfReplay' -> Replays] /\ ReplaysFit'
  <2>1. CASE UNCHANGED tfReplay BY <1>0, <1>1, <2>1 DEF TokenTyped, ReplaysFit, Replayed
  <2>2. CASE tfReplay' = Touched(t) BY <1>0, <1>1, <2>2, TouchedFits
  <2> QED BY <2>1, <2>2 DEF LoadRefreshToken
<1>3. \E c \in {Resting, [at |-> "loaded", token |-> t]} : tfCall' = [tfCall EXCEPT ![r] = c]
  <2>1. tfCall = [tfCall EXCEPT ![r] = Resting] BY <1>0, <1>1 DEF TokenTyped
  <2> QED BY <2>1 DEF LoadRefreshToken, Proceeds
<1>4. PICK c \in {Resting, [at |-> "loaded", token |-> t]} : tfCall' = [tfCall EXCEPT ![r] = c]
  BY <1>3
<1>5. t \in Nat BY <1>0 DEF TokenTyped
<1>6. c \in TokenRequests /\ c.at \in Loose /\ RequestFits(c) /\ tfCall[r].at \in Loose
  BY <1>1, <1>5 DEF TokenRequests, LoadedRequests, Loose, RequestFits, Resting
<1>7. /\ tfCall' \in [TfCalls -> TokenRequests] /\ OneHolder'
      /\ \A q \in TfCalls : RequestFits(tfCall[q])'
  BY <1>0, <1>1, <1>4, <1>6, LooseFrame
<1>8. TokenTyped' BY <1>0, <1>1, <1>2, <1>7 DEF TokenTyped, Replayed
<1>9. SpentBehind' /\ OneBinding' /\ MappedCredentialExists'
  BY <1>0, <1>1 DEF SpentBehind, OneBinding, MappedCredentialExists
<1>10. tfUpsets' = 0 => FreshInv' BY <1>0, <1>1, <1>4, <1>6, FreshLoose DEF TokenInv
<1> QED BY <1>2, <1>7, <1>8, <1>9, <1>10 DEF TokenInv, RefreshInv

\* exchange_refresh_token up to GitHub.
LEMMA ExchangeRefreshKeeps ==
  ASSUME TokenInv, NEW r \in TfCalls, ExchangeRefreshToken(r) PROVE TokenInv'
<1>0. /\ TokenTyped /\ SpentBehind /\ OneHolder /\ ReplaysFit /\ OneBinding /\ MappedCredentialExists
      /\ \A q \in TfCalls : RequestFits(tfCall[q])
  BY DEF TokenInv, RefreshInv
<1>1. /\ UNCHANGED <<tfGit, tfUp, tfPair, tfKnown, tfSpent, tfUpsets>>
      /\ tfCall[r].at = "loaded" /\ RefreshLockFree
  BY DEF ExchangeRefreshToken
<1>2. PICK t : t = tfCall[r].token OBVIOUS
<1>3. t \in DOMAIN tfPair /\ t \in Nat BY <1>0, <1>1, <1>2 DEF RequestFits, TokenTyped
<1>4. tfReplay' \in [DOMAIN tfReplay' -> Replays] /\ ReplaysFit'
  <2>1. CASE UNCHANGED tfReplay BY <1>0, <1>1, <2>1 DEF TokenTyped, ReplaysFit, Replayed
  <2>2. CASE tfReplay' = Touched(t) BY <1>0, <1>1, <2>2, TouchedFits
  <2> QED BY <1>2, <2>1, <2>2 DEF ExchangeRefreshToken
<1>5. PICK c : /\ tfCall' = [tfCall EXCEPT ![r] = c]
               /\ \/ c = Resting
                  \/ t \in Replayed /\ c = [at |-> "answer", token |-> t, pair |-> tfReplay[t].pair]
                  \/ \E a \in {"rebind", "present"} :
                       /\ c = [at |-> a, token |-> t, use |-> "refresh", again |-> FALSE]
                       /\ a = "present" => tfPair[t].refresh = <<Shared>>
  BY <1>2 DEF ExchangeRefreshToken, Proceeds, ReplayHolds
<1>6. c \in TokenRequests /\ RequestFits(c)
  <2>1. CASE c = Resting BY <2>1 DEF TokenRequests, RequestFits, Resting
  <2>2. CASE t \in Replayed /\ c = [at |-> "answer", token |-> t, pair |-> tfReplay[t].pair]
    <3>1. tfReplay[t].pair \in DOMAIN tfPair /\ tfReplay[t].pair \in Nat
      BY <1>0, <2>2 DEF ReplaysFit, TokenTyped
    <3> QED BY <1>3, <2>2, <3>1 DEF TokenRequests, AnswerRequests, RequestFits
  <2>3. CASE \E a \in {"rebind", "present"} : c = [at |-> a, token |-> t, use |-> "refresh", again |-> FALSE]
    <3>1. c \in RefreshRequests BY <1>3, <2>3 DEF RefreshRequests
    <3> QED BY <1>3, <2>3, <3>1 DEF TokenRequests, RequestFits
  <2> QED BY <1>5, <2>1, <2>2, <2>3
<1>7. HasLock(r) BY <1>0, <1>1, HolderIsAlone
<1>8. RequestFits(c)' BY <1>1, <1>6 DEF RequestFits
<1>9. /\ tfCall' \in [TfCalls -> TokenRequests] /\ OneHolder'
      /\ \A q \in TfCalls : RequestFits(tfCall[q])'
  BY <1>0, <1>1, <1>5, <1>6, <1>7, <1>8, RequestFrame
<1>10. TokenTyped' BY <1>0, <1>1, <1>4, <1>9 DEF TokenTyped, Replayed
<1>11. SpentBehind' /\ OneBinding' /\ MappedCredentialExists'
  BY <1>0, <1>1 DEF SpentBehind, OneBinding, MappedCredentialExists
<1>12. RequestIsFresh(c)' BY <1>1, <1>5 DEF RequestIsFresh, Resting
<1>13. tfUpsets' = 0 => FreshInv' BY <1>0, <1>1, <1>5, <1>12, FreshStill DEF TokenInv
<1> QED BY <1>4, <1>9, <1>10, <1>11, <1>13 DEF TokenInv, RefreshInv

\* load_access_token takes the lock.
LEMMA LoadAccessKeeps ==
  ASSUME TokenInv, NEW r \in TfCalls, NEW p \in DOMAIN tfPair, LoadAccessToken(r, p) PROVE TokenInv'
<1>0. /\ TokenTyped /\ SpentBehind /\ OneHolder /\ ReplaysFit /\ OneBinding /\ MappedCredentialExists
      /\ \A q \in TfCalls : RequestFits(tfCall[q])
  BY DEF TokenInv, RefreshInv
<1>1. PICK c : c = [at |-> "rebind", token |-> p, use |-> "access"] OBVIOUS
<1>2. /\ UNCHANGED <<tfGit, tfUp, tfPair, tfReplay, tfKnown, tfSpent, tfUpsets>>
      /\ RefreshLockFree /\ tfCall' = [tfCall EXCEPT ![r] = c]
  BY <1>1 DEF LoadAccessToken, Proceeds
<1>3. p \in Nat BY <1>0 DEF TokenTyped
<1>4. c \in TokenRequests BY <1>1, <1>3 DEF TokenRequests, AccessRequests
<1>5. RequestFits(c)' /\ RequestIsFresh(c)' BY <1>1, <1>2 DEF RequestFits, RequestIsFresh
<1>6. HasLock(r) BY <1>0, <1>2, HolderIsAlone
<1>7. /\ tfCall' \in [TfCalls -> TokenRequests] /\ OneHolder'
      /\ \A q \in TfCalls : RequestFits(tfCall[q])'
  BY <1>0, <1>2, <1>4, <1>5, <1>6, RequestFrame
<1>8. TokenTyped' BY <1>0, <1>2, <1>7 DEF TokenTyped, Replayed
<1>9. SpentBehind' /\ ReplaysFit' /\ OneBinding' /\ MappedCredentialExists'
  BY <1>0, <1>2 DEF SpentBehind, ReplaysFit, Replayed, OneBinding, MappedCredentialExists
<1>10. tfUpsets' = 0 => FreshInv' BY <1>0, <1>2, <1>5, FreshStill DEF TokenInv
<1> QED BY <1>7, <1>8, <1>9, <1>10 DEF TokenInv, RefreshInv

\* What Rebound changes.
LEMMA ReboundPair ==
  ASSUME TokenTyped, NEW call, call.token \in DOMAIN tfPair
  PROVE  \E v \in TokenPairs :
           /\ Rebound(call) = [tfPair EXCEPT ![call.token] = v]
           /\ v.from = tfPair[call.token].from /\ v.stored = tfPair[call.token].stored
           /\ v.refresh = IF call.use = "refresh" THEN <<Shared>> ELSE tfPair[call.token].refresh
<1>1. PICK w \in TokenPairs : w = tfPair[call.token] BY DEF TokenTyped
<1>2. <<Shared>> \in Mappings BY DEF Mappings, TokenIds
<1>3. PICK v : v = IF call.use = "refresh" THEN [w EXCEPT !.refresh = <<Shared>>]
                   ELSE [w EXCEPT !.access = <<Shared>>]
  OBVIOUS
<1>4. v \in TokenPairs /\ v.from = w.from /\ v.stored = w.stored
      /\ v.refresh = IF call.use = "refresh" THEN <<Shared>> ELSE w.refresh
  BY <1>2, <1>3 DEF TokenPairs
<1>5. Rebound(call) = [tfPair EXCEPT ![call.token] = v] BY <1>1, <1>3 DEF Rebound
<1> QED BY <1>1, <1>4, <1>5

\* A live credential is one, and without a revocation a fresh one is live.
LEMMA LiveCredential ==
  ASSUME TokenTyped, NEW u \in TokenIds
  PROVE  /\ Live(tfUp[u]) => tfUp[u] \in Credentials /\ Fresh(tfUp[u])
         /\ Valid(tfUp[u]) => Live(tfUp[u])
         /\ Fresh(tfUp[u]) /\ (\A l \in TfLines : tfGit[l].ok) => Live(tfUp[u])
<1>1. tfUp[u] \in Credentials \cup {NoCred} BY DEF TokenTyped
<1> QED BY <1>1, CredentialsExist DEF Live, Valid, Fresh

\* _rebind_to_valid_canonical.
LEMMA RebindToValidKeeps ==
  ASSUME TokenInv, NEW r \in TfCalls, RebindToValidCanonical(r) PROVE TokenInv'
<1>0. /\ TokenTyped /\ SpentBehind /\ OneHolder /\ ReplaysFit /\ OneBinding /\ MappedCredentialExists
      /\ \A q \in TfCalls : RequestFits(tfCall[q])
  BY DEF TokenInv, RefreshInv
<1>1. PICK call \in TokenRequests : call = tfCall[r] BY <1>0 DEF TokenTyped
<1>2. call.at = "rebind" /\ UNCHANGED <<tfGit, tfUp, tfReplay, tfKnown, tfSpent>>
  BY <1>1 DEF RebindToValidCanonical
<1>3. call \in RefreshRequests \/ call \in AccessRequests BY <1>2, RequestShapes
<1>4. call.token \in DOMAIN tfPair BY <1>0, <1>1, <1>2 DEF RequestFits
<1>5. PICK good \in BOOLEAN :
        /\ \/ good = Valid(tfUp[Shared]) /\ (good \/ ~Live(tfUp[Shared])) /\ UNCHANGED tfUpsets
           \/ ~good /\ Live(tfUp[Shared]) /\ Upset
        /\ tfPair' = IF good THEN Rebound(call) ELSE tfPair
        /\ Proceeds(r, IF call.use = "refresh" THEN [call EXCEPT !.at = "present"]
                       ELSE IF good THEN Resting ELSE [call EXCEPT !.at = "own"])
  BY <1>1 DEF RebindToValidCanonical
<1>6. PICK c : c = IF call.use = "refresh" THEN [call EXCEPT !.at = "present"]
                   ELSE IF good THEN Resting ELSE [call EXCEPT !.at = "own"]
  OBVIOUS
<1>7. tfCall' = [tfCall EXCEPT ![r] = c] BY <1>5, <1>6 DEF Proceeds
<1>8. Shared \in TokenIds BY DEF TokenIds
<1>9. good => tfUp[Shared] # NoCred BY <1>5 DEF Valid, Live
<1>10. Holder(r) /\ tfCall[r].at # "received" /\ HasLock(r) BY <1>0, <1>1, <1>2, HolderIsAlone DEF Holder, Loose
<1>11. /\ tfPair' \in Seq(TokenPairs) /\ DOMAIN tfPair' = DOMAIN tfPair
       /\ ReplaysFit' /\ OneBinding' /\ MappedCredentialExists'
       /\ good /\ call.use = "refresh" => tfPair'[call.token].refresh = <<Shared>>
  <2>1. CASE good
    <3>1. PICK v \in TokenPairs :
            /\ Rebound(call) = [tfPair EXCEPT ![call.token] = v]
            /\ v.from = tfPair[call.token].from /\ v.stored = tfPair[call.token].stored
            /\ v.refresh = IF call.use = "refresh" THEN <<Shared>> ELSE tfPair[call.token].refresh
      BY <1>0, <1>4, ReboundPair
    <3>2. tfPair' = [tfPair EXCEPT ![call.token] = v] BY <1>5, <2>1, <3>1
    <3>3. /\ tfPair' \in Seq(TokenPairs) /\ DOMAIN tfPair' = DOMAIN tfPair
          /\ ReplaysFit' /\ OneBinding' /\ MappedCredentialExists'
      BY <1>0, <1>2, <1>4, <1>9, <2>1, <3>1, <3>2, PairRebound
    <3>4. tfPair'[call.token] = v BY <1>0, <1>4, <3>2, PairChanges DEF TokenTyped
    <3> QED BY <3>1, <3>3, <3>4
  <2>2. CASE ~good
    <3>1. UNCHANGED tfPair BY <1>5, <2>2
    <3> QED BY <1>0, <1>2, <2>2, <3>1 DEF TokenTyped, ReplaysFit, Replayed, OneBinding, MappedCredentialExists
  <2> QED BY <2>1, <2>2
<1>12. c \in TokenRequests /\ (c = Resting \/ (c.at \in {"present", "own"} /\ c.token = call.token))
       /\ (c.at = "present" => call.use = "refresh") /\ (c.at = "own" => ~good)
  <2>1. CASE call \in RefreshRequests
    <3>1. call.use = "refresh" BY <2>1 DEF RefreshRequests
    <3>2. c \in RefreshRequests /\ c.at = "present" /\ c.token = call.token BY <1>6, <2>1, <3>1 DEF RefreshRequests
    <3> QED BY <3>1, <3>2 DEF TokenRequests
  <2>2. CASE call \in AccessRequests
    <3>1. call.use # "refresh" BY <2>2 DEF AccessRequests
    <3>2. CASE good BY <1>6, <3>1, <3>2 DEF TokenRequests, Resting
    <3>3. CASE ~good
      <4>1. c \in AccessRequests /\ c.at = "own" /\ c.token = call.token BY <1>6, <2>2, <3>1, <3>3 DEF AccessRequests
      <4> QED BY <4>1, <3>3 DEF TokenRequests
    <3> QED BY <3>2, <3>3
  <2> QED BY <1>3, <2>1, <2>2
<1>13. RequestFits(c)' BY <1>4, <1>11, <1>12 DEF RequestFits, Resting
<1>14. /\ tfCall' \in [TfCalls -> TokenRequests] /\ OneHolder'
       /\ \A q \in TfCalls : RequestFits(tfCall[q])'
  BY <1>0, <1>7, <1>10, <1>11, <1>12, <1>13, RequestFrame
<1>15. tfUpsets' \in Nat BY <1>0, <1>5 DEF Upset, TokenTyped
<1>16. TokenTyped' BY <1>0, <1>2, <1>11, <1>14, <1>15 DEF TokenTyped, Replayed
<1>17. SpentBehind' BY <1>0, <1>2 DEF SpentBehind
<1>18. ASSUME tfUpsets' = 0 PROVE FreshInv'
  <2>1. tfUpsets = 0 /\ (good \/ ~Live(tfUp[Shared])) BY <1>0, <1>5, <1>18 DEF Upset, TokenTyped
  <2>2. FreshInv BY <2>1 DEF TokenInv
  <2>3. ~good => tfUp[Shared] = NoCred
    <3>1. tfUp[Shared] = NoCred \/ Fresh(tfUp[Shared]) BY <1>0, <1>10, <2>2, Settled
    <3>2. \A l \in TfLines : tfGit[l].ok BY <2>2 DEF FreshInv
    <3> QED BY <1>0, <1>8, <2>1, <3>1, <3>2, LiveCredential
  <2>4. RequestIsFresh(c)'
    <3>1. tfUp'[Shared] = tfUp[Shared] BY <1>2
    <3>2. CASE c = Resting BY <3>2 DEF RequestIsFresh, Resting
    <3>3. ASSUME c.at = "present", c.token = call.token
          PROVE  tfPair'[c.token].refresh = <<Shared>> \/ tfUp'[Shared] = NoCred
      BY <1>11, <1>12, <2>3, <3>1, <3>3
    <3>4. CASE c.at \in {"present", "own"} /\ c.token = call.token
      BY <1>12, <2>3, <3>1, <3>3, <3>4 DEF RequestIsFresh
    <3> QED BY <1>12, <3>2, <3>4
  <2> QED BY <1>0, <1>2, <1>7, <1>10, <2>2, <2>4, FreshStill
<1> QED BY <1>11, <1>14, <1>16, <1>17, <1>18 DEF TokenInv, RefreshInv

\* A credential u is refreshed in place: what the requests and mappings rely on stays.
LEMMA RenewalFits ==
  ASSUME TokenTyped, SpentBehind, OneBinding, MappedCredentialExists, NEW u \in TokenIds, Spend(tfUp[u]),
         tfUp' = [tfUp EXCEPT ![u] = Successor(@)], tfSpent' = tfSpent \cup {tfUp[u]},
         UNCHANGED tfPair
  PROVE  /\ tfGit' \in [TfLines -> [n : Nat, aged : BOOLEAN, ok : BOOLEAN]]
         /\ tfUp' \in [TokenIds -> Credentials \cup {NoCred}] /\ tfSpent' \subseteq Credentials
         /\ \A l \in TfLines : tfUp'[l] # NoCred => tfUp'[l].line = l
         /\ SpentBehind' /\ OneBinding' /\ MappedCredentialExists'
         /\ tfUp[u] \in Credentials /\ Fresh(tfUp[u])'
         /\ \A v \in TokenIds : v # u => tfUp'[v] = tfUp[v]
         /\ \A l \in TfLines : tfGit'[l].ok = tfGit[l].ok
         /\ \A l \in TfLines : l # tfUp[u].line => tfGit'[l] = tfGit[l]
<1>1. PICK d \in Credentials : d = tfUp[u] BY LiveCredential DEF Spend
<1>2. Spend(d) BY <1>1
<1>3. /\ tfGit' \in [TfLines -> [n : Nat, aged : BOOLEAN, ok : BOOLEAN]]
      /\ \A l \in TfLines : tfGit'[l].ok = tfGit[l].ok
      /\ \A s \in tfSpent \cup {d} : s.n < tfGit'[s.line].n
      /\ Successor(d) \in Credentials /\ Successor(d).line = d.line
      /\ Successor(d).n = tfGit'[d.line].n
      /\ \A l \in TfLines : l # d.line => tfGit'[l] = tfGit[l]
  BY <1>2, SpendFits
<1>4. tfUp'[u] = Successor(d) /\ \A v \in TokenIds : v # u => tfUp'[v] = tfUp[v]
  BY <1>1 DEF TokenTyped
<1>5. tfUp' \in [TokenIds -> Credentials \cup {NoCred}] BY <1>1, <1>3 DEF TokenTyped
<1>6. \A l \in TfLines : tfUp'[l] # NoCred => tfUp'[l].line = l
  BY <1>1, <1>3, <1>4, CredentialsExist DEF TokenTyped, TokenIds
<1>7. SpentBehind' /\ tfSpent' \subseteq Credentials BY <1>1, <1>3 DEF SpentBehind, TokenTyped
<1>8. Successor(d) # NoCred BY <1>3, CredentialsExist
<1>9. OneBinding' /\ MappedCredentialExists' BY <1>4, <1>8, PairsUnchanged
<1>10. Fresh(tfUp[u])' BY <1>3, <1>4, <1>8 DEF Fresh
<1> QED BY <1>1, <1>3, <1>4, <1>5, <1>6, <1>7, <1>9, <1>10

\* A request in place is as good as one that moves nowhere.
LEMMA Standing == ASSUME TokenTyped, NEW r \in TfCalls PROVE tfCall = [tfCall EXCEPT ![r] = tfCall[r]]
BY DEF TokenTyped

\* _fresh_valid_upstream.
LEMMA RenewsKeeps == ASSUME TokenInv, NEW r \in TfCalls, Renews(r) PROVE TokenInv'
<1>0. /\ TokenTyped /\ SpentBehind /\ OneHolder /\ ReplaysFit /\ OneBinding /\ MappedCredentialExists
      /\ \A q \in TfCalls : RequestFits(tfCall[q])
  BY DEF TokenInv, RefreshInv
<1>1. PICK call \in TokenRequests : call = tfCall[r] BY <1>0 DEF TokenTyped
<1>2. call.at = "rebind" /\ UNCHANGED <<tfPair, tfReplay, tfKnown>> /\ Spend(tfUp[Shared])
  BY <1>1 DEF Renews
<1>3. call \in RefreshRequests \/ call \in AccessRequests BY <1>2, RequestShapes
<1>4. call.token \in DOMAIN tfPair BY <1>0, <1>1, <1>2 DEF RequestFits
<1>5. Shared \in TokenIds BY DEF TokenIds
<1>6. Holder(r) /\ HasLock(r) BY <1>0, <1>1, <1>2, HolderIsAlone DEF Holder, Loose
<1>7. ReplaysFit' BY <1>0, <1>2 DEF ReplaysFit, Replayed
<1>8. CASE /\ tfUp' = [tfUp EXCEPT ![Shared] = Successor(@)] /\ tfSpent' = tfSpent \cup {tfUp[Shared]}
           /\ UNCHANGED <<tfCall, tfUpsets>>
  <2>1. /\ tfGit' \in [TfLines -> [n : Nat, aged : BOOLEAN, ok : BOOLEAN]]
        /\ tfUp' \in [TokenIds -> Credentials \cup {NoCred}] /\ tfSpent' \subseteq Credentials
        /\ \A l \in TfLines : tfUp'[l] # NoCred => tfUp'[l].line = l
        /\ SpentBehind' /\ OneBinding' /\ MappedCredentialExists'
        /\ Fresh(tfUp[Shared])'
        /\ \A l \in TfLines : tfGit'[l].ok = tfGit[l].ok
    BY <1>0, <1>2, <1>5, <1>8, RenewalFits
  <2>2. tfCall' = [tfCall EXCEPT ![r] = call] BY <1>0, <1>1, <1>8, Standing
  <2>3. RequestFits(call)' /\ RequestIsFresh(call)' BY <1>2, <1>4 DEF RequestFits, RequestIsFresh
  <2>4. /\ tfCall' \in [TfCalls -> TokenRequests] /\ OneHolder'
        /\ \A q \in TfCalls : RequestFits(tfCall[q])'
    BY <1>0, <1>2, <1>6, <2>2, <2>3, RequestFrame
  <2>5. TokenTyped' BY <1>0, <1>2, <1>8, <2>1, <2>4 DEF TokenTyped, Replayed
  <2>6. ASSUME tfUpsets' = 0 PROVE FreshInv'
    <3>1. FreshInv BY <1>8, <2>6 DEF TokenInv
    <3>2. \A l \in TfLines : tfGit'[l].ok BY <2>1, <3>1 DEF FreshInv
    <3>3. tfUp'[Shared] # NoCred BY <2>1 DEF Fresh
    <3> QED BY <1>0, <1>6, <2>1, <2>2, <2>3, <3>2, <3>3, FreshFrame
  <2> QED BY <1>7, <2>1, <2>4, <2>5, <2>6 DEF TokenInv, RefreshInv
<1>9. CASE /\ Upset /\ UNCHANGED <<tfUp, tfSpent>>
           /\ Proceeds(r, [tfCall[r] EXCEPT !.at = IF tfCall[r].use = "refresh" THEN "present" ELSE "own"])
  <2>1. PICK d \in Credentials : d = tfUp[Shared] BY <1>0, <1>2, <1>5, LiveCredential DEF Spend
  <2>2. /\ tfGit' \in [TfLines -> [n : Nat, aged : BOOLEAN, ok : BOOLEAN]]
        /\ \A s \in tfSpent \cup {d} : s.n < tfGit'[s.line].n
    BY <1>0, <1>2, <2>1, SpendFits
  <2>3. PICK c : c = [call EXCEPT !.at = IF call.use = "refresh" THEN "present" ELSE "own"] OBVIOUS
  <2>4. tfCall' = [tfCall EXCEPT ![r] = c] BY <1>1, <1>9, <2>3 DEF Proceeds
  <2>5. c \in TokenRequests /\ c.at \in {"present", "own"} /\ c.token = call.token
    <3>1. CASE call \in RefreshRequests
      <4>1. call.use = "refresh" BY <3>1 DEF RefreshRequests
      <4>2. c \in RefreshRequests /\ c.at = "present" /\ c.token = call.token
        BY <2>3, <3>1, <4>1 DEF RefreshRequests
      <4> QED BY <4>2 DEF TokenRequests
    <3>2. CASE call \in AccessRequests
      <4>1. call.use # "refresh" BY <3>2 DEF AccessRequests
      <4>2. c \in AccessRequests /\ c.at = "own" /\ c.token = call.token
        BY <2>3, <3>2, <4>1 DEF AccessRequests
      <4> QED BY <4>2 DEF TokenRequests
    <3> QED BY <1>3, <3>1, <3>2
  <2>6. RequestFits(c)' BY <1>2, <1>4, <2>5 DEF RequestFits
  <2>7. /\ tfCall' \in [TfCalls -> TokenRequests] /\ OneHolder'
        /\ \A q \in TfCalls : RequestFits(tfCall[q])'
    BY <1>0, <1>2, <1>6, <2>4, <2>5, <2>6, RequestFrame
  <2>8. SpentBehind' BY <1>9, <2>2 DEF SpentBehind
  <2>9. OneBinding' /\ MappedCredentialExists' BY <1>0, <1>2, <1>9, PairsUnchanged
  <2>10. tfUpsets' \in Nat /\ tfUpsets' # 0 BY <1>0, <1>9 DEF Upset, TokenTyped
  <2>11. TokenTyped' BY <1>0, <1>2, <1>9, <2>2, <2>7, <2>10 DEF TokenTyped, Replayed
  <2> QED BY <1>7, <2>7, <2>8, <2>9, <2>10, <2>11 DEF TokenInv, RefreshInv
<1> QED BY <1>8, <1>9 DEF Renews

\* The shared credential is replaced by another one.
LEMMA SharedReplaced ==
  ASSUME TokenTyped, NEW d \in Credentials, tfUp' = [tfUp EXCEPT ![Shared] = d]
  PROVE  /\ tfUp' \in [TokenIds -> Credentials \cup {NoCred}] /\ tfUp'[Shared] = d /\ d # NoCred
         /\ \A l \in TfLines : tfUp'[l] = tfUp[l]
         /\ \A l \in TfLines : tfUp'[l] # NoCred => tfUp'[l].line = l
         /\ \A u \in TokenIds : tfUp[u] # NoCred => tfUp'[u] # NoCred
<1>1. tfUp \in [TokenIds -> Credentials \cup {NoCred}] /\ Shared \in TokenIds BY DEF TokenTyped, TokenIds
<1>2. \A l \in TfLines : l # Shared /\ l \in TokenIds
  BY TokenConstants DEF TokenConstants, Shared, TokenIds
<1>3. tfUp'[Shared] = d /\ \A l \in TfLines : tfUp'[l] = tfUp[l] BY <1>1, <1>2
<1>4. d # NoCred BY CredentialsExist
<1>5. \A u \in TokenIds : tfUp[u] # NoCred => tfUp'[u] # NoCred BY <1>3, <1>4 DEF TokenIds
<1> QED BY <1>1, <1>3, <1>4, <1>5 DEF TokenTyped

\* load_access_token without a good shared credential.
LEMMA PromoteKeeps == ASSUME TokenInv, NEW r \in TfCalls, PromoteOwnCredential(r) PROVE TokenInv'
<1>0. /\ TokenTyped /\ SpentBehind /\ OneHolder /\ ReplaysFit /\ OneBinding /\ MappedCredentialExists
      /\ \A q \in TfCalls : RequestFits(tfCall[q])
  BY DEF TokenInv, RefreshInv
<1>1. PICK call \in TokenRequests : call = tfCall[r] BY <1>0 DEF TokenTyped
<1>2. /\ call.at = "own" /\ UNCHANGED <<tfGit, tfReplay, tfKnown, tfSpent, tfUpsets>>
      /\ tfCall' = [tfCall EXCEPT ![r] = Resting]
  BY <1>1 DEF PromoteOwnCredential, Proceeds
<1>3. call \in AccessRequests /\ call.use # "refresh" BY <1>2, RequestShapes DEF AccessRequests
<1>4. call.token \in DOMAIN tfPair BY <1>0, <1>1, <1>2 DEF RequestFits
<1>5. Holder(r) /\ tfCall[r].at # "received" /\ HasLock(r) BY <1>0, <1>1, <1>2, HolderIsAlone DEF Holder, Loose
<1>6. Resting \in TokenRequests /\ RequestFits(Resting)' /\ RequestIsFresh(Resting)'
  BY DEF TokenRequests, RequestFits, RequestIsFresh, Resting
<1>7. PICK c : c = Resting OBVIOUS
<1>8. c \in TokenRequests /\ RequestFits(c)' /\ RequestIsFresh(c)' /\ tfCall' = [tfCall EXCEPT ![r] = c]
      /\ c.at # "received"
  BY <1>2, <1>6, <1>7 DEF Resting
<1>9. CASE Valid(OwnCredential(call))
  <2>1. PICK d : d = OwnCredential(call) OBVIOUS
  <2>2. tfUp' = [tfUp EXCEPT ![Shared] = d] /\ tfPair' = Rebound(call)
    BY <1>1, <1>9, <2>1 DEF PromoteOwnCredential
  <2>3. d \in Credentials /\ Fresh(d)
    <3>1. d # NoCred /\ Live(d) BY <1>9, <2>1 DEF Valid, Live
    <3>2. tfPair[call.token] \in TokenPairs /\ tfPair[call.token].access # Unmapped
      BY <1>0, <1>4, <2>1, <3>1 DEF TokenTyped, OwnCredential
    <3>3. PICK u \in TokenIds : tfPair[call.token].access = <<u>> BY <3>2 DEF TokenPairs, Mappings
    <3>4. <<u>>[1] = u OBVIOUS
    <3>5. d = tfUp[u] BY <2>1, <3>2, <3>3, <3>4 DEF OwnCredential
    <3> QED BY <1>0, <3>1, <3>5, LiveCredential
  <2>4. /\ tfUp' \in [TokenIds -> Credentials \cup {NoCred}] /\ tfUp'[Shared] = d /\ d # NoCred
        /\ \A l \in TfLines : tfUp'[l] # NoCred => tfUp'[l].line = l
        /\ \A u \in TokenIds : tfUp[u] # NoCred => tfUp'[u] # NoCred
    BY <1>0, <2>2, <2>3, SharedReplaced
  <2>5. PICK v \in TokenPairs :
          /\ Rebound(call) = [tfPair EXCEPT ![call.token] = v]
          /\ v.from = tfPair[call.token].from /\ v.stored = tfPair[call.token].stored
          /\ v.refresh = IF call.use = "refresh" THEN <<Shared>> ELSE tfPair[call.token].refresh
    BY <1>0, <1>4, ReboundPair
  <2>6. /\ tfPair' \in Seq(TokenPairs) /\ DOMAIN tfPair' = DOMAIN tfPair
        /\ ReplaysFit' /\ OneBinding' /\ MappedCredentialExists'
    BY <1>0, <1>2, <1>3, <1>4, <2>2, <2>4, <2>5, PairRebound
  <2>7. /\ tfCall' \in [TfCalls -> TokenRequests] /\ OneHolder'
        /\ \A q \in TfCalls : RequestFits(tfCall[q])'
    BY <1>0, <1>5, <1>8, <2>6, RequestFrame
  <2>8. TokenTyped' BY <1>0, <1>2, <2>4, <2>6, <2>7 DEF TokenTyped, Replayed
  <2>9. SpentBehind' BY <1>0, <1>2 DEF SpentBehind
  <2>10. ASSUME tfUpsets' = 0 PROVE FreshInv'
    <3>1. \A l \in TfLines : tfGit'[l].ok BY <1>2, <2>10 DEF TokenInv, FreshInv
    <3>2. Fresh(d)' BY <1>2, <2>3 DEF Fresh
    <3>3. Fresh(tfUp[Shared])' BY <2>4, <3>2
    <3> QED BY <1>0, <1>5, <1>8, <2>4, <3>1, <3>3, FreshFrame
  <2> QED BY <2>6, <2>7, <2>8, <2>9, <2>10 DEF TokenInv, RefreshInv
<1>10. CASE ~Valid(OwnCredential(call))
  <2>1. UNCHANGED <<tfUp, tfPair>> BY <1>1, <1>10 DEF PromoteOwnCredential
  <2>2. /\ tfCall' \in [TfCalls -> TokenRequests] /\ OneHolder'
        /\ \A q \in TfCalls : RequestFits(tfCall[q])'
    BY <1>0, <1>5, <1>8, <2>1, RequestFrame
  <2>3. TokenTyped' BY <1>0, <1>2, <2>1, <2>2 DEF TokenTyped, Replayed
  <2>4. SpentBehind' /\ ReplaysFit' /\ OneBinding' /\ MappedCredentialExists'
    BY <1>0, <1>2, <2>1 DEF SpentBehind, ReplaysFit, Replayed, OneBinding, MappedCredentialExists
  <2>5. tfUpsets' = 0 => FreshInv' BY <1>0, <1>2, <1>5, <1>8, <2>1, FreshStill DEF TokenInv
  <2> QED BY <2>2, <2>3, <2>4, <2>5 DEF TokenInv, RefreshInv
<1> QED BY <1>9, <1>10

\* The base class refreshes a credential, and its store keeps the answer or loses it.
LEMMA BaseRenewsFits ==
  ASSUME RefreshInv, NEW u \in TokenIds, BaseRenews(u)
  PROVE  /\ RefreshInv'
         /\ \/ /\ UNCHANGED tfUpsets /\ tfUp[u] \in Credentials /\ Fresh(tfUp[u])'
               /\ \A v \in TokenIds : v # u => tfUp'[v] = tfUp[v]
               /\ \A l \in TfLines : tfGit'[l].ok = tfGit[l].ok
               /\ \A l \in TfLines : l # tfUp[u].line => tfGit'[l] = tfGit[l]
            \/ tfUpsets' # 0
<1>0. /\ TokenTyped /\ SpentBehind /\ OneHolder /\ ReplaysFit /\ OneBinding /\ MappedCredentialExists
      /\ \A q \in TfCalls : RequestFits(tfCall[q])
  BY DEF RefreshInv
<1>1. UNCHANGED <<tfPair, tfReplay, tfCall, tfKnown>> /\ Spend(tfUp[u]) BY DEF BaseRenews
<1>2. ReplaysFit' /\ OneHolder' BY <1>0, <1>1 DEF ReplaysFit, Replayed, OneHolder, Holder
<1>3. ASSUME tfUp[Shared] # NoCred => tfUp'[Shared] # NoCred, NEW q \in TfCalls PROVE RequestFits(tfCall[q])'
  <2>1. PICK c : c = tfCall[q] OBVIOUS
  <2>2. RequestFits(c) BY <1>0, <2>1
  <2>3. RequestFits(c)' BY <1>1, <1>3, <2>2 DEF RequestFits
  <2> QED BY <1>1, <2>1, <2>3
<1>4. Shared \in TokenIds BY DEF TokenIds
<1>5. CASE /\ tfUp' = [tfUp EXCEPT ![u] = Successor(@)]
           /\ tfSpent' = tfSpent \cup {tfUp[u]} /\ UNCHANGED tfUpsets
  <2>1. /\ tfGit' \in [TfLines -> [n : Nat, aged : BOOLEAN, ok : BOOLEAN]]
        /\ tfUp' \in [TokenIds -> Credentials \cup {NoCred}] /\ tfSpent' \subseteq Credentials
        /\ \A l \in TfLines : tfUp'[l] # NoCred => tfUp'[l].line = l
        /\ SpentBehind' /\ OneBinding' /\ MappedCredentialExists'
        /\ tfUp[u] \in Credentials /\ Fresh(tfUp[u])'
        /\ \A v \in TokenIds : v # u => tfUp'[v] = tfUp[v]
        /\ \A l \in TfLines : tfGit'[l].ok = tfGit[l].ok
        /\ \A l \in TfLines : l # tfUp[u].line => tfGit'[l] = tfGit[l]
    BY <1>0, <1>1, <1>5, RenewalFits
  <2>2. tfUp[Shared] # NoCred => tfUp'[Shared] # NoCred BY <1>4, <2>1 DEF Fresh
  <2>3. TokenTyped' BY <1>0, <1>1, <1>5, <2>1 DEF TokenTyped, Replayed
  <2> QED BY <1>2, <1>3, <1>5, <2>1, <2>2, <2>3 DEF RefreshInv
<1>6. CASE Upset /\ UNCHANGED <<tfUp, tfSpent>>
  <2>1. PICK d \in Credentials : d = tfUp[u] BY <1>0, <1>1, LiveCredential DEF Spend
  <2>2. /\ tfGit' \in [TfLines -> [n : Nat, aged : BOOLEAN, ok : BOOLEAN]]
        /\ \A s \in tfSpent \cup {d} : s.n < tfGit'[s.line].n
    BY <1>0, <1>1, <2>1, SpendFits
  <2>3. SpentBehind' BY <1>6, <2>2 DEF SpentBehind
  <2>4. OneBinding' /\ MappedCredentialExists' BY <1>0, <1>1, <1>6, PairsUnchanged
  <2>5. tfUpsets' \in Nat /\ tfUpsets' # 0 BY <1>0, <1>6 DEF Upset, TokenTyped
  <2>6. TokenTyped' BY <1>0, <1>1, <1>6, <2>2, <2>5 DEF TokenTyped, Replayed
  <2> QED BY <1>2, <1>3, <1>6, <2>3, <2>4, <2>5, <2>6 DEF RefreshInv
<1> QED BY <1>5, <1>6 DEF BaseRenews

\* The shared credential, when nobody is past the lock.
LEMMA RenewsSharedKeeps == ASSUME TokenInv, RenewsShared PROVE TokenInv'
<1>1. Shared \in TokenIds /\ BaseRenews(Shared) /\ RefreshLockFree BY DEF TokenIds, RenewsShared
<1>2. /\ RefreshInv'
      /\ \/ /\ UNCHANGED tfUpsets /\ Fresh(tfUp[Shared])'
            /\ \A l \in TfLines : tfGit'[l].ok = tfGit[l].ok
         \/ tfUpsets' # 0
  BY <1>1, BaseRenewsFits DEF TokenInv
<1>3. ASSUME tfUpsets' = 0 PROVE FreshInv'
  <2>1. UNCHANGED tfCall BY <1>1 DEF BaseRenews
  <2>2. \A l \in TfLines : tfGit'[l].ok BY <1>2, <1>3 DEF TokenInv, FreshInv
  <2>3. Usable(Shared)' /\ tfUp'[Shared] # NoCred BY <1>2, <1>3 DEF Usable, Fresh
  <2>4. ASSUME NEW q \in TfCalls PROVE RequestIsFresh(tfCall[q])'
    <3>1. tfCall'[q].at \in {"idle", "loaded", "answer"} BY <1>1, <2>1 DEF RefreshLockFree
    <3> QED BY <3>1 DEF RequestIsFresh
  <2> QED BY <2>2, <2>3, <2>4 DEF FreshInv
<1> QED BY <1>2, <1>3 DEF TokenInv

\* The credential of an access token, while there is no good shared one.
LEMMA RenewsOwnKeeps == ASSUME TokenInv, NEW r \in TfCalls, RenewsOwn(r) PROVE TokenInv'
<1>0. /\ TokenTyped /\ SpentBehind /\ OneHolder /\ ReplaysFit /\ OneBinding /\ MappedCredentialExists
      /\ \A q \in TfCalls : RequestFits(tfCall[q])
  BY DEF TokenInv, RefreshInv
<1>1. PICK call \in TokenRequests : call = tfCall[r] BY <1>0 DEF TokenTyped
<1>2. call.at = "own" /\ tfPair[call.token].access # Unmapped /\ BaseRenews(tfPair[call.token].access[1])
  BY <1>1 DEF RenewsOwn
<1>3. call.token \in DOMAIN tfPair BY <1>0, <1>1, <1>2 DEF RequestFits
<1>4. PICK u \in TokenIds : tfPair[call.token].access = <<u>>
  <2>1. tfPair[call.token] \in TokenPairs BY <1>0, <1>3 DEF TokenTyped
  <2> QED BY <1>2, <2>1 DEF TokenPairs, Mappings
<1>5. <<u>>[1] = u OBVIOUS
<1>6. BaseRenews(u) BY <1>2, <1>4, <1>5
<1>7. /\ RefreshInv'
      /\ \/ /\ UNCHANGED tfUpsets /\ tfUp[u] \in Credentials /\ Fresh(tfUp[u])'
            /\ \A v \in TokenIds : v # u => tfUp'[v] = tfUp[v]
            /\ \A l \in TfLines : tfGit'[l].ok = tfGit[l].ok
            /\ \A l \in TfLines : l # tfUp[u].line => tfGit'[l] = tfGit[l]
         \/ tfUpsets' # 0
  BY <1>6, BaseRenewsFits DEF TokenInv
<1>8. ASSUME tfUpsets' = 0 PROVE FreshInv'
  <2>1. FreshInv BY <1>7, <1>8 DEF TokenInv
  <2>2. tfUp[Shared] = NoCred BY <1>1, <1>2, <2>1 DEF FreshInv, RequestIsFresh
  <2>3. u \in TfLines /\ u # Shared /\ tfUp[u] # NoCred
    BY <1>7, <1>8, <2>2, CredentialsExist DEF TokenIds
  <2>4. tfUp[u].line = u BY <1>0, <2>3 DEF TokenTyped
  <2>5. Holder(r) /\ tfCall[r].at # "received" /\ HasLock(r) BY <1>0, <1>1, <1>2, HolderIsAlone DEF Holder, Loose
  <2>6. \A l \in TfLines : tfUp[l] = NoCred \/ Fresh(tfUp[l]) BY <1>0, <2>1, <2>2, <2>5, Settled
  <2>7. ASSUME NEW l \in TfLines PROVE tfUp'[l] = NoCred \/ Fresh(tfUp[l])'
    <3>1. CASE l = u BY <1>7, <1>8, <3>1
    <3>2. CASE l # u
      <4>1. tfUp'[l] = tfUp[l] /\ tfGit'[l] = tfGit[l] BY <1>7, <1>8, <2>4, <3>2 DEF TokenIds
      <4>2. tfUp[l] # NoCred => tfUp[l].line = l BY <1>0 DEF TokenTyped
      <4> QED BY <2>6, <4>1, <4>2 DEF Fresh
    <3> QED BY <3>1, <3>2
  <2>8. tfUp'[Shared] = NoCred BY <1>7, <1>8, <2>2, <2>3 DEF TokenIds
  <2>9. tfCall' = [tfCall EXCEPT ![r] = call] BY <1>0, <1>1, <1>6, Standing DEF BaseRenews
  <2>10. RequestIsFresh(call)' BY <1>2, <2>8 DEF RequestIsFresh
  <2>11. \A l \in TfLines : tfGit'[l].ok BY <1>7, <1>8, <2>1 DEF FreshInv
  <2> QED BY <1>0, <2>5, <2>7, <2>8, <2>9, <2>10, <2>11, FreshFrame
<1> QED BY <1>7, <1>8 DEF TokenInv

\* The credential a refresh goes to GitHub with.
LEMMA SourceCredential ==
  ASSUME TokenTyped, NEW call, call.token \in DOMAIN tfPair, Source(call) # NoCred
  PROVE  \E u \in TokenIds : /\ tfPair[call.token].stored /\ tfPair[call.token].refresh = <<u>>
                             /\ tfPair[call.token].refresh[1] = u /\ Source(call) = tfUp[u]
<1>1. tfPair[call.token] \in TokenPairs BY DEF TokenTyped
<1>2. tfPair[call.token].stored /\ tfPair[call.token].refresh # Unmapped BY DEF Source
<1>3. PICK u \in TokenIds : tfPair[call.token].refresh = <<u>> BY <1>1, <1>2 DEF TokenPairs, Mappings
<1>4. <<u>>[1] = u OBVIOUS
<1> QED BY <1>2, <1>3, <1>4 DEF Source

\* GitHub answers a refresh.
LEMMA GitHubKeeps == ASSUME TokenInv, NEW r \in TfCalls, GitHubRefreshes(r) PROVE TokenInv'
<1>0. /\ TokenTyped /\ SpentBehind /\ OneHolder /\ ReplaysFit /\ OneBinding /\ MappedCredentialExists
      /\ \A q \in TfCalls : RequestFits(tfCall[q])
  BY DEF TokenInv, RefreshInv
<1>1. PICK call \in TokenRequests : call = tfCall[r] BY <1>0 DEF TokenTyped
<1>2. PICK d : d = Source(call) OBVIOUS
<1>3. /\ call.at = "present" /\ UNCHANGED <<tfUp, tfPair, tfReplay, tfKnown, tfUpsets>>
      /\ Spend(d) /\ tfSpent' = tfSpent \cup {d}
      /\ tfCall' = [tfCall EXCEPT ![r] = [at |-> "received", token |-> call.token,
                                          up |-> tfPair[call.token].refresh[1], cred |-> Successor(d)]]
  BY <1>1, <1>2 DEF GitHubRefreshes, Proceeds
<1>4. call.token \in DOMAIN tfPair BY <1>0, <1>1, <1>3 DEF RequestFits
<1>5. PICK u \in TokenIds : /\ tfPair[call.token].stored /\ tfPair[call.token].refresh = <<u>>
                            /\ tfPair[call.token].refresh[1] = u /\ d = tfUp[u]
  BY <1>0, <1>2, <1>3, <1>4, SourceCredential DEF Spend, Live
<1>6. d \in Credentials BY <1>0, <1>3, <1>5, LiveCredential DEF Spend
<1>7. /\ tfGit' \in [TfLines -> [n : Nat, aged : BOOLEAN, ok : BOOLEAN]]
      /\ \A l \in TfLines : tfGit'[l].ok = tfGit[l].ok
      /\ \A s \in tfSpent \cup {d} : s.n < tfGit'[s.line].n
      /\ Successor(d) \in Credentials /\ Successor(d).line = d.line
      /\ Successor(d).n = tfGit'[d.line].n
      /\ \A l \in TfLines : l # d.line => tfGit'[l] = tfGit[l]
  BY <1>0, <1>3, <1>6, SpendFits
<1>8. PICK c : c = [at |-> "received", token |-> call.token, up |-> u, cred |-> Successor(d)] OBVIOUS
<1>9. tfCall' = [tfCall EXCEPT ![r] = c] BY <1>3, <1>5, <1>8
<1>10. call.token \in Nat BY <1>0, <1>4 DEF TokenTyped
<1>11. c \in TokenRequests BY <1>7, <1>8, <1>10 DEF TokenRequests, ReceivedRequests
<1>12. u # Shared => d.line = u BY <1>0, <1>5, <1>6, CredentialsExist DEF TokenTyped, TokenIds
<1>13. RequestFits(c)' BY <1>3, <1>4, <1>5, <1>7, <1>8, <1>12 DEF RequestFits
<1>14. Holder(r) /\ tfCall[r].at # "received" /\ HasLock(r) BY <1>0, <1>1, <1>3, HolderIsAlone DEF Holder, Loose
<1>15. /\ tfCall' \in [TfCalls -> TokenRequests] /\ OneHolder'
       /\ \A q \in TfCalls : RequestFits(tfCall[q])'
  BY <1>0, <1>3, <1>9, <1>11, <1>13, <1>14, RequestFrame
<1>16. TokenTyped' BY <1>0, <1>3, <1>6, <1>7, <1>15 DEF TokenTyped, Replayed
<1>17. SpentBehind' BY <1>3, <1>7 DEF SpentBehind
<1>18. ReplaysFit' /\ OneBinding' /\ MappedCredentialExists'
  BY <1>0, <1>3 DEF ReplaysFit, Replayed, OneBinding, MappedCredentialExists
<1>19. ASSUME tfUpsets' = 0 PROVE FreshInv'
  <2>1. FreshInv BY <1>3, <1>19 DEF TokenInv
  <2>2. u # Shared => tfUp[Shared] = NoCred
    <3>1. <<u>> # <<>> /\ (u # Shared => <<u>> # <<Shared>>) OBVIOUS
    <3> QED BY <1>1, <1>3, <1>5, <2>1, <3>1 DEF FreshInv, RequestIsFresh, Unmapped
  <2>3. tfUp[Shared] = NoCred => \A l \in TfLines : tfUp[l] = NoCred \/ Fresh(tfUp[l])
    BY <1>0, <1>14, <2>1, Settled
  <2>4. Fresh(Successor(d))' BY <1>7, CredentialsExist DEF Fresh, Successor
  <2>5. PICK e \in Credentials : e = Successor(d) BY <1>7
  <2>6. Fresh(e)' BY <1>7, <2>5, CredentialsExist DEF Fresh
  <2>7. RequestIsFresh(c)' BY <1>3, <1>8, <2>2, <2>5, <2>6 DEF RequestIsFresh
  <2>8. \A l \in TfLines : tfGit'[l].ok BY <1>7, <2>1 DEF FreshInv
  <2>9. tfUp'[Shared] = NoCred \/ (c.at = "received" /\ c.up = Shared) BY <1>3, <1>8, <2>2
  <2>10. ASSUME tfUp'[Shared] = NoCred, NEW l \in TfLines
         PROVE  tfUp'[l] = NoCred \/ Fresh(tfUp[l])' \/ (c.at = "received" /\ c.up = l)
    <3>1. u # Shared /\ d.line = u BY <1>3, <1>5, <1>6, <1>12, <2>10, CredentialsExist
    <3>2. CASE l = u BY <1>8, <3>2
    <3>3. CASE l # u
      <4>1. tfUp'[l] = tfUp[l] /\ tfGit'[l] = tfGit[l] BY <1>3, <1>7, <3>1, <3>3
      <4>2. tfUp[l] # NoCred => tfUp[l].line = l BY <1>0 DEF TokenTyped
      <4> QED BY <1>3, <2>3, <2>10, <4>1, <4>2 DEF Fresh
    <3> QED BY <3>2, <3>3
  <2> QED BY <1>0, <1>9, <1>14, <2>7, <2>8, <2>9, <2>10, FreshFrame
<1> QED BY <1>15, <1>16, <1>17, <1>18, <1>19 DEF TokenInv, RefreshInv

\* GitHub refuses or its answer is lost.
LEMMA RefreshFailsKeeps == ASSUME TokenInv, NEW r \in TfCalls, RefreshFails(r) PROVE TokenInv'
<1>0. /\ TokenTyped /\ SpentBehind /\ OneHolder /\ ReplaysFit /\ OneBinding /\ MappedCredentialExists
      /\ \A q \in TfCalls : RequestFits(tfCall[q])
  BY DEF TokenInv, RefreshInv
<1>1. PICK call \in TokenRequests : call = tfCall[r] BY <1>0 DEF TokenTyped
<1>2. PICK d : d = Source(call) OBVIOUS
<1>3. /\ call.at = "present" /\ UNCHANGED <<tfUp, tfReplay, tfKnown, tfSpent>>
      /\ (~Live(d) /\ UNCHANGED <<tfGit, tfUpsets>>) \/ (Spend(d) /\ Upset)
      /\ \/ /\ tfUp[Shared] # NoCred /\ tfPair' = Rebound(call)
            /\ tfCall' = [tfCall EXCEPT ![r] = [call EXCEPT !.again = TRUE]]
         \/ UNCHANGED tfPair /\ tfCall' = [tfCall EXCEPT ![r] = Resting]
  BY <1>1, <1>2 DEF RefreshFails, Proceeds, RepairedCanonical, Valid, Live
<1>4. call.token \in DOMAIN tfPair /\ call \in RefreshRequests /\ call.use = "refresh"
  BY <1>0, <1>1, <1>3, RequestShapes DEF RequestFits, RefreshRequests
<1>5. /\ tfGit' \in [TfLines -> [n : Nat, aged : BOOLEAN, ok : BOOLEAN]]
      /\ SpentBehind' /\ tfUpsets' \in Nat
      /\ tfUpsets' = 0 => tfUpsets = 0 /\ UNCHANGED tfGit
  <2>1. CASE UNCHANGED <<tfGit, tfUpsets>> BY <1>0, <1>3, <2>1 DEF TokenTyped, SpentBehind
  <2>2. CASE Spend(d) /\ Upset
    <3>1. \E u \in TokenIds : d = tfUp[u]
      BY <1>0, <1>2, <1>4, <2>2, SourceCredential DEF Spend, Live
    <3>2. d \in Credentials BY <1>0, <2>2, <3>1, LiveCredential DEF Spend
    <3>3. /\ tfGit' \in [TfLines -> [n : Nat, aged : BOOLEAN, ok : BOOLEAN]]
          /\ \A s \in tfSpent \cup {d} : s.n < tfGit'[s.line].n
      BY <1>0, <2>2, <3>2, SpendFits
    <3>4. tfUpsets' \in Nat /\ tfUpsets' # 0 BY <1>0, <2>2 DEF Upset, TokenTyped
    <3> QED BY <1>3, <3>3, <3>4 DEF SpentBehind
  <2> QED BY <1>3, <2>1, <2>2
<1>6. Holder(r) /\ tfCall[r].at # "received" /\ HasLock(r) BY <1>0, <1>1, <1>3, HolderIsAlone DEF Holder, Loose
<1>7. PICK c \in TokenRequests :
        /\ tfCall' = [tfCall EXCEPT ![r] = c]
        /\ \/ c.at = "present" /\ c.token = call.token /\ tfPair' = Rebound(call) /\ tfUp[Shared] # NoCred
           \/ c = Resting /\ UNCHANGED tfPair
  <2>1. [call EXCEPT !.again = TRUE] \in RefreshRequests /\ [call EXCEPT !.again = TRUE].at = "present"
        /\ [call EXCEPT !.again = TRUE].token = call.token
    BY <1>3, <1>4 DEF RefreshRequests
  <2>2. Resting \in TokenRequests /\ RefreshRequests \subseteq TokenRequests BY DEF TokenRequests
  <2> QED BY <1>3, <2>1, <2>2
<1>8. /\ tfPair' \in Seq(TokenPairs) /\ DOMAIN tfPair' = DOMAIN tfPair
      /\ ReplaysFit' /\ OneBinding' /\ MappedCredentialExists'
      /\ c.at = "present" => tfPair'[c.token].refresh = <<Shared>>
  <2>1. CASE c.at = "present" /\ c.token = call.token /\ tfPair' = Rebound(call) /\ tfUp[Shared] # NoCred
    <3>1. PICK v \in TokenPairs :
            /\ Rebound(call) = [tfPair EXCEPT ![call.token] = v]
            /\ v.from = tfPair[call.token].from /\ v.stored = tfPair[call.token].stored
            /\ v.refresh = IF call.use = "refresh" THEN <<Shared>> ELSE tfPair[call.token].refresh
      BY <1>0, <1>4, ReboundPair
    <3>2. tfPair' = [tfPair EXCEPT ![call.token] = v] BY <2>1, <3>1
    <3>3. /\ tfPair' \in Seq(TokenPairs) /\ DOMAIN tfPair' = DOMAIN tfPair
          /\ ReplaysFit' /\ OneBinding' /\ MappedCredentialExists'
      BY <1>0, <1>3, <1>4, <2>1, <3>1, <3>2, PairRebound
    <3>4. tfPair'[call.token] = v BY <1>0, <1>4, <3>2, PairChanges DEF TokenTyped
    <3> QED BY <1>4, <2>1, <3>1, <3>3, <3>4
  <2>2. CASE c = Resting /\ UNCHANGED tfPair
    <3>1. c.at # "present" BY <2>2 DEF Resting
    <3> QED BY <1>0, <1>3, <2>2, <3>1 DEF TokenTyped, ReplaysFit, Replayed, OneBinding, MappedCredentialExists
  <2> QED BY <1>7, <2>1, <2>2
<1>9. RequestFits(c)' /\ RequestIsFresh(c)'
  <2>1. CASE c = Resting BY <2>1 DEF RequestFits, RequestIsFresh, Resting
  <2>2. CASE c.at = "present" /\ c.token = call.token
    BY <1>4, <1>8, <2>2 DEF RequestFits, RequestIsFresh
  <2> QED BY <1>7, <2>1, <2>2
<1>10. /\ tfCall' \in [TfCalls -> TokenRequests] /\ OneHolder'
       /\ \A q \in TfCalls : RequestFits(tfCall[q])'
  BY <1>0, <1>6, <1>7, <1>8, <1>9, RequestFrame
<1>11. TokenTyped' BY <1>0, <1>3, <1>5, <1>8, <1>10 DEF TokenTyped, Replayed
<1>12. tfUpsets' = 0 => FreshInv' BY <1>0, <1>3, <1>5, <1>6, <1>7, <1>9, FreshStill DEF TokenInv
<1> QED BY <1>5, <1>8, <1>10, <1>11, <1>12 DEF TokenInv, RefreshInv

\* A pair is issued beside the ones there are.
LEMMA PairIssued ==
  ASSUME tfPair \in Seq(TokenPairs), NEW M \in Seq(TokenPairs), DOMAIN M = DOMAIN tfPair,
         NEW v \in TokenPairs, tfPair' = Append(M, v)
  PROVE  /\ tfPair' \in Seq(TokenPairs) /\ Len(tfPair) + 1 \in Nat /\ Len(tfPair) + 1 \notin DOMAIN tfPair
         /\ DOMAIN tfPair' = DOMAIN tfPair \cup {Len(tfPair) + 1}
         /\ tfPair'[Len(tfPair) + 1] = v /\ \A q \in DOMAIN tfPair : tfPair'[q] = M[q]
<1>1. Len(tfPair) \in Nat /\ DOMAIN tfPair = 1..Len(tfPair) OBVIOUS
<1>2. Len(M) \in Nat /\ DOMAIN M = 1..Len(M) OBVIOUS
<1>3. Len(M) = Len(tfPair) BY <1>1, <1>2
<1>4. /\ tfPair' \in Seq(TokenPairs) /\ Len(tfPair') = Len(M) + 1
      /\ \A q \in 1..Len(M) : tfPair'[q] = M[q] /\ tfPair'[Len(M) + 1] = v
  BY <1>2, AppendProperties
<1>5. DOMAIN tfPair' = 1..(Len(M) + 1) BY <1>4
<1>6. 1..(Len(tfPair) + 1) = (1..Len(tfPair)) \cup {Len(tfPair) + 1} BY <1>1
<1>7. tfPair'[Len(M) + 1] = v BY <1>2
<1> QED BY <1>1, <1>3, <1>4, <1>5, <1>6, <1>7

\* The new pair is the only one that can be used with its own credential.
LEMMA IssueFits ==
  ASSUME TokenTyped, ReplaysFit, OneBinding, MappedCredentialExists,
         NEW M \in Seq(TokenPairs), DOMAIN M = DOMAIN tfPair,
         NEW v \in TokenPairs, tfPair' = Append(M, v), UNCHANGED tfReplay,
         \A q \in DOMAIN tfPair : /\ M[q].from = tfPair[q].from /\ (M[q].stored => tfPair[q].stored)
                                  /\ M[q].refresh \in {tfPair[q].refresh, Unmapped},
         NEW u \in TokenIds, v.stored, v.refresh = <<u>>, tfUp'[u] # NoCred,
         u # Shared => \A q \in DOMAIN tfPair : M[q].stored => M[q].refresh # <<u>>,
         \A w \in TokenIds : tfUp[w] # NoCred => tfUp'[w] # NoCred
  PROVE  ReplaysFit' /\ OneBinding' /\ MappedCredentialExists'
<1>1. PICK n : n = Len(tfPair) + 1 OBVIOUS
<1>2. /\ n \notin DOMAIN tfPair /\ DOMAIN tfPair' = DOMAIN tfPair \cup {n}
      /\ tfPair'[n] = v /\ \A q \in DOMAIN tfPair : tfPair'[q] = M[q]
  BY <1>1, PairIssued DEF TokenTyped
<1>3. ReplaysFit' BY <1>2 DEF ReplaysFit, Replayed
<1>4. ASSUME NEW p \in DOMAIN tfPair', NEW q \in DOMAIN tfPair', tfPair'[p].stored, tfPair'[q].stored,
             tfPair'[p].refresh = tfPair'[q].refresh, tfPair'[p].refresh \notin {Unmapped, <<Shared>>}
      PROVE  p = q
  <2>1. CASE p \in DOMAIN tfPair /\ q \in DOMAIN tfPair BY <1>2, <1>4, <2>1 DEF OneBinding
  <2>2. ASSUME NEW y \in DOMAIN tfPair, tfPair'[y].stored PROVE tfPair'[y].refresh # <<u>> \/ u = Shared
    BY <1>2, <2>2
  <2>3. CASE p = n
    <3>1. tfPair'[q].refresh = <<u>> /\ u # Shared BY <1>2, <1>4, <2>3
    <3> QED BY <1>2, <1>4, <2>2, <2>3, <3>1
  <2>4. CASE q = n
    <3>1. tfPair'[p].refresh = <<u>> /\ u # Shared BY <1>2, <1>4, <2>4
    <3> QED BY <1>2, <1>4, <2>2, <2>4, <3>1
  <2> QED BY <1>2, <2>1, <2>3, <2>4
<1>5. OneBinding' BY <1>4 DEF OneBinding
<1>6. ASSUME NEW q \in DOMAIN tfPair', tfPair'[q].stored, tfPair'[q].refresh # Unmapped
      PROVE  tfUp'[tfPair'[q].refresh[1]] # NoCred
  <2>1. CASE q = n
    <3>1. tfPair'[q].refresh = <<u>> BY <1>2, <2>1
    <3>2. <<u>>[1] = u OBVIOUS
    <3> QED BY <3>1, <3>2
  <2>2. CASE q \in DOMAIN tfPair
    <3>1. tfPair[q].stored /\ tfPair'[q].refresh = tfPair[q].refresh /\ tfPair[q] \in TokenPairs
      BY <1>2, <1>6, <2>2 DEF TokenTyped
    <3>2. PICK w \in TokenIds : tfPair[q].refresh = <<w>> BY <1>6, <3>1 DEF TokenPairs, Mappings
    <3>3. <<w>>[1] = w OBVIOUS
    <3>4. tfUp[w] # NoCred BY <1>6, <2>2, <3>1, <3>2, <3>3 DEF MappedCredentialExists
    <3> QED BY <3>1, <3>2, <3>3, <3>4
  <2> QED BY <1>2, <2>1, <2>2
<1>7. MappedCredentialExists' BY <1>6 DEF MappedCredentialExists
<1> QED BY <1>3, <1>5, <1>7

\* The base class issues the next pair.
LEMMA RotatesKeeps == ASSUME TokenInv, NEW r \in TfCalls, Rotates(r) PROVE TokenInv'
<1>0. /\ TokenTyped /\ SpentBehind /\ OneHolder /\ ReplaysFit /\ OneBinding /\ MappedCredentialExists
      /\ \A q \in TfCalls : RequestFits(tfCall[q])
  BY DEF TokenInv, RefreshInv
<1>1. PICK call \in TokenRequests : call = tfCall[r] BY <1>0 DEF TokenTyped
<1>2. PICK n : n = Len(tfPair) + 1 OBVIOUS
<1>3. PICK c : c = [at |-> "share", token |-> call.token, up |-> call.up, pair |-> n] OBVIOUS
<1>4. /\ call.at = "received" /\ UNCHANGED <<tfGit, tfReplay, tfKnown, tfSpent, tfUpsets>>
      /\ tfUp' = [tfUp EXCEPT ![call.up] = call.cred]
      /\ tfCall' = [tfCall EXCEPT ![r] = c]
      /\ tfPair' = Append([tfPair EXCEPT ![call.token].stored = FALSE, ![call.token].refresh = Unmapped],
                         [from |-> call.token, stored |-> TRUE,
                          refresh |-> <<call.up>>, access |-> <<call.up>>])
  BY <1>1, <1>2, <1>3 DEF Rotates, Proceeds
<1>5. call \in ReceivedRequests BY <1>4, RequestShapes
<1>6. PICK u \in TokenIds : u = call.up BY <1>5 DEF ReceivedRequests
<1>7. PICK d \in Credentials : d = call.cred BY <1>5 DEF ReceivedRequests
<1>8. PICK t \in DOMAIN tfPair : t = call.token BY <1>0, <1>1, <1>4 DEF RequestFits
<1>9. /\ tfPair[t].stored /\ tfPair[t].refresh = <<u>> /\ (u # Shared => d.line = u)
  BY <1>0, <1>1, <1>4, <1>6, <1>7, <1>8 DEF RequestFits
<1>10. PICK w \in TokenPairs : w = tfPair[t] BY <1>0 DEF TokenTyped
<1>11. PICK x : x = [w EXCEPT !.stored = FALSE, !.refresh = Unmapped] OBVIOUS
<1>12. x \in TokenPairs /\ x.from = w.from /\ ~x.stored /\ x.refresh = Unmapped
  BY <1>10, <1>11 DEF TokenPairs, Mappings
<1>13. PICK M : M = [tfPair EXCEPT ![t] = x] OBVIOUS
<1>14. M \in Seq(TokenPairs) /\ DOMAIN M = DOMAIN tfPair /\ M[t] = x
       /\ \A q \in DOMAIN tfPair : q # t => M[q] = tfPair[q]
  BY <1>0, <1>12, <1>13, ExceptSeq DEF TokenTyped
<1>15. M = [tfPair EXCEPT ![call.token].stored = FALSE, ![call.token].refresh = Unmapped]
  BY <1>8, <1>10, <1>11, <1>13
<1>16. t \in Nat BY <1>0 DEF TokenTyped
<1>17. PICK v : v = [from |-> t, stored |-> TRUE, refresh |-> <<u>>, access |-> <<u>>] OBVIOUS
<1>18. v \in TokenPairs /\ v.from = t /\ v.stored /\ v.refresh = <<u>>
  <2>1. <<u>> \in Mappings BY DEF Mappings
  <2> QED BY <1>16, <1>17, <2>1 DEF TokenPairs
<1>19. tfPair' = Append(M, v) BY <1>4, <1>6, <1>8, <1>15, <1>17
<1>20. tfUp' = [tfUp EXCEPT ![u] = d] BY <1>4, <1>6, <1>7
<1>21. tfUp'[u] = d /\ \A y \in TokenIds : y # u => tfUp'[y] = tfUp[y] BY <1>0, <1>20 DEF TokenTyped
<1>22. d # NoCred BY CredentialsExist
<1>23. \A q \in DOMAIN tfPair : /\ M[q].from = tfPair[q].from /\ (M[q].stored => tfPair[q].stored)
                                /\ M[q].refresh \in {tfPair[q].refresh, Unmapped}
  BY <1>10, <1>12, <1>14
<1>24. u # Shared => \A q \in DOMAIN tfPair : M[q].stored => M[q].refresh # <<u>>
  <2>1. SUFFICES ASSUME u # Shared, NEW q \in DOMAIN tfPair, M[q].stored, M[q].refresh = <<u>> PROVE FALSE
    OBVIOUS
  <2>2. <<u>> # <<>> /\ <<u>> # <<Shared>> BY <2>1
  <2>3. q # t BY <1>12, <1>14, <2>1
  <2>4. tfPair[q].stored /\ tfPair[q].refresh = tfPair[t].refresh /\ tfPair[t].refresh \notin {Unmapped, <<Shared>>}
    BY <1>9, <1>14, <2>1, <2>2, <2>3 DEF Unmapped
  <2> QED BY <1>0, <1>9, <2>3, <2>4 DEF OneBinding
<1>25. \A y \in TokenIds : tfUp[y] # NoCred => tfUp'[y] # NoCred BY <1>21, <1>22
<1>26. ReplaysFit' /\ OneBinding' /\ MappedCredentialExists'
  BY <1>0, <1>4, <1>14, <1>18, <1>19, <1>21, <1>22, <1>23, <1>24, <1>25, IssueFits
<1>27. /\ tfPair' \in Seq(TokenPairs) /\ n \in Nat /\ n \in DOMAIN tfPair'
       /\ DOMAIN tfPair \subseteq DOMAIN tfPair' /\ tfPair'[n] = v
  BY <1>0, <1>2, <1>14, <1>18, <1>19, PairIssued DEF TokenTyped
<1>28. c \in TokenRequests
  BY <1>3, <1>6, <1>8, <1>16, <1>27 DEF TokenRequests, SharingRequests
<1>29. RequestFits(c)' BY <1>3, <1>6, <1>8, <1>18, <1>27 DEF RequestFits
<1>30. HasLock(r) /\ Holder(r) BY <1>0, <1>1, <1>4, HolderIsAlone DEF Holder, Loose
<1>31. /\ tfCall' \in [TfCalls -> TokenRequests] /\ OneHolder'
       /\ \A q \in TfCalls : RequestFits(tfCall[q])'
  BY <1>0, <1>4, <1>27, <1>28, <1>29, <1>30, RequestFrame
<1>32. /\ tfUp' \in [TokenIds -> Credentials \cup {NoCred}]
       /\ \A l \in TfLines : tfUp'[l] # NoCred => tfUp'[l].line = l
  <2>1. \A l \in TfLines : l \in TokenIds /\ l # Shared
    BY TokenConstants DEF TokenConstants, TokenIds, Shared
  <2>2. tfUp' \in [TokenIds -> Credentials \cup {NoCred}] BY <1>0, <1>20 DEF TokenTyped
  <2>3. ASSUME NEW l \in TfLines, tfUp'[l] # NoCred PROVE tfUp'[l].line = l
    <3>1. CASE l = u BY <1>9, <1>21, <2>1, <3>1
    <3>2. CASE l # u
      <4>1. tfUp'[l] = tfUp[l] BY <1>21, <2>1, <3>2
      <4> QED BY <1>0, <2>3, <4>1 DEF TokenTyped
    <3> QED BY <3>1, <3>2
  <2> QED BY <2>2, <2>3
<1>33. TokenTyped' BY <1>0, <1>4, <1>27, <1>31, <1>32 DEF TokenTyped, Replayed
<1>34. SpentBehind' BY <1>0, <1>4 DEF SpentBehind
<1>35. ASSUME tfUpsets' = 0 PROVE FreshInv'
  <2>1. FreshInv BY <1>4, <1>35 DEF TokenInv
  <2>2. Fresh(d) /\ (u # Shared => tfUp[Shared] = NoCred)
    BY <1>1, <1>4, <1>6, <1>7, <2>1 DEF FreshInv, RequestIsFresh
  <2>3. Fresh(d)' BY <1>4, <2>2 DEF Fresh
  <2>4. Fresh(tfUp[u])' BY <1>21, <2>3
  <2>5. Shared \in TokenIds /\ \A l \in TfLines : l \in TokenIds BY DEF TokenIds
  <2>6. tfUp'[Shared] = NoCred \/ Fresh(tfUp[Shared])' BY <1>21, <2>2, <2>4, <2>5
  <2>7. ASSUME tfUp'[Shared] = NoCred, NEW l \in TfLines PROVE tfUp'[l] = NoCred \/ Fresh(tfUp[l])'
    <3>1. u # Shared /\ tfUp[Shared] = NoCred BY <1>21, <1>22, <2>2, <2>7
    <3>2. Usable(l) BY <2>1, <3>1 DEF FreshInv
    <3>3. CASE l = u BY <2>4, <3>3
    <3>4. CASE l # u
      <4>1. ~Unsaved(l) BY <1>0, <1>1, <1>6, <1>30, <3>4 DEF Unsaved, OneHolder, Holder, Loose
      <4>2. tfUp'[l] = tfUp[l] BY <1>21, <2>5, <3>4
      <4> QED BY <1>4, <3>2, <4>1, <4>2 DEF Usable, Fresh
    <3> QED BY <3>3, <3>4
  <2>8. RequestIsFresh(c)' BY <1>3, <1>6, <2>4 DEF RequestIsFresh
  <2>9. \A l \in TfLines : tfGit'[l].ok BY <1>4, <2>1 DEF FreshInv
  <2> QED BY <1>0, <1>4, <1>30, <2>6, <2>7, <2>8, <2>9, FreshFrame
<1> QED BY <1>26, <1>31, <1>33, <1>34, <1>35 DEF TokenInv, RefreshInv

\* exchange_authorization_code.
LEMMA AuthorizationKeeps ==
  ASSUME TokenInv, NEW r \in TfCalls, NEW l \in TfLines, ExchangeAuthorizationCode(r, l) PROVE TokenInv'
<1>0. /\ TokenTyped /\ SpentBehind /\ OneHolder /\ ReplaysFit /\ OneBinding /\ MappedCredentialExists
      /\ \A q \in TfCalls : RequestFits(tfCall[q])
  BY DEF TokenInv, RefreshInv
<1>1. PICK n : n = Len(tfPair) + 1 OBVIOUS
<1>2. PICK c : c = [at |-> "share", token |-> 0, up |-> l, pair |-> n] OBVIOUS
<1>3. PICK d : d = [line |-> l, n |-> 1] OBVIOUS
<1>4. PICK v : v = [from |-> 0, stored |-> TRUE, refresh |-> <<l>>, access |-> <<l>>] OBVIOUS
<1>5. /\ UNCHANGED <<tfGit, tfReplay, tfKnown, tfSpent, tfUpsets>> /\ RefreshLockFree
      /\ tfUp[l] = NoCred /\ tfGit[l].n = 1
      /\ tfUp' = [tfUp EXCEPT ![l] = d] /\ tfPair' = Append(tfPair, v)
      /\ tfCall' = [tfCall EXCEPT ![r] = c]
  BY <1>1, <1>2, <1>3, <1>4 DEF ExchangeAuthorizationCode, Proceeds
<1>6. \A y \in TfLines : y \in TokenIds /\ y # Shared
  BY TokenConstants DEF TokenConstants, TokenIds, Shared
<1>7. d \in Credentials /\ d.line = l /\ d.n = 1 BY <1>3 DEF Credentials
<1>8. d # NoCred BY <1>7, CredentialsExist
<1>9. v \in TokenPairs /\ v.from = 0 /\ v.stored /\ v.refresh = <<l>>
  <2>1. <<l>> \in Mappings BY <1>6 DEF Mappings
  <2> QED BY <1>4, <2>1 DEF TokenPairs
<1>10. l \in TokenIds /\ l # Shared BY <1>6
<1>11. tfUp'[l] = d /\ \A y \in TokenIds : y # l => tfUp'[y] = tfUp[y] BY <1>0, <1>5, <1>10 DEF TokenTyped
<1>12. \A y \in TokenIds : tfUp[y] # NoCred => tfUp'[y] # NoCred BY <1>8, <1>11
<1>13. ASSUME NEW q \in DOMAIN tfPair, tfPair[q].stored PROVE tfPair[q].refresh # <<l>>
  <2>1. SUFFICES ASSUME tfPair[q].refresh = <<l>> PROVE FALSE OBVIOUS
  <2>2. <<l>> # <<>> /\ <<l>>[1] = l OBVIOUS
  <2> QED BY <1>0, <1>5, <1>13, <2>1, <2>2 DEF MappedCredentialExists, Unmapped
<1>14. tfPair \in Seq(TokenPairs) BY <1>0 DEF TokenTyped
<1>15. ReplaysFit' /\ OneBinding' /\ MappedCredentialExists'
  BY <1>0, <1>5, <1>8, <1>9, <1>10, <1>11, <1>12, <1>13, <1>14, IssueFits
<1>16. /\ tfPair' \in Seq(TokenPairs) /\ n \in Nat /\ n \in DOMAIN tfPair'
       /\ DOMAIN tfPair \subseteq DOMAIN tfPair' /\ tfPair'[n] = v
  BY <1>1, <1>5, <1>9, <1>14, PairIssued
<1>17. c \in TokenRequests BY <1>2, <1>10, <1>16 DEF TokenRequests, SharingRequests
<1>18. RequestFits(c)' BY <1>2, <1>9, <1>16 DEF RequestFits
<1>19. HasLock(r) BY <1>0, <1>5, HolderIsAlone
<1>20. /\ tfCall' \in [TfCalls -> TokenRequests] /\ OneHolder'
       /\ \A q \in TfCalls : RequestFits(tfCall[q])'
  BY <1>0, <1>5, <1>16, <1>17, <1>18, <1>19, RequestFrame
<1>21. /\ tfUp' \in [TokenIds -> Credentials \cup {NoCred}]
       /\ \A y \in TfLines : tfUp'[y] # NoCred => tfUp'[y].line = y
  <2>1. tfUp' \in [TokenIds -> Credentials \cup {NoCred}] BY <1>0, <1>5, <1>7 DEF TokenTyped
  <2> QED BY <1>0, <1>6, <1>7, <1>11, <2>1 DEF TokenTyped
<1>22. TokenTyped' BY <1>0, <1>5, <1>16, <1>20, <1>21 DEF TokenTyped, Replayed
<1>23. SpentBehind' BY <1>0, <1>5 DEF SpentBehind
<1>24. ASSUME tfUpsets' = 0 PROVE FreshInv'
  <2>1. FreshInv BY <1>5, <1>24 DEF TokenInv
  <2>2. /\ tfUp[Shared] = NoCred \/ Fresh(tfUp[Shared])
        /\ tfUp[Shared] = NoCred => \A y \in TfLines : tfUp[y] = NoCred \/ Fresh(tfUp[y])
    BY <1>0, <1>5, <2>1, Settled
  <2>3. tfUp'[Shared] = tfUp[Shared] BY <1>10, <1>11 DEF TokenIds
  <2>4. tfUp'[Shared] = NoCred \/ Fresh(tfUp[Shared])' BY <1>5, <2>2, <2>3 DEF Fresh
  <2>5. Fresh(tfUp[l])' BY <1>5, <1>7, <1>8, <1>11 DEF Fresh
  <2>6. ASSUME tfUp'[Shared] = NoCred, NEW y \in TfLines PROVE tfUp'[y] = NoCred \/ Fresh(tfUp[y])'
    <3>1. CASE y = l BY <2>5, <3>1
    <3>2. CASE y # l
      <4>1. tfUp'[y] = tfUp[y] BY <1>6, <1>11, <3>2
      <4> QED BY <1>5, <2>2, <2>3, <2>6, <4>1 DEF Fresh
    <3> QED BY <3>1, <3>2
  <2>7. RequestIsFresh(c)' BY <1>2, <2>5 DEF RequestIsFresh
  <2>8. \A y \in TfLines : tfGit'[y].ok BY <1>5, <2>1 DEF FreshInv
  <2> QED BY <1>0, <1>5, <1>19, <2>4, <2>6, <2>7, <2>8, FreshFrame
<1> QED BY <1>15, <1>20, <1>22, <1>23, <1>24 DEF TokenInv, RefreshInv

\* _converge_issued_tokens: the new credential becomes the shared one.
LEMMA PutKeeps == ASSUME TokenInv, NEW r \in TfCalls, PutCanonical(r) PROVE TokenInv'
<1>0. /\ TokenTyped /\ SpentBehind /\ OneHolder /\ ReplaysFit /\ OneBinding /\ MappedCredentialExists
      /\ \A q \in TfCalls : RequestFits(tfCall[q])
  BY DEF TokenInv, RefreshInv
<1>1. PICK call \in TokenRequests : call = tfCall[r] BY <1>0 DEF TokenTyped
<1>2. PICK c : c = [call EXCEPT !.at = "bind"] OBVIOUS
<1>3. /\ call.at = "share" /\ UNCHANGED <<tfGit, tfPair, tfReplay, tfKnown, tfSpent, tfUpsets>>
      /\ tfUp' = [tfUp EXCEPT ![Shared] = tfUp[call.up]] /\ tfCall' = [tfCall EXCEPT ![r] = c]
  BY <1>1, <1>2 DEF PutCanonical, Proceeds
<1>4. call \in SharingRequests BY <1>3, RequestShapes
<1>5. PICK u \in TokenIds : u = call.up BY <1>4 DEF SharingRequests
<1>6. /\ call.token \in {0} \cup DOMAIN tfPair /\ call.pair \in DOMAIN tfPair
      /\ tfPair[call.pair].stored /\ tfPair[call.pair].from = call.token
      /\ tfPair[call.pair].refresh = <<u>>
  BY <1>0, <1>1, <1>3, <1>5 DEF RequestFits
<1>7. PICK d : d = tfUp[u] OBVIOUS
<1>8. d # NoCred
  <2>1. <<u>> # <<>> /\ <<u>>[1] = u OBVIOUS
  <2> QED BY <1>0, <1>6, <1>7, <2>1 DEF MappedCredentialExists, Unmapped
<1>9. d \in Credentials BY <1>0, <1>7, <1>8 DEF TokenTyped
<1>10. tfUp' = [tfUp EXCEPT ![Shared] = d] BY <1>3, <1>5, <1>7
<1>11. /\ tfUp' \in [TokenIds -> Credentials \cup {NoCred}] /\ tfUp'[Shared] = d
       /\ \A l \in TfLines : tfUp'[l] # NoCred => tfUp'[l].line = l
       /\ \A y \in TokenIds : tfUp[y] # NoCred => tfUp'[y] # NoCred
  BY <1>0, <1>9, <1>10, SharedReplaced
<1>12. OneBinding' /\ MappedCredentialExists' BY <1>0, <1>3, <1>11, PairsUnchanged
<1>13. /\ c \in SharingRequests /\ c.at = "bind" /\ c.token = call.token /\ c.pair = call.pair
       /\ c.up = call.up
  BY <1>2, <1>4 DEF SharingRequests
<1>14. c \in TokenRequests BY <1>13 DEF TokenRequests
<1>15. RequestFits(c)' BY <1>3, <1>5, <1>6, <1>8, <1>11, <1>13 DEF RequestFits
<1>16. Holder(r) /\ HasLock(r) BY <1>0, <1>1, <1>3, HolderIsAlone DEF Holder, Loose
<1>17. /\ tfCall' \in [TfCalls -> TokenRequests] /\ OneHolder'
       /\ \A q \in TfCalls : RequestFits(tfCall[q])'
  BY <1>0, <1>3, <1>14, <1>15, <1>16, RequestFrame
<1>18. TokenTyped' BY <1>0, <1>3, <1>11, <1>17 DEF TokenTyped, Replayed
<1>19. SpentBehind' /\ ReplaysFit' BY <1>0, <1>3 DEF SpentBehind, ReplaysFit, Replayed
<1>20. ASSUME tfUpsets' = 0 PROVE FreshInv'
  <2>1. FreshInv BY <1>3, <1>20 DEF TokenInv
  <2>2. Fresh(d) BY <1>1, <1>3, <1>5, <1>7, <2>1 DEF FreshInv, RequestIsFresh
  <2>3. Fresh(d)' BY <1>3, <2>2 DEF Fresh
  <2>4. Fresh(tfUp[Shared])' BY <1>11, <2>3
  <2>5. RequestIsFresh(c)' BY <1>13 DEF RequestIsFresh
  <2>6. \A l \in TfLines : tfGit'[l].ok BY <1>3, <2>1 DEF FreshInv
  <2> QED BY <1>0, <1>3, <1>8, <1>11, <1>16, <2>4, <2>5, <2>6, FreshFrame
<1> QED BY <1>12, <1>17, <1>18, <1>19, <1>20 DEF TokenInv, RefreshInv

\* The new pair is bound to the shared credential.
LEMMA RebindKeeps == ASSUME TokenInv, NEW r \in TfCalls, Rebind(r) PROVE TokenInv'
<1>0. /\ TokenTyped /\ SpentBehind /\ OneHolder /\ ReplaysFit /\ OneBinding /\ MappedCredentialExists
      /\ \A q \in TfCalls : RequestFits(tfCall[q])
  BY DEF TokenInv, RefreshInv
<1>1. PICK call \in TokenRequests : call = tfCall[r] BY <1>0 DEF TokenTyped
<1>2. PICK c : c = [call EXCEPT !.at = "clear"] OBVIOUS
<1>3. /\ call.at = "bind" /\ UNCHANGED <<tfGit, tfUp, tfReplay, tfKnown, tfSpent, tfUpsets>>
      /\ tfPair' = BothBound(call.pair) /\ tfCall' = [tfCall EXCEPT ![r] = c]
  BY <1>1, <1>2 DEF Rebind, Proceeds
<1>4. call \in SharingRequests BY <1>3, RequestShapes
<1>5. PICK u \in TokenIds : u = call.up BY <1>4 DEF SharingRequests
<1>6. PICK p \in DOMAIN tfPair : p = call.pair BY <1>0, <1>1, <1>3 DEF RequestFits
<1>7. /\ call.token \in {0} \cup DOMAIN tfPair /\ tfPair[p].stored /\ tfPair[p].from = call.token
      /\ tfPair[p].refresh = <<u>> /\ tfUp[Shared] # NoCred
  BY <1>0, <1>1, <1>3, <1>5, <1>6 DEF RequestFits
<1>8. PICK w \in TokenPairs : w = tfPair[p] BY <1>0 DEF TokenTyped
<1>9. PICK v : v = [w EXCEPT !.refresh = <<Shared>>, !.access = <<Shared>>] OBVIOUS
<1>10. v \in TokenPairs /\ v.from = w.from /\ v.stored = w.stored /\ v.refresh = <<Shared>>
  <2>1. <<Shared>> \in Mappings BY DEF Mappings, TokenIds
  <2> QED BY <1>9, <2>1 DEF TokenPairs
<1>11. tfPair' = [tfPair EXCEPT ![p] = v] BY <1>3, <1>6, <1>8, <1>9 DEF BothBound
<1>12. /\ tfPair' \in Seq(TokenPairs) /\ DOMAIN tfPair' = DOMAIN tfPair
       /\ ReplaysFit' /\ OneBinding' /\ MappedCredentialExists'
  BY <1>0, <1>3, <1>7, <1>8, <1>10, <1>11, PairRebound
<1>13. tfPair'[p] = v /\ \A q \in DOMAIN tfPair : q # p => tfPair'[q] = tfPair[q]
  BY <1>0, <1>10, <1>11, PairChanges DEF TokenTyped
<1>14. ASSUME u # Shared, NEW q \in DOMAIN tfPair', tfPair'[q].stored PROVE tfPair'[q].refresh # <<u>>
  <2>1. <<u>> # <<>> /\ <<u>> # <<Shared>> BY <1>14
  <2>2. CASE q = p BY <1>10, <1>13, <2>1, <2>2
  <2>3. CASE q # p BY <1>0, <1>7, <1>12, <1>13, <1>14, <2>1, <2>3 DEF OneBinding, Unmapped
  <2> QED BY <2>2, <2>3
<1>15. /\ c \in SharingRequests /\ c.at = "clear" /\ c.token = call.token /\ c.pair = p /\ c.up = u
  BY <1>2, <1>4, <1>5, <1>6 DEF SharingRequests
<1>16. c \in TokenRequests BY <1>15 DEF TokenRequests
<1>17. RequestFits(c)'
  BY <1>7, <1>8, <1>10, <1>12, <1>13, <1>14, <1>15 DEF RequestFits
<1>18. Holder(r) /\ tfCall[r].at # "received" /\ HasLock(r) BY <1>0, <1>1, <1>3, HolderIsAlone DEF Holder, Loose
<1>19. /\ tfCall' \in [TfCalls -> TokenRequests] /\ OneHolder'
       /\ \A q \in TfCalls : RequestFits(tfCall[q])'
  BY <1>0, <1>3, <1>12, <1>16, <1>17, <1>18, RequestFrame
<1>20. TokenTyped' BY <1>0, <1>3, <1>12, <1>19 DEF TokenTyped, Replayed
<1>21. SpentBehind' BY <1>0, <1>3 DEF SpentBehind
<1>22. RequestIsFresh(c)' BY <1>15 DEF RequestIsFresh
<1>23. tfUpsets' = 0 => FreshInv' BY <1>0, <1>3, <1>18, <1>22, FreshStill DEF TokenInv
<1> QED BY <1>12, <1>19, <1>20, <1>21, <1>23 DEF TokenInv, RefreshInv

\* The source credential is cleared away and the answer remembered.
LEMMA DeleteKeeps == ASSUME TokenInv, NEW r \in TfCalls, DeleteSource(r) PROVE TokenInv'
<1>0. /\ TokenTyped /\ SpentBehind /\ OneHolder /\ ReplaysFit /\ OneBinding /\ MappedCredentialExists
      /\ \A q \in TfCalls : RequestFits(tfCall[q])
  BY DEF TokenInv, RefreshInv
<1>1. PICK call \in TokenRequests : call = tfCall[r] BY <1>0 DEF TokenTyped
<1>2. PICK c : c = [at |-> "answer", token |-> call.token, pair |-> call.pair] OBVIOUS
<1>3. /\ call.at = "clear" /\ UNCHANGED <<tfGit, tfPair, tfKnown, tfSpent, tfUpsets>>
      /\ tfUp' = [tfUp EXCEPT ![call.up] = IF call.up = Shared THEN @ ELSE NoCred]
      /\ tfReplay' = IF call.token = 0 THEN tfReplay ELSE Remembered(call.token, call.pair)
      /\ tfCall' = [tfCall EXCEPT ![r] = c]
  BY <1>1, <1>2 DEF DeleteSource, Proceeds
<1>4. call \in SharingRequests BY <1>3, RequestShapes
<1>5. PICK u \in TokenIds : u = call.up BY <1>4 DEF SharingRequests
<1>6. /\ call.token \in {0} \cup DOMAIN tfPair /\ call.pair \in DOMAIN tfPair
      /\ tfPair[call.pair].from = call.token
      /\ u # Shared => \A p \in DOMAIN tfPair : tfPair[p].stored => tfPair[p].refresh # <<u>>
  BY <1>0, <1>1, <1>3, <1>5 DEF RequestFits
<1>7. /\ tfUp' \in [TokenIds -> Credentials \cup {NoCred}]
      /\ \A y \in TokenIds : tfUp'[y] = IF y = u /\ u # Shared THEN NoCred ELSE tfUp[y]
  BY <1>0, <1>3, <1>5 DEF TokenTyped
<1>8. tfReplay' \in [DOMAIN tfReplay' -> Replays] /\ ReplaysFit'
  <2>1. CASE call.token = 0 BY <1>0, <1>3, <2>1 DEF TokenTyped, ReplaysFit, Replayed
  <2>2. CASE call.token # 0
    <3>1. \E T \in SUBSET Replayed : tfReplay' = Newest(T, call.token, call.pair)
      BY <1>3, <2>2 DEF Remembered
    <3>2. PICK T \in SUBSET Replayed : tfReplay' = Newest(T, call.token, call.pair) BY <3>1
    <3>3. PICK t \in DOMAIN tfPair : t = call.token BY <1>6, <2>2
    <3>4. PICK p \in DOMAIN tfPair : p = call.pair BY <1>6
    <3>5. tfPair[p].from = t /\ tfReplay' = Newest(T, t, p) BY <1>6, <3>2, <3>3, <3>4
    <3>6. /\ Newest(T, t, p) \in [T \cup {t} -> Replays]
          /\ \A y \in T \cup {t} : /\ y \in DOMAIN tfPair /\ Newest(T, t, p)[y].pair \in DOMAIN tfPair
                                   /\ tfPair[Newest(T, t, p)[y].pair].from = y
      BY <1>0, <3>5, NewestFits
    <3>7. /\ tfReplay' \in [T \cup {t} -> Replays]
          /\ \A y \in T \cup {t} : /\ y \in DOMAIN tfPair /\ tfReplay'[y].pair \in DOMAIN tfPair
                                   /\ tfPair[tfReplay'[y].pair].from = y
      BY <3>5, <3>6
    <3> QED BY <1>3, <3>7 DEF ReplaysFit, Replayed
  <2> QED BY <2>1, <2>2
<1>9. OneBinding' BY <1>0, <1>3 DEF OneBinding
<1>10. ASSUME NEW q \in DOMAIN tfPair, tfPair[q].stored, tfPair[q].refresh # Unmapped
       PROVE  tfUp'[tfPair[q].refresh[1]] # NoCred
  <2>1. tfPair[q] \in TokenPairs BY <1>0 DEF TokenTyped
  <2>2. PICK y \in TokenIds : tfPair[q].refresh = <<y>> BY <1>10, <2>1 DEF TokenPairs, Mappings
  <2>3. <<y>>[1] = y OBVIOUS
  <2>4. tfUp[y] # NoCred BY <1>0, <1>10, <2>2, <2>3 DEF MappedCredentialExists
  <2>5. u = Shared \/ y # u BY <1>6, <1>10, <2>2
  <2> QED BY <1>7, <2>2, <2>3, <2>4, <2>5
<1>11. MappedCredentialExists' BY <1>3, <1>10 DEF MappedCredentialExists
<1>12. call.token \in Nat /\ call.pair \in Nat BY <1>4 DEF SharingRequests
<1>13. c \in TokenRequests BY <1>2, <1>12 DEF TokenRequests, AnswerRequests
<1>14. RequestFits(c)' BY <1>2, <1>3, <1>6 DEF RequestFits
<1>15. Holder(r) /\ tfCall[r].at # "received" /\ HasLock(r) BY <1>0, <1>1, <1>3, HolderIsAlone DEF Holder, Loose
<1>16. /\ tfCall' \in [TfCalls -> TokenRequests] /\ OneHolder'
       /\ \A q \in TfCalls : RequestFits(tfCall[q])'
  BY <1>0, <1>3, <1>13, <1>14, <1>15, RequestFrame
<1>17. \A l \in TfLines : tfUp'[l] # NoCred => tfUp'[l] = tfUp[l] BY <1>7 DEF TokenIds
<1>18. \A l \in TfLines : tfUp'[l] # NoCred => tfUp'[l].line = l BY <1>0, <1>17 DEF TokenTyped
<1>19. TokenTyped' BY <1>0, <1>3, <1>7, <1>8, <1>16, <1>18 DEF TokenTyped, Replayed
<1>20. SpentBehind' BY <1>0, <1>3 DEF SpentBehind
<1>21. ASSUME tfUpsets' = 0 PROVE FreshInv'
  <2>1. FreshInv BY <1>3, <1>21 DEF TokenInv
  <2>2. /\ tfUp[Shared] = NoCred \/ Fresh(tfUp[Shared])
        /\ tfUp[Shared] = NoCred => \A l \in TfLines : tfUp[l] = NoCred \/ Fresh(tfUp[l])
    BY <1>0, <1>15, <2>1, Settled
  <2>3. tfUp'[Shared] = tfUp[Shared] BY <1>7 DEF TokenIds
  <2>4. tfUp'[Shared] = NoCred \/ Fresh(tfUp[Shared])' BY <1>3, <2>2, <2>3 DEF Fresh
  <2>5. ASSUME tfUp'[Shared] = NoCred, NEW l \in TfLines PROVE tfUp'[l] = NoCred \/ Fresh(tfUp[l])'
    BY <1>3, <1>17, <2>2, <2>3, <2>5 DEF Fresh
  <2>6. RequestIsFresh(c)' BY <1>2 DEF RequestIsFresh
  <2>7. \A l \in TfLines : tfGit'[l].ok BY <1>3, <2>1 DEF FreshInv
  <2> QED BY <1>0, <1>3, <1>15, <2>4, <2>5, <2>6, <2>7, FreshFrame
<1> QED BY <1>8, <1>9, <1>11, <1>16, <1>19, <1>20, <1>21 DEF TokenInv, RefreshInv

\* The answer leaves.
LEMMA AnswersKeeps == ASSUME TokenInv, NEW r \in TfCalls, AnswersClient(r) PROVE TokenInv'
<1>0. /\ TokenTyped /\ SpentBehind /\ OneHolder /\ ReplaysFit /\ OneBinding /\ MappedCredentialExists
      /\ \A q \in TfCalls : RequestFits(tfCall[q])
  BY DEF TokenInv, RefreshInv
<1>1. PICK c : c = Resting OBVIOUS
<1>2. /\ tfCall[r].at = "answer" /\ tfCall' = [tfCall EXCEPT ![r] = c]
      /\ tfKnown' \in {tfKnown, tfKnown \cup {tfCall[r].pair}}
      /\ UNCHANGED <<tfGit, tfUp, tfPair, tfReplay, tfSpent, tfUpsets>>
  BY <1>1 DEF AnswersClient, Proceeds
<1>3. c \in TokenRequests /\ c.at \in Loose /\ RequestFits(c) /\ tfCall[r].at \in Loose
  BY <1>1, <1>2 DEF TokenRequests, Loose, RequestFits, Resting
<1>4. /\ tfCall' \in [TfCalls -> TokenRequests] /\ OneHolder'
      /\ \A q \in TfCalls : RequestFits(tfCall[q])'
  BY <1>0, <1>2, <1>3, LooseFrame
<1>5. tfCall[r].pair \in DOMAIN tfPair BY <1>0, <1>2 DEF RequestFits
<1>6. tfKnown' \subseteq DOMAIN tfPair' BY <1>0, <1>2, <1>5 DEF TokenTyped
<1>7. TokenTyped' BY <1>0, <1>2, <1>4, <1>6 DEF TokenTyped, Replayed
<1>8. SpentBehind' /\ ReplaysFit' /\ OneBinding' /\ MappedCredentialExists'
  BY <1>0, <1>2 DEF SpentBehind, ReplaysFit, Replayed, OneBinding, MappedCredentialExists
<1>9. tfUpsets' = 0 => FreshInv' BY <1>0, <1>2, <1>3, FreshLoose DEF TokenInv
<1> QED BY <1>4, <1>7, <1>8, <1>9 DEF TokenInv, RefreshInv

\* A replay grows old.
LEMMA ReplayExpiresKeeps == ASSUME TokenInv, NEW t \in Replayed, ReplayExpires(t) PROVE TokenInv'
<1>0. /\ TokenTyped /\ SpentBehind /\ OneHolder /\ ReplaysFit /\ OneBinding /\ MappedCredentialExists
      /\ \A q \in TfCalls : RequestFits(tfCall[q])
  BY DEF TokenInv, RefreshInv
<1>1. /\ tfReplay' = [tfReplay EXCEPT ![t].old = TRUE]
      /\ UNCHANGED <<tfGit, tfUp, tfPair, tfCall, tfKnown, tfSpent, tfUpsets>>
  BY DEF ReplayExpires
<1>2. PICK e \in Replays : e = tfReplay[t] BY <1>0 DEF TokenTyped
<1>3. PICK f : f = [e EXCEPT !.old = TRUE] OBVIOUS
<1>4. f \in Replays /\ f.pair = e.pair BY <1>2, <1>3 DEF Replays
<1>5. tfReplay' = [tfReplay EXCEPT ![t] = f] BY <1>1, <1>2, <1>3
<1>6. DOMAIN tfReplay' = Replayed /\ tfReplay' \in [Replayed -> Replays]
      /\ \A u \in Replayed : tfReplay'[u].pair = tfReplay[u].pair
  BY <1>0, <1>2, <1>4, <1>5 DEF TokenTyped, Replayed
<1>7. ReplaysFit' BY <1>0, <1>1, <1>6 DEF ReplaysFit, Replayed
<1>8. TokenTyped' BY <1>0, <1>1, <1>6 DEF TokenTyped, Replayed
<1>9. SpentBehind' /\ OneBinding' /\ MappedCredentialExists' /\ OneHolder'
  BY <1>0, <1>1 DEF SpentBehind, OneBinding, MappedCredentialExists, OneHolder, Holder
<1>10. \A q \in TfCalls : RequestFits(tfCall[q])' BY <1>0, <1>1 DEF RequestFits
<1>11. tfUpsets' = 0 => FreshInv'
  BY <1>1 DEF TokenInv, FreshInv, Usable, Unsaved, Fresh, RequestIsFresh
<1> QED BY <1>7, <1>8, <1>9, <1>10, <1>11 DEF TokenInv, RefreshInv

\* The mappings of an old pair expire while nobody is past the lock.
LEMMA MappingExpiresKeeps == ASSUME TokenInv, NEW p \in DOMAIN tfPair, MappingExpires(p) PROVE TokenInv'
<1>0. /\ TokenTyped /\ SpentBehind /\ OneHolder /\ ReplaysFit /\ OneBinding /\ MappedCredentialExists
      /\ \A q \in TfCalls : RequestFits(tfCall[q])
  BY DEF TokenInv, RefreshInv
<1>1. /\ tfPair' = [tfPair EXCEPT ![p].refresh = Unmapped, ![p].access = Unmapped]
      /\ \A q \in TfCalls : tfCall[q].at \in {"idle", "loaded"}
      /\ UNCHANGED <<tfGit, tfUp, tfReplay, tfCall, tfKnown, tfSpent, tfUpsets>>
  BY DEF MappingExpires
<1>2. PICK w \in TokenPairs : w = tfPair[p] BY <1>0 DEF TokenTyped
<1>3. PICK v : v = [w EXCEPT !.refresh = Unmapped, !.access = Unmapped] OBVIOUS
<1>4. v \in TokenPairs /\ v.from = w.from /\ v.stored = w.stored /\ v.refresh = Unmapped
  BY <1>2, <1>3 DEF TokenPairs, Mappings
<1>5. tfPair' = [tfPair EXCEPT ![p] = v] BY <1>1, <1>2, <1>3
<1>6. v.refresh # <<Shared>> BY <1>4 DEF Unmapped
<1>7. /\ tfPair' \in Seq(TokenPairs) /\ DOMAIN tfPair' = DOMAIN tfPair
      /\ ReplaysFit' /\ OneBinding' /\ MappedCredentialExists'
  BY <1>0, <1>1, <1>2, <1>4, <1>5, <1>6, PairRebound
<1>8. ASSUME NEW q \in TfCalls PROVE RequestFits(tfCall[q])' /\ RequestIsFresh(tfCall[q])'
  <2>1. PICK c : c = tfCall[q] OBVIOUS
  <2>2. c.at \in {"idle", "loaded"} /\ RequestFits(c) BY <1>0, <1>1, <2>1
  <2>3. RequestFits(c)' /\ RequestIsFresh(c)' BY <1>7, <2>2 DEF RequestFits, RequestIsFresh
  <2> QED BY <1>1, <2>1, <2>3
<1>9. TokenTyped' BY <1>0, <1>1, <1>7 DEF TokenTyped, Replayed
<1>10. SpentBehind' /\ OneHolder' BY <1>0, <1>1 DEF SpentBehind, OneHolder, Holder
<1>11. tfUpsets' = 0 => FreshInv'
  BY <1>1, <1>8 DEF TokenInv, FreshInv, Usable, Unsaved, Fresh
<1> QED BY <1>7, <1>8, <1>9, <1>10, <1>11 DEF TokenInv, RefreshInv

\* GitHub lets an access token expire, or the user revokes an authorization.
LEMMA GitHubChangesKeeps ==
  ASSUME TokenInv, NEW l \in TfLines, CredentialAges(l) \/ UserRevokes(l) PROVE TokenInv'
<1>0. /\ TokenTyped /\ SpentBehind /\ OneHolder /\ ReplaysFit /\ OneBinding /\ MappedCredentialExists
      /\ \A q \in TfCalls : RequestFits(tfCall[q])
  BY DEF TokenInv, RefreshInv
<1>1. UNCHANGED <<tfUp, tfPair, tfReplay, tfCall, tfKnown, tfSpent>> BY DEF CredentialAges, UserRevokes
<1>2. PICK g \in [n : Nat, aged : BOOLEAN, ok : BOOLEAN] : g = tfGit[l] BY <1>0 DEF TokenTyped
<1>3. PICK h : /\ tfGit' = [tfGit EXCEPT ![l] = h] /\ h \in [n : Nat, aged : BOOLEAN, ok : BOOLEAN]
               /\ h.n = g.n /\ ((h.ok = g.ok /\ UNCHANGED tfUpsets) \/ Upset)
  <2>1. CASE CredentialAges(l)
    <3>1. PICK h : h = [g EXCEPT !.aged = TRUE] OBVIOUS
    <3>2. h \in [n : Nat, aged : BOOLEAN, ok : BOOLEAN] /\ h.n = g.n /\ h.ok = g.ok BY <1>2, <3>1
    <3>3. tfGit' = [tfGit EXCEPT ![l] = h] /\ UNCHANGED tfUpsets BY <1>2, <2>1, <3>1 DEF CredentialAges
    <3> QED BY <3>2, <3>3
  <2>2. CASE UserRevokes(l)
    <3>1. PICK h : h = [g EXCEPT !.ok = FALSE] OBVIOUS
    <3>2. h \in [n : Nat, aged : BOOLEAN, ok : BOOLEAN] /\ h.n = g.n BY <1>2, <3>1
    <3>3. tfGit' = [tfGit EXCEPT ![l] = h] /\ Upset BY <1>2, <2>2, <3>1 DEF UserRevokes
    <3> QED BY <3>2, <3>3
  <2> QED BY <2>1, <2>2
<1>4. tfGit \in [TfLines -> [n : Nat, aged : BOOLEAN, ok : BOOLEAN]] BY <1>0 DEF TokenTyped
<1>5. /\ tfGit' \in [TfLines -> [n : Nat, aged : BOOLEAN, ok : BOOLEAN]]
      /\ \A y \in TfLines : tfGit'[y].n = tfGit[y].n
  BY <1>2, <1>3, <1>4
<1>6. tfUpsets' \in Nat /\ (tfUpsets' = 0 => h.ok = g.ok /\ tfUpsets = 0)
  BY <1>0, <1>3 DEF Upset, TokenTyped
<1>7. TokenTyped' BY <1>0, <1>1, <1>5, <1>6 DEF TokenTyped, Replayed
<1>8. SpentBehind' BY <1>0, <1>1, <1>5, CredentialsExist DEF SpentBehind, TokenTyped
<1>9. ReplaysFit' /\ OneBinding' /\ MappedCredentialExists' /\ OneHolder'
  BY <1>0, <1>1 DEF ReplaysFit, Replayed, OneBinding, MappedCredentialExists, OneHolder, Holder
<1>10. \A q \in TfCalls : RequestFits(tfCall[q])' BY <1>0, <1>1 DEF RequestFits
<1>11. ASSUME tfUpsets' = 0 PROVE FreshInv'
  <2>1. FreshInv BY <1>6, <1>11 DEF TokenInv
  <2>2. \A y \in TfLines : tfGit'[y].ok BY <1>2, <1>3, <1>4, <1>6, <1>11, <2>1 DEF FreshInv
  <2>3. ASSUME NEW d \in Credentials \cup {NoCred}, Fresh(d) PROVE Fresh(d)'
    BY <1>5, <2>3, CredentialsExist DEF Fresh
  <2>4. ASSUME NEW u \in TokenIds, Usable(u) PROVE Usable(u)'
    <3>1. PICK d \in Credentials \cup {NoCred} : d = tfUp[u] BY <1>0 DEF TokenTyped
    <3>2. d = NoCred \/ Fresh(d) \/ Unsaved(u) BY <2>4, <3>1 DEF Usable
    <3>3. d = NoCred \/ Fresh(d)' \/ Unsaved(u)' BY <1>1, <2>3, <3>2 DEF Unsaved
    <3> QED BY <1>1, <3>1, <3>3 DEF Usable
  <2>5. Shared \in TokenIds /\ \A y \in TfLines : y \in TokenIds BY DEF TokenIds
  <2>6. ASSUME NEW q \in TfCalls PROVE RequestIsFresh(tfCall[q])'
    <3>1. PICK c \in TokenRequests : c = tfCall[q] BY <1>0 DEF TokenTyped
    <3>2. RequestIsFresh(c) BY <2>1, <3>1 DEF FreshInv
    <3>3. c.at = "received" => Fresh(c.cred)'
      <4>1. SUFFICES ASSUME c.at = "received" PROVE Fresh(c.cred)' OBVIOUS
      <4>2. PICK d \in Credentials : d = c.cred BY <4>1, RequestShapes DEF ReceivedRequests
      <4>3. Fresh(d) BY <3>2, <4>1, <4>2 DEF RequestIsFresh
      <4>4. Fresh(d)' BY <2>3, <4>3
      <4> QED BY <4>2, <4>4
    <3>4. c.at = "share" => Fresh(tfUp[c.up])'
      <4>1. SUFFICES ASSUME c.at = "share" PROVE Fresh(tfUp[c.up])' OBVIOUS
      <4>2. c.up \in TokenIds BY <4>1, RequestShapes DEF SharingRequests
      <4>3. PICK d \in Credentials \cup {NoCred} : d = tfUp[c.up] BY <1>0, <4>2 DEF TokenTyped
      <4>4. Fresh(d) BY <3>2, <4>1, <4>3 DEF RequestIsFresh
      <4>5. Fresh(d)' BY <2>3, <4>4
      <4> QED BY <1>1, <4>3, <4>5
    <3>5. RequestIsFresh(c)' BY <1>1, <3>2, <3>3, <3>4 DEF RequestIsFresh
    <3> QED BY <1>1, <3>1, <3>5
  <2> QED BY <1>1, <2>1, <2>2, <2>4, <2>5, <2>6 DEF FreshInv
<1> QED BY <1>7, <1>8, <1>9, <1>10, <1>11 DEF TokenInv, RefreshInv

\* The process restarts: requests and replays are gone.
LEMMA RestartsKeeps == ASSUME TokenInv, Restarts PROVE TokenInv'
<1>0. /\ TokenTyped /\ SpentBehind /\ OneHolder /\ ReplaysFit /\ OneBinding /\ MappedCredentialExists
  BY DEF TokenInv, RefreshInv
<1>1. /\ tfCall' = [q \in TfCalls |-> Resting] /\ tfReplay' = NoReplays /\ Upset
      /\ UNCHANGED <<tfGit, tfUp, tfPair, tfKnown, tfSpent>>
  BY DEF Restarts
<1>2. tfUpsets' \in Nat /\ tfUpsets' # 0 BY <1>0, <1>1 DEF Upset, TokenTyped
<1>3. DOMAIN tfReplay' = {} /\ tfReplay' \in [{} -> Replays] BY <1>1 DEF NoReplays
<1>4. tfCall' \in [TfCalls -> TokenRequests] BY <1>1 DEF TokenRequests
<1>5. \A q \in TfCalls : tfCall'[q].at = "idle" BY <1>1 DEF Resting
<1>6. OneHolder' BY <1>5 DEF OneHolder, Holder, Loose
<1>7. \A q \in TfCalls : RequestFits(tfCall[q])' BY <1>5 DEF RequestFits
<1>8. TokenTyped' BY <1>0, <1>1, <1>2, <1>3, <1>4 DEF TokenTyped, Replayed
<1>9. ReplaysFit' BY <1>3 DEF ReplaysFit, Replayed
<1>10. SpentBehind' /\ OneBinding' /\ MappedCredentialExists'
  BY <1>0, <1>1 DEF SpentBehind, OneBinding, MappedCredentialExists
<1> QED BY <1>2, <1>6, <1>7, <1>8, <1>9, <1>10 DEF TokenInv, RefreshInv

\* The store an earlier release leaves.
LEMMA TokenInitially == TfInit => TokenInv
<1> SUFFICES ASSUME TfInit PROVE TokenInv OBVIOUS
<1>1. PICK first \in TfOld \cup {Shared} :
        /\ tfUp = [u \in TfLines \cup {Shared} |->
                     IF u = Shared /\ first # Shared THEN [line |-> first, n |-> 1]
                     ELSE IF u \in TfOld \ {first} THEN [line |-> u, n |-> 1] ELSE NoCred]
        /\ tfPair = [p \in 1..Cardinality(TfOld) |->
                       LET u == IF p = first THEN Shared ELSE p IN
                       [from |-> 0, stored |-> TRUE, refresh |-> <<u>>, access |-> <<u>>]]
  BY DEF TfInit
<1>2. /\ tfGit = [l \in TfLines |-> [n |-> 1, aged |-> FALSE, ok |-> TRUE]]
      /\ tfReplay = NoReplays /\ tfCall = [r \in TfCalls |-> Resting]
      /\ tfKnown = DOMAIN tfPair /\ tfSpent = {} /\ tfUpsets = 0
  BY DEF TfInit
<1>3. /\ Cardinality(TfOld) \in Nat /\ TfOld = 1..Cardinality(TfOld) /\ TfOld \subseteq TfLines
      /\ \A l \in TfLines : l \in Nat /\ l # Shared
  BY TokenConstants, FS_CardinalityType DEF TokenConstants, Shared
<1>4. DOMAIN tfPair = TfOld BY <1>1, <1>3
<1>5. \A p \in TfOld : /\ tfPair[p].from = 0 /\ tfPair[p].stored
                       /\ tfPair[p].refresh = <<IF p = first THEN Shared ELSE p>>
                       /\ tfPair[p] \in TokenPairs
  <2>1. SUFFICES ASSUME NEW p \in TfOld PROVE /\ tfPair[p].from = 0 /\ tfPair[p].stored
                       /\ tfPair[p].refresh = <<IF p = first THEN Shared ELSE p>>
                       /\ tfPair[p] \in TokenPairs
    OBVIOUS
  <2>2. PICK u : u = IF p = first THEN Shared ELSE p OBVIOUS
  <2>3. tfPair[p] = [from |-> 0, stored |-> TRUE, refresh |-> <<u>>, access |-> <<u>>]
    BY <1>1, <1>3, <2>2
  <2>4. u \in TokenIds BY <1>3, <2>2 DEF TokenIds
  <2>5. <<u>> \in Mappings BY <2>4 DEF Mappings
  <2> QED BY <2>2, <2>3, <2>5 DEF TokenPairs
<1>6. tfPair \in Seq(TokenPairs)
  <2>1. tfPair = [p \in 1..Cardinality(TfOld) |-> tfPair[p]] BY <1>1
  <2>2. \A p \in 1..Cardinality(TfOld) : tfPair[p] \in TokenPairs BY <1>3, <1>5
  <2> QED BY <1>3, <2>1, <2>2, IsASeq
<1>7. first \in TfLines \cup {Shared} BY <1>3
<1>8. /\ tfUp[Shared] = IF first # Shared THEN [line |-> first, n |-> 1] ELSE NoCred
      /\ \A l \in TfLines : tfUp[l] = IF l \in TfOld \ {first} THEN [line |-> l, n |-> 1] ELSE NoCred
  <2>1. ASSUME NEW l \in TfLines
        PROVE  tfUp[l] = IF l \in TfOld \ {first} THEN [line |-> l, n |-> 1] ELSE NoCred
    BY <1>1, <1>3
  <2>2. Shared \notin TfOld BY <1>3
  <2> QED BY <1>1, <2>1, <2>2
<1>9. \A l \in TfLines : /\ [line |-> l, n |-> 1] \in Credentials /\ [line |-> l, n |-> 1] # NoCred
                         /\ [line |-> l, n |-> 1].line = l /\ Fresh([line |-> l, n |-> 1])
  <2>1. SUFFICES ASSUME NEW l \in TfLines
                 PROVE  /\ [line |-> l, n |-> 1] \in Credentials /\ [line |-> l, n |-> 1] # NoCred
                        /\ [line |-> l, n |-> 1].line = l /\ Fresh([line |-> l, n |-> 1])
    OBVIOUS
  <2>2. [line |-> l, n |-> 1] \in Credentials BY DEF Credentials
  <2>3. [line |-> l, n |-> 1] # NoCred BY <2>2, CredentialsExist
  <2>4. tfGit[l].n = 1 BY <1>2
  <2> QED BY <2>2, <2>3, <2>4 DEF Fresh
<1>10. tfUp \in [TokenIds -> Credentials \cup {NoCred}]
  <2>1. DOMAIN tfUp = TokenIds BY <1>1 DEF TokenIds
  <2>2. tfUp = [u \in TokenIds |-> tfUp[u]] BY <1>1 DEF TokenIds
  <2>3. \A u \in TokenIds : tfUp[u] \in Credentials \cup {NoCred} BY <1>7, <1>8, <1>9 DEF TokenIds
  <2> QED BY <2>2, <2>3
<1>11. \A l \in TfLines : tfUp[l] # NoCred => tfUp[l].line = l BY <1>8, <1>9
<1>12. tfReplay \in [Replayed -> Replays] /\ Replayed = {} BY <1>2 DEF NoReplays, Replayed
<1>13. \A r \in TfCalls : tfCall[r].at = "idle" BY <1>2 DEF Resting
<1>14. tfCall \in [TfCalls -> TokenRequests] BY <1>2 DEF TokenRequests
<1>15. tfGit \in [TfLines -> [n : Nat, aged : BOOLEAN, ok : BOOLEAN]] BY <1>2
<1>16. TokenTyped BY <1>2, <1>6, <1>10, <1>11, <1>12, <1>14, <1>15 DEF TokenTyped
<1>17. SpentBehind /\ ReplaysFit BY <1>2, <1>12 DEF SpentBehind, ReplaysFit
<1>18. OneHolder BY <1>13 DEF OneHolder, Holder, Loose
<1>19. OneBinding
  <2>1. SUFFICES ASSUME NEW p \in TfOld, NEW q \in TfOld, tfPair[p].refresh = tfPair[q].refresh,
                        tfPair[p].refresh # <<Shared>>
                 PROVE  p = q
    BY <1>4 DEF OneBinding
  <2>2. p # first /\ q # first BY <1>5, <2>1
  <2>3. <<p>> = <<q>> BY <1>5, <2>1, <2>2
  <2> QED BY <2>3
<1>20. MappedCredentialExists
  <2>1. SUFFICES ASSUME NEW p \in TfOld PROVE tfUp[tfPair[p].refresh[1]] # NoCred
    BY <1>4 DEF MappedCredentialExists
  <2>2. CASE p = first
    <3>1. tfPair[p].refresh = <<Shared>> /\ <<Shared>>[1] = Shared BY <1>5, <2>2
    <3>2. first \in TfLines /\ first # Shared BY <1>3, <2>2
    <3>3. tfUp[Shared] # NoCred BY <1>8, <1>9, <3>2
    <3> QED BY <3>1, <3>3
  <2>3. CASE p # first
    <3>1. tfPair[p].refresh = <<p>> /\ <<p>>[1] = p BY <1>5, <2>3
    <3>2. p \in TfLines BY <1>3
    <3>3. tfUp[p] # NoCred BY <1>8, <1>9, <2>3, <3>2
    <3> QED BY <3>1, <3>3
  <2> QED BY <2>2, <2>3
<1>21. \A r \in TfCalls : RequestFits(tfCall[r]) /\ RequestIsFresh(tfCall[r])
  BY <1>13 DEF RequestFits, RequestIsFresh
<1>22. FreshInv
  <2>1. \A l \in TfLines : tfGit[l].ok BY <1>2
  <2>2. \A u \in TokenIds : tfUp[u] = NoCred \/ Fresh(tfUp[u]) BY <1>7, <1>8, <1>9 DEF TokenIds
  <2>3. \A u \in TokenIds : Usable(u) BY <2>2 DEF Usable
  <2> QED BY <1>21, <2>1, <2>3 DEF FreshInv, TokenIds
<1> QED BY <1>16, <1>17, <1>18, <1>19, <1>20, <1>21, <1>22 DEF TokenInv, RefreshInv

\* Every step of the provider, of GitHub and of the user.
LEMMA TokenStep == TokenInv /\ [TfNext]_tfVars => TokenInv'
<1> SUFFICES ASSUME TokenInv, [TfNext]_tfVars PROVE TokenInv' OBVIOUS
<1>1. ASSUME NEW r \in TfCalls, NEW t \in DOMAIN tfPair, LoadRefreshToken(r, t) PROVE TokenInv'
  BY <1>1, LoadRefreshKeeps
<1>2. ASSUME NEW r \in TfCalls, NEW t \in DOMAIN tfPair, LoadAccessToken(r, t) PROVE TokenInv'
  BY <1>2, LoadAccessKeeps
<1>3. ASSUME NEW r \in TfCalls, NEW l \in TfLines, ExchangeAuthorizationCode(r, l) PROVE TokenInv'
  BY <1>3, AuthorizationKeeps
<1>4. ASSUME NEW r \in TfCalls, ExchangeRefreshToken(r) PROVE TokenInv' BY <1>4, ExchangeRefreshKeeps
<1>5. ASSUME NEW r \in TfCalls, RebindToValidCanonical(r) PROVE TokenInv' BY <1>5, RebindToValidKeeps
<1>6. ASSUME NEW r \in TfCalls, Renews(r) PROVE TokenInv' BY <1>6, RenewsKeeps
<1>7. ASSUME NEW r \in TfCalls, PromoteOwnCredential(r) PROVE TokenInv' BY <1>7, PromoteKeeps
<1>8. ASSUME NEW r \in TfCalls, RenewsOwn(r) PROVE TokenInv' BY <1>8, RenewsOwnKeeps
<1>9. ASSUME NEW r \in TfCalls, GitHubRefreshes(r) PROVE TokenInv' BY <1>9, GitHubKeeps
<1>10. ASSUME NEW r \in TfCalls, RefreshFails(r) PROVE TokenInv' BY <1>10, RefreshFailsKeeps
<1>11. ASSUME NEW r \in TfCalls, Rotates(r) PROVE TokenInv' BY <1>11, RotatesKeeps
<1>12. ASSUME NEW r \in TfCalls, PutCanonical(r) PROVE TokenInv' BY <1>12, PutKeeps
<1>13. ASSUME NEW r \in TfCalls, Rebind(r) PROVE TokenInv' BY <1>13, RebindKeeps
<1>14. ASSUME NEW r \in TfCalls, DeleteSource(r) PROVE TokenInv' BY <1>14, DeleteKeeps
<1>15. ASSUME NEW r \in TfCalls, AnswersClient(r) PROVE TokenInv' BY <1>15, AnswersKeeps
<1>16. CASE RenewsShared BY <1>16, RenewsSharedKeeps
<1>17. ASSUME NEW t \in Replayed, ReplayExpires(t) PROVE TokenInv' BY <1>17, ReplayExpiresKeeps
<1>18. ASSUME NEW p \in DOMAIN tfPair, MappingExpires(p) PROVE TokenInv' BY <1>18, MappingExpiresKeeps
<1>19. ASSUME NEW l \in TfLines, CredentialAges(l) \/ UserRevokes(l) PROVE TokenInv'
  BY <1>19, GitHubChangesKeeps
<1>20. CASE Restarts BY <1>20, RestartsKeeps
<1>21. CASE UNCHANGED tfVars
  <2>1. UNCHANGED <<tfGit, tfUp, tfPair, tfReplay, tfCall, tfKnown, tfSpent, tfUpsets>> BY <1>21 DEF tfVars
  <2>2. RefreshInv' BY <2>1 DEF TokenInv, RefreshInv, TokenTyped, SpentBehind, OneHolder, Holder, ReplaysFit,
                               Replayed, OneBinding, MappedCredentialExists, RequestFits
  <2>3. tfUpsets' = 0 => FreshInv'
    BY <2>1 DEF TokenInv, FreshInv, Usable, Unsaved, Fresh, RequestIsFresh
  <2> QED BY <2>2, <2>3 DEF TokenInv
<1> QED
  BY <1>1, <1>2, <1>3, <1>4, <1>5, <1>6, <1>7, <1>8, <1>9, <1>10, <1>11, <1>12, <1>13, <1>14, <1>15,
     <1>16, <1>17, <1>18, <1>19, <1>20, <1>21 DEF TfNext

\* A step that brings no request to an answer decides none.
LEMMA NothingAnswered ==
  ASSUME TokenTyped, NEW r \in TfCalls, NEW c, tfCall' = [tfCall EXCEPT ![r] = c], c.at # "answer"
  PROVE  AnswerIsLiveSuccessor
<1>1. tfCall'[r] = c /\ \A q \in TfCalls : q # r => tfCall'[q] = tfCall[q] BY DEF TokenTyped
<1> QED BY <1>1 DEF AnswerIsLiveSuccessor

\* A request that moves on is where it moved to.
LEMMA MovedOn ==
  ASSUME NEW c \in TokenRequests, NEW a PROVE [c EXCEPT !.at = a].at = a
BY DEF TokenRequests, Resting, LoadedRequests, RefreshRequests, AccessRequests, ReceivedRequests,
       SharingRequests, AnswerRequests

\* A step that brings a request to its answer.
LEMMA AnswerDecided ==
  ASSUME TokenTyped, NEW r \in TfCalls, NEW t, NEW p,
         tfCall' = [tfCall EXCEPT ![r] = [at |-> "answer", token |-> t, pair |-> p]],
         tfPair'[p].from = t, tfPair'[p].stored, tfPair'[p].refresh = <<Shared>>
  PROVE  AnswerIsLiveSuccessor
<1>1. PICK c : c = [at |-> "answer", token |-> t, pair |-> p] OBVIOUS
<1>2. c.token = t /\ c.pair = p BY <1>1
<1>3. tfCall'[r] = c /\ \A q \in TfCalls : q # r => tfCall'[q] = tfCall[q] BY <1>1 DEF TokenTyped
<1>4. ASSUME NEW q \in TfCalls, tfCall'[q].at = "answer", tfCall[q].at # "answer"
      PROVE  /\ tfPair'[tfCall'[q].pair].from = tfCall'[q].token
             /\ tfPair'[tfCall'[q].pair].stored /\ tfPair'[tfCall'[q].pair].refresh = <<Shared>>
  <2>1. q = r BY <1>3, <1>4
  <2> QED BY <1>2, <1>3, <2>1
<1> QED BY <1>4 DEF AnswerIsLiveSuccessor

\* What a request decides to answer is the live successor of its token.
LEMMA AnswersAreLive ==
  ASSUME TokenInv, [TfNext]_tfVars PROVE AnswerIsLiveSuccessor \/ UNCHANGED tfVars
<1>0. TokenTyped /\ ReplaysFit /\ \A q \in TfCalls : RequestFits(tfCall[q]) BY DEF TokenInv, RefreshInv
<1>0b. \A q \in TfCalls : tfCall[q] \in TokenRequests BY <1>0 DEF TokenTyped
<1>0c. ASSUME UNCHANGED tfCall PROVE AnswerIsLiveSuccessor BY <1>0c DEF AnswerIsLiveSuccessor
<1>1. ASSUME NEW r \in TfCalls, NEW t \in DOMAIN tfPair, LoadRefreshToken(r, t) PROVE AnswerIsLiveSuccessor
  <2>1. PICK c : c = [at |-> "loaded", token |-> t] OBVIOUS
  <2>2. c.at # "answer" /\ (tfCall' = [tfCall EXCEPT ![r] = c] \/ UNCHANGED tfCall)
    BY <1>1, <2>1 DEF LoadRefreshToken, Proceeds
  <2> QED BY <1>0, <1>0c, <2>2, NothingAnswered
<1>2. ASSUME NEW r \in TfCalls, NEW t \in DOMAIN tfPair, LoadAccessToken(r, t) PROVE AnswerIsLiveSuccessor
  <2>1. PICK c : c = [at |-> "rebind", token |-> t, use |-> "access"] OBVIOUS
  <2>2. c.at # "answer" /\ tfCall' = [tfCall EXCEPT ![r] = c] BY <1>2, <2>1 DEF LoadAccessToken, Proceeds
  <2> QED BY <1>0, <2>2, NothingAnswered
<1>3. ASSUME NEW r \in TfCalls, NEW l \in TfLines, ExchangeAuthorizationCode(r, l) PROVE AnswerIsLiveSuccessor
  <2>1. PICK c : c = [at |-> "share", token |-> 0, up |-> l, pair |-> Len(tfPair) + 1] OBVIOUS
  <2>2. c.at # "answer" /\ tfCall' = [tfCall EXCEPT ![r] = c]
    BY <1>3, <2>1 DEF ExchangeAuthorizationCode, Proceeds
  <2> QED BY <1>0, <2>2, NothingAnswered
<1>4. ASSUME NEW r \in TfCalls, ExchangeRefreshToken(r) PROVE AnswerIsLiveSuccessor
  <2>1. PICK t : t = tfCall[r].token OBVIOUS
  <2>2. UNCHANGED tfPair BY <1>4 DEF ExchangeRefreshToken
  <2>3. CASE ReplayHolds(t) /\ tfCall' = [tfCall EXCEPT ![r] = [at |-> "answer", token |-> t,
                                                               pair |-> tfReplay[t].pair]]
    <3>1. PICK p : p = tfReplay[t].pair OBVIOUS
    <3>2. tfPair[p].stored /\ tfPair[p].refresh = <<Shared>> /\ tfPair[p].from = t
      BY <1>0, <2>3, <3>1 DEF ReplayHolds, ReplaysFit
    <3> QED BY <1>0, <2>2, <2>3, <3>1, <3>2, AnswerDecided
  <2>4. CASE \E c : c.at # "answer" /\ tfCall' = [tfCall EXCEPT ![r] = c]
    BY <1>0, <2>4, NothingAnswered
  <2>5. Resting.at # "answer" BY DEF Resting
  <2>6. \A a \in {"present", "rebind"} :
          [at |-> a, token |-> t, use |-> "refresh", again |-> FALSE].at # "answer"
    OBVIOUS
  <2> QED BY <1>4, <2>1, <2>3, <2>4, <2>5, <2>6 DEF ExchangeRefreshToken, Proceeds
<1>5. ASSUME NEW r \in TfCalls, RebindToValidCanonical(r) PROVE AnswerIsLiveSuccessor
  <2>1. PICK c : /\ tfCall' = [tfCall EXCEPT ![r] = c]
                 /\ c = Resting \/ \E a \in {"present", "own"} : c = [tfCall[r] EXCEPT !.at = a]
    BY <1>5 DEF RebindToValidCanonical, Proceeds
  <2>2. \A a \in {"present", "own"} : [tfCall[r] EXCEPT !.at = a].at = a BY <1>0b, MovedOn
  <2>3. Resting.at # "answer" BY DEF Resting
  <2>4. c.at # "answer" BY <2>1, <2>2, <2>3
  <2> QED BY <1>0, <2>1, <2>4, NothingAnswered
<1>6. ASSUME NEW r \in TfCalls, Renews(r) PROVE AnswerIsLiveSuccessor
  <2>1. CASE UNCHANGED tfCall BY <1>0c, <2>1
  <2>2. CASE \E a \in {"present", "own"} : tfCall' = [tfCall EXCEPT ![r] = [tfCall[r] EXCEPT !.at = a]]
    <3>1. PICK a \in {"present", "own"} : tfCall' = [tfCall EXCEPT ![r] = [tfCall[r] EXCEPT !.at = a]] BY <2>2
    <3>2. PICK c : c = [tfCall[r] EXCEPT !.at = a] OBVIOUS
    <3>3. c.at # "answer" BY <1>0b, <3>2, MovedOn
    <3> QED BY <1>0, <3>1, <3>2, <3>3, NothingAnswered
  <2> QED BY <1>6, <2>1, <2>2 DEF Renews, Proceeds
<1>7. ASSUME NEW r \in TfCalls, PromoteOwnCredential(r) PROVE AnswerIsLiveSuccessor
  <2>1. PICK c : c = Resting OBVIOUS
  <2>2. c.at # "answer" /\ tfCall' = [tfCall EXCEPT ![r] = c] BY <1>7, <2>1 DEF PromoteOwnCredential, Proceeds, Resting
  <2> QED BY <1>0, <2>2, NothingAnswered
<1>8. ASSUME NEW r \in TfCalls, RenewsOwn(r) PROVE AnswerIsLiveSuccessor
  BY <1>8, <1>0c DEF RenewsOwn, BaseRenews
<1>9. ASSUME NEW r \in TfCalls, GitHubRefreshes(r) PROVE AnswerIsLiveSuccessor
  <2>1. PICK c : c = [at |-> "received", token |-> tfCall[r].token, up |-> tfPair[tfCall[r].token].refresh[1],
                      cred |-> Successor(Source(tfCall[r]))]
    OBVIOUS
  <2>2. c.at # "answer" /\ tfCall' = [tfCall EXCEPT ![r] = c] BY <1>9, <2>1 DEF GitHubRefreshes, Proceeds
  <2> QED BY <1>0, <2>2, NothingAnswered
<1>10. ASSUME NEW r \in TfCalls, RefreshFails(r) PROVE AnswerIsLiveSuccessor
  <2>1. PICK c : /\ tfCall' = [tfCall EXCEPT ![r] = c]
                 /\ c = Resting \/ c = [tfCall[r] EXCEPT !.again = TRUE]
    BY <1>10 DEF RefreshFails, Proceeds
  <2>2. tfCall[r] \in RefreshRequests BY <1>0b, <1>10, RequestShapes DEF RefreshFails
  <2>3. c.at # "answer" BY <2>1, <2>2 DEF Resting, RefreshRequests
  <2> QED BY <1>0, <2>1, <2>3, NothingAnswered
<1>11. ASSUME NEW r \in TfCalls, Rotates(r) PROVE AnswerIsLiveSuccessor
  <2>1. PICK c : c = [at |-> "share", token |-> tfCall[r].token, up |-> tfCall[r].up, pair |-> Len(tfPair) + 1]
    OBVIOUS
  <2>2. c.at # "answer" /\ tfCall' = [tfCall EXCEPT ![r] = c] BY <1>11, <2>1 DEF Rotates, Proceeds
  <2> QED BY <1>0, <2>2, NothingAnswered
<1>12. ASSUME NEW r \in TfCalls, PutCanonical(r) \/ Rebind(r) PROVE AnswerIsLiveSuccessor
  <2>1. PICK a \in {"bind", "clear"} : tfCall' = [tfCall EXCEPT ![r] = [tfCall[r] EXCEPT !.at = a]]
    BY <1>12 DEF PutCanonical, Rebind, Proceeds
  <2>2. PICK c : c = [tfCall[r] EXCEPT !.at = a] OBVIOUS
  <2>3. c.at # "answer" BY <1>0b, <2>2, MovedOn
  <2> QED BY <1>0, <2>1, <2>2, <2>3, NothingAnswered
<1>13. ASSUME NEW r \in TfCalls, DeleteSource(r) PROVE AnswerIsLiveSuccessor
  <2>1. PICK t : t = tfCall[r].token OBVIOUS
  <2>2. PICK p : p = tfCall[r].pair OBVIOUS
  <2>3. /\ tfCall[r].at = "clear" /\ UNCHANGED tfPair
        /\ tfCall' = [tfCall EXCEPT ![r] = [at |-> "answer", token |-> t, pair |-> p]]
    BY <1>13, <2>1, <2>2 DEF DeleteSource, Proceeds
  <2>4. tfPair[p].stored /\ tfPair[p].refresh = <<Shared>> /\ tfPair[p].from = t
    BY <1>0, <2>1, <2>2, <2>3 DEF RequestFits
  <2> QED BY <1>0, <2>3, <2>4, AnswerDecided
<1>14. ASSUME NEW r \in TfCalls, AnswersClient(r) PROVE AnswerIsLiveSuccessor
  <2>1. PICK c : c = Resting OBVIOUS
  <2>2. c.at # "answer" /\ tfCall' = [tfCall EXCEPT ![r] = c] BY <1>14, <2>1 DEF AnswersClient, Proceeds, Resting
  <2> QED BY <1>0, <2>2, NothingAnswered
<1>15. CASE RenewsShared BY <1>15, <1>0c DEF RenewsShared, BaseRenews
<1>16. ASSUME NEW t \in Replayed, ReplayExpires(t) PROVE AnswerIsLiveSuccessor
  BY <1>16, <1>0c DEF ReplayExpires
<1>17. ASSUME NEW p \in DOMAIN tfPair, MappingExpires(p) PROVE AnswerIsLiveSuccessor
  BY <1>17, <1>0c DEF MappingExpires
<1>18. ASSUME NEW l \in TfLines, CredentialAges(l) \/ UserRevokes(l) PROVE AnswerIsLiveSuccessor
  BY <1>18, <1>0c DEF CredentialAges, UserRevokes
<1>19. CASE Restarts
  <2>1. \A q \in TfCalls : tfCall'[q].at # "answer" BY <1>19 DEF Restarts, Resting
  <2> QED BY <2>1 DEF AnswerIsLiveSuccessor
<1> QED
  BY <1>1, <1>2, <1>3, <1>4, <1>5, <1>6, <1>7, <1>8, <1>9, <1>10, <1>11, <1>12, <1>13, <1>14, <1>15,
     <1>16, <1>17, <1>18, <1>19 DEF TfNext

\* What goes to GitHub is fresh, so it is behind nothing that was spent.
LEMMA SpentOnce == TokenInv => CredentialSpentOnce
<1> SUFFICES ASSUME TokenInv, tfUpsets = 0, NEW r \in TfCalls
             PROVE  /\ tfCall[r].at = "present" => Source(tfCall[r]) \notin tfSpent
                    /\ tfCall[r].at = "rebind" => tfUp[Shared] \notin tfSpent
  BY DEF CredentialSpentOnce
<1>1. /\ TokenTyped /\ SpentBehind /\ OneHolder /\ FreshInv /\ RequestFits(tfCall[r])
      /\ RequestIsFresh(tfCall[r])
  BY DEF TokenInv, RefreshInv, FreshInv
<1>2. ASSUME NEW d, d = NoCred \/ Fresh(d) PROVE d \notin tfSpent
  <2>1. SUFFICES ASSUME d \in tfSpent PROVE FALSE OBVIOUS
  <2>2. d \in Credentials BY <1>1, <2>1 DEF TokenTyped
  <2>3. d # NoCred /\ d.n \in Nat BY <2>2, CredentialsExist
  <2>4. d.n < tfGit[d.line].n /\ tfGit[d.line].n = d.n BY <1>1, <1>2, <2>1, <2>3 DEF SpentBehind, Fresh
  <2> QED BY <2>3, <2>4
<1>3. ASSUME tfCall[r].at \in {"present", "rebind"}
      PROVE  /\ tfUp[Shared] = NoCred \/ Fresh(tfUp[Shared])
             /\ tfUp[Shared] = NoCred => \A l \in TfLines : tfUp[l] = NoCred \/ Fresh(tfUp[l])
  BY <1>1, <1>3, Settled DEF Holder, Loose
<1>4. ASSUME tfCall[r].at = "present" PROVE Source(tfCall[r]) \notin tfSpent
  <2>1. CASE Source(tfCall[r]) = NoCred BY <1>2, <2>1
  <2>2. CASE Source(tfCall[r]) # NoCred
    <3>1. PICK call : call = tfCall[r] OBVIOUS
    <3>2. call.token \in DOMAIN tfPair BY <1>1, <1>4, <3>1 DEF RequestFits
    <3>3. PICK u \in TokenIds : tfPair[call.token].refresh = <<u>> /\ Source(call) = tfUp[u]
      BY <1>1, <2>2, <3>1, <3>2, SourceCredential
    <3>4. <<u>> # <<>> /\ (u # Shared => <<u>> # <<Shared>>) OBVIOUS
    <3>5. u = Shared \/ tfUp[Shared] = NoCred
      BY <1>1, <1>4, <3>1, <3>3, <3>4 DEF RequestIsFresh, Unmapped
    <3>6. tfUp[u] = NoCred \/ Fresh(tfUp[u]) BY <1>3, <1>4, <3>5 DEF TokenIds
    <3> QED BY <1>2, <3>1, <3>3, <3>6
  <2> QED BY <2>1, <2>2
<1>5. ASSUME tfCall[r].at = "rebind" PROVE tfUp[Shared] \notin tfSpent BY <1>2, <1>3, <1>5
<1> QED BY <1>4, <1>5

\* Concurrent, repeated and interrupted refreshes, with any number of clients and requests:
\* the answer is the live successor, a credential is spent once, and no mapping that can be
\* used points at a missing credential.
THEOREM RefreshStaysSound == TfSpec => RefreshIsSound
<1>1. TokenInv /\ TokenInv' /\ [TfNext]_tfVars =>
        [AnswerIsLiveSuccessor /\ CredentialSpentOnce' /\ MappedCredentialExists']_tfVars
  <2>1. TokenInv => MappedCredentialExists BY DEF TokenInv, RefreshInv
  <2>2. (TokenInv => CredentialSpentOnce /\ MappedCredentialExists)' BY <2>1, SpentOnce, PTL
  <2> QED BY <2>2, AnswersAreLive
<1> QED BY <1>1, TokenInitially, TokenStep, PTL DEF TfSpec, RefreshIsSound
=============================================================================
