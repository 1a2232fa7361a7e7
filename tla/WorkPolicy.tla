------------------------------ MODULE WorkPolicy ------------------------------
(***************************************************************************)
(* The semantic state of one work item (lifecycle, wait and next action) and  *)
(* the writes the tracker accepts: tracker/policy.py with the FINISH           *)
(* normalisation and the reopen rule of protected_update.                     *)
(*                                                                         *)
(* An update validates only the group of fields its patch touches.  The        *)
(* question is whether that is enough to keep the whole row coherent.          *)
(***************************************************************************)

CONSTANTS
  Exact,  \* values other than NONE and UNKNOWN
  Null,   \* an unset column
  Unset   \* a field the patch does not mention

Sentinel == {"NONE", "UNKNOWN"}
Value == Exact \cup Sentinel
Lifecycle == {"CURRENT", "WAITING", "DEFERRED", "TERMINAL", "UNKNOWN"}

ASSUME PolicyConstants ==
  /\ Exact \cap Sentinel = {}
  /\ Null \notin Value \cup Lifecycle
  /\ Unset \notin Value \cup Lifecycle \cup {Null}
  /\ Unset \notin BOOLEAN

Row == [completed: BOOLEAN, lifecycle: Lifecycle \cup {Null},
        wait: Value \cup {Null}, unblock: Value \cup {Null}, due: Value \cup {Null},
        class: Value \cup {Null}, ref: Value \cup {Null}]

(* ScalarPatch: a field is mentioned with a value or not mentioned, never null. *)
Patch == [completed: BOOLEAN \cup {Unset}, lifecycle: Lifecycle \cup {Unset},
          wait: Value \cup {Unset}, unblock: Value \cup {Unset}, due: Value \cup {Unset},
          class: Value \cup {Unset}, ref: Value \cup {Unset}]

VARIABLE row   \* the semantic columns of the work item

NoAction(r) == r.class = "NONE" /\ r.ref = "NONE"
ExactAction(r) == r.class \in Exact /\ r.ref \in Exact
NoWait(r) == r.wait = "NONE" /\ r.unblock = "NONE" /\ r.due = "NONE"

-----------------------------------------------------------------------------
(* The groups of fields a patch affects; each contains the one before it. *)
Transition(p) == p.completed # Unset \/ p.lifecycle # Unset
Waits(p) == Transition(p) \/ p.wait # Unset \/ p.unblock # Unset \/ p.due # Unset

Actions(p) == Waits(p) \/ p.class # Unset \/ p.ref # Unset

(* validate_resultant_state: the rules of each group *)
TransitionRule(r) == r.completed <=> r.lifecycle = "TERMINAL"

ActionRule(r) ==
  /\ NoAction(r) \/ (r.class = "UNKNOWN" /\ r.ref = "UNKNOWN") \/ ExactAction(r)
  /\ r.lifecycle \in {"WAITING", "DEFERRED", "TERMINAL"} => NoAction(r)

WaitRule(r) ==
  /\ r.lifecycle \in {"CURRENT", "TERMINAL"} => NoWait(r)
  /\ r.lifecycle \in {"WAITING", "DEFERRED"} =>
       r.wait \in Exact /\ r.unblock \in Exact /\ r.due # Null
  /\ r.lifecycle = "UNKNOWN" => Null \notin {r.wait, r.unblock, r.due}

(* Mutant: the wait rule belongs to lifecycle changes only. *)
ValidateTransitionsOnly(r, p) ==
  /\ Actions(p) => r.lifecycle \in Lifecycle /\ ActionRule(r)
  /\ Transition(p) => TransitionRule(r) /\ WaitRule(r)

ValidateResultantState(r, p) ==
  /\ Actions(p) => r.lifecycle \in Lifecycle /\ ActionRule(r)
  /\ Transition(p) => TransitionRule(r)
  /\ Waits(p) => WaitRule(r)

-----------------------------------------------------------------------------
(* A patch that sets one of completed and lifecycle to finish the work is       *)
(* completed to the whole terminal state; it may not contradict that state.     *)
Finished == [completed |-> TRUE, lifecycle |-> "TERMINAL", wait |-> "NONE",
             unblock |-> "NONE", due |-> "NONE", class |-> "NONE", ref |-> "NONE"]

Finishes(p) ==
  \/ p.completed = TRUE /\ p.lifecycle = Unset
  \/ p.lifecycle = "TERMINAL" /\ p.completed = Unset

Contradicts(p) ==
  \E v \in {p.wait, p.unblock, p.due, p.class, p.ref} : v \notin {Unset, "NONE"}

Normalized(p) == IF Finishes(p) THEN Finished ELSE p

Choose(new, old) == IF new = Unset THEN old ELSE new

Candidate(r, p) ==
  [completed |-> Choose(p.completed, r.completed),
   lifecycle |-> Choose(p.lifecycle, r.lifecycle),
   wait |-> Choose(p.wait, r.wait), unblock |-> Choose(p.unblock, r.unblock),
   due |-> Choose(p.due, r.due),
   class |-> Choose(p.class, r.class), ref |-> Choose(p.ref, r.ref)]

(* Finished work is taken up again only by a patch that says so in full. *)
ReopensExplicitly(p) ==
  /\ p.completed = FALSE /\ p.lifecycle = "CURRENT"
  /\ p.class \in Exact /\ p.ref \in Exact
  /\ p.wait = "NONE" /\ p.unblock = "NONE" /\ p.due = "NONE"

(* Mutant: finished work is reopened like any other transition. *)
ReopenFreely(r, p, candidate) == TRUE

ReopenRule(r, p, candidate) ==
  (Transition(p) /\ (r.completed \/ r.lifecycle = "TERMINAL") /\ ~candidate.completed)
    => ReopensExplicitly(p)

(* protected_update, as far as the semantic columns go. *)
Update(p) ==
  /\ Finishes(p) => ~Contradicts(p)
  /\ ReopenRule(row, Normalized(p), Candidate(row, Normalized(p)))
  /\ ValidateResultantState(Candidate(row, Normalized(p)), Normalized(p))
  /\ row' = Candidate(row, Normalized(p))

(* A feedback classification that closes its source (AMEND, DUPLICATE). *)
CloseSource ==
  /\ ~row.completed
  /\ row' = Finished

-----------------------------------------------------------------------------
(* validate_create_state: captured work and reports wait for triage, evidence   *)
(* is inert, and substantive work has a next action or an exact wait.           *)
ExactWait(r) == r.wait \in Exact /\ r.unblock \in Exact /\ r.due \in Exact

Triage(r) == r.lifecycle = "WAITING" /\ ExactWait(r) /\ NoAction(r)

Evidence(r) == r.lifecycle = "CURRENT" /\ NoWait(r) /\ NoAction(r)

Substantive(r) ==
  \/ r.lifecycle = "CURRENT" /\ NoWait(r) /\ ExactAction(r)
  \/ r.lifecycle \in {"WAITING", "DEFERRED"} /\ ExactWait(r) /\ NoAction(r)

Created == {r \in Row : ~r.completed /\ (Triage(r) \/ Evidence(r) \/ Substantive(r))}

(* Rows that no create validated: a review occurrence has a lifecycle and none   *)
(* of the other columns, and every semantic column of an older row is nullable.  *)
Bare == [completed: BOOLEAN, lifecycle: Lifecycle \cup {Null}, wait: {Null},
         unblock: {Null}, due: {Null}, class: {Null}, ref: {Null}]

Init == row \in Created \cup Bare

Next == (\E p \in Patch : Update(p)) \/ CloseSource

Spec == Init /\ [][Next]_row

-----------------------------------------------------------------------------
(* The whole row obeys the rules of all three groups. *)
Coherent(r) ==
  r.lifecycle \in Lifecycle /\ TransitionRule(r) /\ ActionRule(r) /\ WaitRule(r)

(* The columns hold values of their types. *)
PolicyTypeOK == row \in Row

(* A coherent row never becomes incoherent, although an update checks only the  *)
(* groups of fields its patch mentions: what it leaves out cannot be made wrong  *)
(* by what it changes.                                                          *)
CoherenceIsKept == [][Coherent(row) => Coherent(row)']_row

(* Finished work comes back only as work one can start on: current, not         *)
(* waiting, with an exact next action.                                          *)
FinishedWorkReopensStartable ==
  [][(row.completed /\ ~row'.completed) =>
       row'.lifecycle = "CURRENT" /\ NoWait(row)' /\ ExactAction(row)']_row

(* A bare row has either been given a coherent state in full or still lacks   *)
(* what it lacked: a wait is never half recorded.                               *)
WaitsAreWhole ==
  \/ {row.wait, row.unblock, row.due} = {Null}
  \/ Null \notin {row.wait, row.unblock, row.due} /\ WaitRule(row)


\* Every operation admitted by the policy leaves a row whose waiting fields are all set, by
\* the rule of its kind, or all empty.
RowIsWhole ==
  PolicyTypeOK /\ WaitsAreWhole

\* What no admitted operation does: break a coherent row, or reopen finished work in a
\* state from which it cannot be started.
StepsKeepThePolicy ==
  [][/\ Coherent(row) => Coherent(row)'
     /\ (row.completed /\ ~row'.completed) =>
          row'.lifecycle = "CURRENT" /\ NoWait(row)' /\ ExactAction(row)']_row
=============================================================================
