---------------------------- MODULE RequiredResult ----------------------------
(***************************************************************************)
(* Saving a required result (chatgpt.py required_result_save over         *)
(* lifecycle.py).  One principal saves results for one work: the          *)
(* obligation and the update effect share an operation id made from       *)
(* principal, work and destination.  Saves run concurrently, carry        *)
(* different texts and die at any step; the grant is reissued between     *)
(* their reads.  With canonical work the update is one transaction and    *)
(* comes before the result is bound to the obligation; with a provider    *)
(* the binding comes first and the effect may stay unknown.               *)
(***************************************************************************)
EXTENDS Naturals

CONSTANTS
  Saves,          \* calls of required_result_save
  Texts,          \* result texts
  RrGrants       \* bound on grant versions

VARIABLES
  rrCanonical,    \* canonical_work_active
  rrGrant,        \* version of the principal's grant
  rrRow,          \* the obligation: state, version, token, text
  rrEffect,       \* the journalled update: text and effect
  rrSaved,        \* observer: the texts written into the notes, with multiplicity
  rrSaves         \* call -> step, text, the grant and the obligation it read

rrVars == <<rrCanonical, rrGrant, rrRow, rrEffect, rrSaved, rrSaves>>

NoText == "no text"

ASSUME RequiredResultConstants == RrGrants \in Nat /\ NoText \notin Texts

NoRow == [state |-> "absent", version |-> 0, token |-> 0, text |-> NoText]
NoUpdate == [text |-> NoText, effect |-> "none"]
NoSave == [pc |-> "idle", text |-> NoText, grant |-> 0, row |-> NoRow, out |-> "none"]

RrInit ==
  /\ rrCanonical \in BOOLEAN
  /\ rrGrant = 1
  /\ rrRow = NoRow
  /\ rrEffect = NoUpdate
  /\ rrSaved = [t \in Texts |-> 0]
  /\ rrSaves = [s \in Saves |-> NoSave]

RrReissue ==
  /\ rrGrant < RrGrants /\ rrGrant' = rrGrant + 1
  /\ UNCHANGED <<rrCanonical, rrRow, rrEffect, rrSaved, rrSaves>>

RrStep(s, pc) == rrSaves' = [rrSaves EXCEPT ![s].pc = pc]
RrReload(s, row, pc) == rrSaves' = [rrSaves EXCEPT ![s].row = row, ![s].pc = pc]
RrEnd(s) == rrSaves' = [rrSaves EXCEPT ![s] = NoSave]

\* The caller names the grant version it knows; it must be the current one.
RrBegin(s, t) ==
  /\ rrSaves[s].pc = "idle"
  /\ rrSaves' = [rrSaves EXCEPT ![s] = [NoSave EXCEPT !.pc = "row", !.text = t, !.grant = rrGrant]]
  /\ UNCHANGED <<rrCanonical, rrGrant, rrRow, rrEffect, rrSaved>>

SameResult(row, t) == row.state \in {"absent", "PENDING_RESULT"} \/ row.text = t

\* get or create the obligation; another result's obligation refuses this one.
RrLoad(s) ==
  LET call == rrSaves[s]
      fresh == [state |-> "PENDING_RESULT", version |-> 1, token |-> call.grant, text |-> NoText]
      row == IF rrRow = NoRow THEN fresh ELSE rrRow IN
  /\ call.pc = "row"
  /\ rrRow' = row
  /\ IF SameResult(row, call.text)
     THEN RrReload(s, row, IF row.token # call.grant THEN "adopt" ELSE "effect")
     ELSE RrEnd(s)
  /\ UNCHANGED <<rrCanonical, rrGrant, rrEffect, rrSaved>>

\* replace: the row as the transition read it must still be there.
RrReplaced(old, new) == rrRow = old /\ rrRow' = [new EXCEPT !.version = old.version + 1]

\* adopt_currentness: only before a write can have been tried.
Adoptable(row) == row.state \in {"PENDING_RESULT", "PERSIST_REQUIRED"}

\* Under the grant lock, an obligation without an effect follows the grant.
RrAdopt(s) ==
  LET call == rrSaves[s] IN
  /\ call.pc = "adopt"
  /\ IF rrGrant # call.grant THEN RrEnd(s) /\ UNCHANGED rrRow
     ELSE IF rrEffect # NoUpdate THEN RrStep(s, "effect") /\ UNCHANGED rrRow
     ELSE IF Adoptable(call.row)
     THEN \/ /\ RrReplaced(call.row, [call.row EXCEPT !.token = call.grant])
             /\ RrReload(s, rrRow', "effect")
          \/ rrRow # call.row /\ RrEnd(s) /\ UNCHANGED rrRow
     ELSE RrEnd(s) /\ UNCHANGED rrRow
  /\ UNCHANGED <<rrCanonical, rrGrant, rrEffect, rrSaved>>

\* A recorded effect must carry this text; without one the notes are prepared.
RrEffect(s) ==
  LET call == rrSaves[s] IN
  /\ call.pc = "effect"
  /\ IF call.row.state = "TERMINAL" \/ rrEffect.text \notin {NoText, call.text} THEN RrEnd(s)
     ELSE RrStep(s, IF rrCanonical THEN "update" ELSE "ready")
  /\ UNCHANGED <<rrCanonical, rrGrant, rrRow, rrEffect, rrSaved>>

RrWrite(t) == rrSaved' = [rrSaved EXCEPT ![t] = @ + 1]

\* protected_update: the recorded effect of the same request, or a new one
\* under the grant the caller named; a changed request is refused.
UpdateOf(s) ==
  LET call == rrSaves[s] IN
  \/ rrEffect.text = call.text /\ UNCHANGED <<rrEffect, rrSaved>>
  \/ /\ rrEffect = NoUpdate /\ rrGrant = call.grant
     /\ rrEffect' = [text |-> call.text, effect |-> "applied"]
     /\ RrWrite(call.text)

RrUpdate(s) ==
  /\ rrSaves[s].pc = "update"
  /\ UpdateOf(s)
  /\ rrSaves' = [rrSaves EXCEPT ![s].out = rrEffect'.effect, ![s].pc = "ready"]
  /\ UNCHANGED <<rrCanonical, rrGrant, rrRow>>

\* The binding of the result after RESULT_READY, whoever made it.
ReadyFor(s) == rrRow'.text = rrSaves[s].text

\* transition RESULT_READY of the row as it is now.
ReadyAllowed(s) == rrRow.state = "PENDING_RESULT" /\ rrRow.token = rrSaves[s].grant
Bound(t) == [rrRow EXCEPT !.state = "PERSIST_REQUIRED", !.text = t, !.version = @ + 1]

\* RESULT_READY binds the text to the obligation if nothing else did; a
\* transition that fails falls back on the row as it is now.
RrReady(s) ==
  LET call == rrSaves[s]
      next == IF rrCanonical THEN "terminal" ELSE "send" IN
  /\ call.pc = "ready"
  /\ rrRow' = IF call.row.state = "PENDING_RESULT" /\ ReadyAllowed(s)
              THEN Bound(call.text) ELSE rrRow
  /\ IF ReadyFor(s)
     THEN RrReload(s, IF call.row.state = "PENDING_RESULT" THEN rrRow' ELSE call.row, next)
     ELSE RrEnd(s)
  /\ UNCHANGED <<rrCanonical, rrGrant, rrEffect, rrSaved>>

\* The provider gateway: a recorded effect is reconciled, a new one applied,
\* refused, or left unknown with the notes written or not.
RrSend(s) ==
  LET call == rrSaves[s] IN
  /\ call.pc = "send"
  /\ \/ /\ rrEffect = NoUpdate /\ rrGrant = call.grant
        /\ \E effect \in {"applied", "unknown", "not_sent"} :
             /\ rrEffect' = [text |-> call.text, effect |-> effect]
             /\ \/ effect # "not_sent" /\ RrWrite(call.text)
                \/ effect # "applied" /\ UNCHANGED rrSaved
     \/ /\ rrEffect.effect = "unknown" /\ rrSaved[call.text] > 0
        /\ rrEffect' = [rrEffect EXCEPT !.effect = "applied"] /\ UNCHANGED rrSaved
     \/ rrEffect # NoUpdate /\ UNCHANGED <<rrEffect, rrSaved>>
  /\ rrSaves' = [rrSaves EXCEPT ![s].out = rrEffect'.effect, ![s].pc = "terminal"]
  /\ UNCHANGED <<rrCanonical, rrGrant, rrRow>>

TerminalWhenNotRefused(s) ==
  /\ rrSaves[s].out # "not_sent" /\ rrRow.text = rrSaves[s].text
  /\ rrRow.state \in {"PERSIST_REQUIRED", "UNKNOWN"}

\* transition PERSIST_READBACK_MATCHED under the grant lock.
TerminalAllowed(s) ==
  LET call == rrSaves[s] IN
  /\ call.out = "applied"
  /\ rrGrant = call.grant
  /\ rrRow.token = call.row.token /\ rrRow.text = call.text
  /\ rrRow.state \in {"PERSIST_REQUIRED", "UNKNOWN"}

\* transition PERSIST_OUTCOME_AMBIGUOUS.
AmbiguousAllowed(s) ==
  LET call == rrSaves[s] IN
  /\ call.out = "unknown" /\ call.row.state = "PERSIST_REQUIRED"
  /\ rrRow.token = call.row.token /\ rrRow.state = "PERSIST_REQUIRED"

RrTerminal(s) ==
  /\ rrSaves[s].pc = "terminal"
  /\ \/ TerminalAllowed(s) /\ RrReplaced(rrRow, [rrRow EXCEPT !.state = "TERMINAL"])
     \/ AmbiguousAllowed(s) /\ RrReplaced(rrRow, [rrRow EXCEPT !.state = "UNKNOWN"])
     \/ ~TerminalAllowed(s) /\ ~AmbiguousAllowed(s) /\ UNCHANGED rrRow
  /\ RrEnd(s)
  /\ UNCHANGED <<rrCanonical, rrGrant, rrEffect, rrSaved>>

\* A late provider write of an effect that was left unknown.
RrLateWrite ==
  /\ ~rrCanonical /\ rrEffect.effect = "unknown" /\ rrSaved[rrEffect.text] = 0
  /\ RrWrite(rrEffect.text)
  /\ UNCHANGED <<rrCanonical, rrGrant, rrRow, rrEffect, rrSaves>>

\* The call dies or a guard ends it.
RrDie(s) ==
  /\ rrSaves[s].pc # "idle" /\ RrEnd(s)
  /\ UNCHANGED <<rrCanonical, rrGrant, rrRow, rrEffect, rrSaved>>

RrNext ==
  \/ RrReissue \/ RrLateWrite
  \/ \E s \in Saves : \/ \E t \in Texts : RrBegin(s, t)
                      \/ RrLoad(s) \/ RrAdopt(s) \/ RrEffect(s) \/ RrUpdate(s)
                      \/ RrReady(s) \/ RrSend(s) \/ RrTerminal(s) \/ RrDie(s)

RrSpec == RrInit /\ [][RrNext]_rrVars

-----------------------------------------------------------------------------
(* Properties.                                                            *)

\* Whatever the races, retries and crashes of saves, the notes receive at
\* most one result, once.
ResultSavedOnce == \A t, u \in Texts : rrSaved[t] + (IF t = u THEN 0 ELSE rrSaved[u]) <= 1

\* A TERMINAL obligation names the text that really is in the notes.
TerminalResultIsSaved == rrRow.state = "TERMINAL" => rrSaved[rrRow.text] = 1

\* The obligation and the effect journal never disagree on the result: once
\* a text is bound, no other text can be under way to the notes.
BoundResultIsTheEffect ==
  rrRow.state \in {"PERSIST_REQUIRED", "UNKNOWN", "TERMINAL"} /\ rrEffect # NoUpdate
    => rrEffect.text = rrRow.text

\* lifecycle.py transition: a saved result stays saved, whatever save comes
\* after it, and an obligation never forgets the text it was bound to.
BindingIsKept ==
  /\ rrRow.state = "TERMINAL" => rrRow' = rrRow
  /\ rrRow.text # NoText => rrRow'.text = rrRow.text

\* Retries, lost answers and reconciliations of a required result: it is written to the
\* work once, with the text it was bound to, and TERMINAL says so truly and for good.
ResultIsSavedAsBound ==
  [][ResultSavedOnce' /\ TerminalResultIsSaved' /\ BoundResultIsTheEffect' /\ BindingIsKept]_rrVars
=============================================================================
