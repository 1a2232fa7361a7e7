------------------------------ MODULE MCEffects ------------------------------
(***************************************************************************)
(* What the edge asks of services outside: the effects on the tracker's    *)
(* tasks and the tokens it holds from GitHub.  They share no variable:     *)
(* focus picks, in the initial state, the one that runs.                   *)
(***************************************************************************)
EXTENDS ProviderEffects, TokenRefresh, TLC

CONSTANTS c1, c2, o1, o2, w1, v1, v2

VARIABLE focus

SomeCallers == {c1, c2}
SomeOps == {o1, o2}
SomeValues == {v1, v2}
Interchangeable ==
  Permutations(SomeCallers) \cup Permutations(SomeOps) \cup Permutations(SomeValues)

Init ==
  /\ focus \in {"effects", "tokens"}
  /\ PeInit /\ (focus = "effects" \/ \A o \in PeOps : peOps[o].kind = "append")
  /\ TfInit /\ (focus = "tokens" \/ tfUp[Shared] = NoCred)

Effects == focus = "effects" /\ PeNext /\ UNCHANGED tfVars

Refreshing == focus = "tokens" /\ TfNext /\ UNCHANGED peVars

Next == (Effects \/ Refreshing) /\ UNCHANGED focus

Spec == Init /\ [][Next]_<<focus, peVars, tfVars>>
=============================================================================
