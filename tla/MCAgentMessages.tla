--------------------------- MODULE MCAgentMessages ----------------------------
(* Two chats of one principal contend for one mailbox; a chat of another       *)
(* principal holds the other, the Coordinator's.  The runs start when both     *)
(* mailboxes have been registered.                                             *)
EXTENDS AgentMessages, TLC

CONSTANTS a1, a2, b1, e1, e2, alpha

MCPrincipalOf == (a1 :> "marco") @@ (a2 :> "marco") @@ (b1 :> "other")
MCTypeOf == (a1 :> "codex") @@ (a2 :> "codex") @@ (b1 :> "codex")

(* The Coordinator has been taken over before: only alpha moves in a run with  *)
(* MaxGeneration = 2.                                                          *)
CoordinatorRow == [NewRow(e2, b1) EXCEPT !.generation = 2]

MCInit ==
  /\ transfers = [id \in RequestId |-> None]
  /\ retry = [a \in Actors |-> None]
  /\ messages = [k \in MessageKey |-> None]
  /\ deliveries = [d \in DeliveryId |-> None]
  /\ call = [c \in Calls |-> None]
  /\ mailboxes = [Unregistered EXCEPT ![alpha] = NewRow(e1, a1),
                                      ![Coordinator] = CoordinatorRow]

MCSpec == MCInit /\ [][Next]_vars

Symmetry == Permutations(Calls)
=============================================================================
