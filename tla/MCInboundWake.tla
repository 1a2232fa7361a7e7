---------------------------- MODULE MCInboundWake -----------------------------
(* rootBox gets deliveries 1 and 2; its second owner has another thread and its  *)
(* third is no Codex session.  headBox, which gets delivery 3, shares the first  *)
(* thread of rootBox.                                                           *)
EXTENDS InboundWake, TLC

CONSTANTS rootBox, headBox, thread, next

MCRecipientOf == [d \in Deliveries |-> IF d = 3 THEN headBox ELSE rootBox]

MCRootOf ==
  [b \in Recipients \X Generation |->
     CASE b[2] = 1 -> thread [] b[2] = 2 -> next [] OTHER -> None]
=============================================================================
