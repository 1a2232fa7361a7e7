--------------------------- MODULE MCAgentMailboxes ---------------------------
(* A small instance of AgentMailboxes: two chats of one principal and one of *)
(* another, two ordinary names, two endpoints.                               *)
EXTENDS AgentMailboxes, TLC

CONSTANTS a1, a2, b1, alpha, beta

MCPrincipalOf == (a1 :> "marco") @@ (a2 :> "marco") @@ (b1 :> "other")
MCTypeOf == (a1 :> "codex") @@ (a2 :> "codex") @@ (b1 :> "claude")

Symmetry == Permutations(Endpoints) \cup Permutations({a1, a2})
            \cup Permutations({alpha, beta})
=============================================================================
