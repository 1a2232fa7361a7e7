----------------------------- MODULE EffectOnce -----------------------------
(***************************************************************************)
(* What the provider gateways promise their callers, without grants,      *)
(* locks, retries or lost answers: every operation has a verdict that is  *)
(* opened once and settled once, and an effect at the provider that       *)
(* agrees with it.                                                        *)
(*                                                                         *)
(* An exact operation (an append, a create) takes effect at most once and *)
(* only while its verdict is open.  A converging operation (an update, a  *)
(* relation) is settled as applied on the word of the provider's state,   *)
(* so its request may still arrive afterwards; a placement move may       *)
(* moreover be sent again.  No operation takes effect before it is        *)
(* opened or after it is refused.                                         *)
(***************************************************************************)
EXTENDS Naturals

CONSTANT Operations

VARIABLES promise, verdict, effects

onceVars == <<promise, verdict, effects>>

OnceInit ==
  /\ promise \in [Operations -> {"exact", "converging", "repeatable"}]
  /\ verdict = [o \in Operations |-> "none"]
  /\ effects = [o \in Operations |-> 0]

Open(o) ==
  /\ verdict[o] = "none"
  /\ verdict' = [verdict EXCEPT ![o] = "unknown"]
  /\ UNCHANGED <<promise, effects>>

TakeEffect(o) ==
  /\ verdict[o] \in IF promise[o] = "exact" THEN {"unknown"} ELSE {"unknown", "applied"}
  /\ promise[o] = "repeatable" \/ effects[o] = 0
  /\ effects' = [effects EXCEPT ![o] = @ + 1]
  /\ UNCHANGED <<promise, verdict>>

Settle(o) ==
  /\ verdict[o] = "unknown"
  /\ \/ verdict' = [verdict EXCEPT ![o] = "applied"] /\ (promise[o] = "exact" => effects[o] = 1)
     \/ verdict' = [verdict EXCEPT ![o] = "not_sent"] /\ effects[o] = 0
  /\ UNCHANGED <<promise, effects>>

OnceNext == \E o \in Operations : Open(o) \/ TakeEffect(o) \/ Settle(o)

OnceSpec == OnceInit /\ [][OnceNext]_onceVars
=============================================================================
