---------------------------- MODULE MCCanonicalWork ----------------------------
(* Small instances of CanonicalWork: an ordinary chat principal and a managed  *)
(* one, imported works w1 and w2, and the works n1 and n2 that the             *)
(* OperationIds o1 and o2 create.                                              *)
EXTENDS CanonicalWork, TLC

CONSTANTS w1, w2, n1, n2, r1, o1, o2

MCWorkOf == (o1 :> n1) @@ (o2 :> n2)

LaunchOnW1 == [writes |-> {w1}, reads |-> {w1}]
MCAuthorities == {LaunchOnW1, Workspace}
LaunchOnly == {LaunchOnW1}

CallSymmetry == Permutations(Calls)
=============================================================================
