---------------------------- MODULE MCRpcSystem ----------------------------
(***************************************************************************)
(* Model-checking instance of RpcSystem.  Two classes: C1, an EventEmitter *)
(* with methods m1 and m2, and C2, a plain class with m1 only, so that an  *)
(* instance of C2 exposed over one of C1 leaves a method C2 lacks.         *)
(***************************************************************************)
EXTENDS RpcSystem, TLC

CONSTANTS C1, C2, m1, m2

MCClassMethods == [c \in Classes |-> IF c = C1 THEN {m1, m2} ELSE {m1}]
=============================================================================
