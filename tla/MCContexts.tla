----------------------------- MODULE MCContexts -----------------------------
(***************************************************************************)
(* Contexts on small instances: two applications, a context held by a     *)
(* caller, a request of each, and enough implicit contexts for the bound  *)
(* on the nesting.                                                         *)
(***************************************************************************)
EXTENDS Contexts

CONSTANTS appA, appB, a1, ia1, ia2, ib1, ib2, ra1, rb1, n1

MCAppOf ==
  [c \in Contexts |-> IF c \in {ib1, ib2, rb1} THEN appB ELSE appA]
=============================================================================
