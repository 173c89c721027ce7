---------------------------- MODULE MCVariables -----------------------------
(* Variables on a small instance: a constant int, and in an inner scope an   *)
(* array of int and a parameter, beside an any.                              *)
EXTENDS Variables

CONSTANTS k, y, a, p

Declarations ==
  [n \in {k, y, a, p} |-> CASE n = k -> "int" [] n = y -> "any" [] n = a -> "[int]" [] n = p -> "none"]

=============================================================================
