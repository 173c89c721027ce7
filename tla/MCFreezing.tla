----------------------------- MODULE MCFreezing -----------------------------
(* Freezing on small instances: the containers and their types. *)
EXTENDS Freezing

CONSTANTS a, s, d, e

OneArray == [o \in {a} |-> "array"]
Others ==
  [o \in {s, d, e} |-> CASE o = s -> "string" [] o = d -> "dictionary" [] o = e -> "set"]

=============================================================================
