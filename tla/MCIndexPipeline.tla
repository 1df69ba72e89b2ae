--------------------------- MODULE MCIndexPipeline ---------------------------
(* Instances of IndexPipeline for TLC: b depends on a. *)
EXTENDS IndexPipeline, TLC

CONSTANTS a, b

Dependents == (a :> {a, b}) @@ (b :> {b})
===============================================================================
