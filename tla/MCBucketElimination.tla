------------------------- MODULE MCBucketElimination -------------------------
(***************************************************************************)
(* The reduced CNFs of MCVariableOrder, ordered by buildOrder and then     *)
(* compiled by generateBdd.                                                *)
(***************************************************************************)
EXTENDS BucketElimination, MCVariableOrder
====
