---------------------------- MODULE MCCardLayer -----------------------------
(* Model-checking instance of CardLayer: clusters have at least three data *)
(* variables (len(dset) >= 3 in findEncodedConstraints), so every Boolean  *)
(* function of three, and of four, data variables is enumerated.           *)
EXTENDS CardLayer

MCNData3 == 3
MCNData4 == 4
=============================================================================
