--------------------------- MODULE MCOutputEnergy ---------------------------
(* OutputEnergy on a small register.  Serial numbers are only compared with *)
(* one another, so they are interchangeable.                                *)
EXTENDS OutputEnergy, TLC

SerialSymmetry == Permutations(Serials)
=============================================================================
