------------------------- MODULE MCConnectionRegistry -------------------------
(***************************************************************************)
(* The instances of ConnectionRegistry for TLC: all of their constants are *)
(* model values and numbers, given in the configurations.                  *)
(***************************************************************************)
EXTENDS ConnectionRegistry
=============================================================================
