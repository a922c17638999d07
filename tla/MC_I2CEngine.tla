---------------------------- MODULE MC_I2CEngine ----------------------------
(***************************************************************************)
(* Model-checking instance of I2CEngine.  A byte takes 3 values and the    *)
(* memory has 4 cells: Radix < BufSize < Radix^2 as with 256 and 4096, so   *)
(* the mask drops the top of the high address byte.  Requests carry up to  *)
(* 2 data bytes, enough to be clipped at the last cells.                   *)
(***************************************************************************)
EXTENDS I2CEngine

\* well-formed requests: none, address only, address and 1 or 2 data bytes
MC_WellFormed == {0, 2, 3, 4}

\* ... and a request of a single byte
MC_AllLens == {0, 1, 2, 3, 4}
=============================================================================
