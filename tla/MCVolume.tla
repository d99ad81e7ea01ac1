------------------------------ MODULE MCVolume ------------------------------
(***************************************************************************)
(* Up to three groups of three blocks, the second possibly and the third   *)
(* always short; two labels.  A volume whose groups were passed over is    *)
(* not looked at further.                                                  *)
(***************************************************************************)
EXTENDS Volume, TLC

CONSTANTS x, y

Unspoilt == ~skipped

LabelNames == Permutations({x, y})

=============================================================================
