--------------------------- MODULE MCStaticCache ---------------------------
(***************************************************************************)
(* StaticCache for TLC: two analyses of one sample, under two names.       *)
(***************************************************************************)
EXTENDS StaticCache

CONSTANTS r1, r2

MCTwoFormats == [r \in Runs |-> IF r = r1 THEN "php" ELSE "generic"]
MCMode       == [r \in Runs |-> "cached"]
=============================================================================
