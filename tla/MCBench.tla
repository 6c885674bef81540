------------------------------- MODULE MCBench -------------------------------
(***************************************************************************)
(* The benchmark harnesses with a book of three ticks, a pool a thousandth *)
(* of theirs and amounts of a few units.                                   *)
(***************************************************************************)
EXTENDS Bench

MCPrices == {400, 500, 600}
MCAmounts == {1, 2, 3, 4, 40}
=============================================================================
