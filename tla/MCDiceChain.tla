---------------------------- MODULE MCDiceChain ----------------------------
(* Model checking DiceChain: two ROM_EXT images, two owners, four faults.  *)
EXTENDS DiceChain
=============================================================================
