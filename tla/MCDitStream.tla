---------------------------- MODULE MCDitStream ----------------------------
(* DitStream for TLC: of six blocks the first, the last and one in between *)
(* are dropped; of six steps the second extrapolates.                      *)
EXTENDS DitStream

CONSTANTS qkv, fc1

Pair          == {qkv, fc1}
ThreeOfSix    == {1, 2, 4}
AllButOneStep == {0, 2, 3, 4, 5}
=============================================================================
