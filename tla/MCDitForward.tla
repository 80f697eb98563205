---------------------------- MODULE MCDitForward ----------------------------
(***************************************************************************)
(* DiTs of five blocks in five steps: token boundaries at the first block, *)
(* the last, after the last and in between, with and without an early one, *)
(* blocks dropped at and beside the boundaries, and the buffers shared and *)
(* kernels fused alone, by twos and all at once.                           *)
(***************************************************************************)
EXTENDS DitForward

Boundaries == {<< 0, 0, 0, 5 >>} \cup
  {<< begin, end, early[1], early[2] >> :
     begin \in {0, 1, 3}, end \in {2, 4, 5}, early \in {<< 0, 5 >>, << 2, 5 >>, << 2, 4 >>}}

MCOptions ==
  {[active |-> active, begin |-> b[1], end |-> b[2], early |-> b[3], earlyEnd |-> b[4],
    interval |-> interval, aliases |-> "aliases" \in on, inQkv |-> "qkv" \in on,
    int8 |-> int8, inputFused |-> "input" \in on, crossFused |-> "cross" \in on,
    poolFused |-> "tokens" \in on, expandFused |-> "tokens" \in on] :
     active \in {0..4, {0, 1, 4}, {0, 2, 4}},
     b \in {x \in Boundaries : (x[1] < x[2] \/ x[2] = 0) /\ (x[3] > 0 => x[2] < x[4])},
     interval \in {1, 3},
     on \in {s \in SUBSET {"aliases", "qkv", "input", "cross", "tokens"} : Cardinality(s) \in {0, 1, 2, 5}},
     int8 \in {{}, {"qkv"}, {"qkv", "out", "mlp"}}}
=============================================================================
