------------------------------ MODULE MCAvMux ------------------------------
(* AvMux for TLC: a stream longer than its pipe beside one that is shorter. *)
EXTENDS AvMux

Streamed == [p \in {"video", "audio"} |-> IF p = "video" THEN 5 ELSE 3]
=============================================================================
