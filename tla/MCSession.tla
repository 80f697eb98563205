----------------------------- MODULE MCSession -----------------------------
(* Session for TLC: requests that differ in one field each. *)
EXTENDS Session

CONSTANTS prompt, prompt2, file, small, large, fast, exact

Shape(c) == [canvas |-> c, frames |-> 22]

Plain == [prompt |-> prompt, ref |-> FALSE, media |-> NoMedia, shape |-> Shape(small),
          tuning |-> exact, seed |-> 1, preview |-> FALSE]
Anchored == [Plain EXCEPT !.media = file]

SomeRequests ==
  {Plain,
   [Plain EXCEPT !.prompt = prompt2],
   [Plain EXCEPT !.tuning = fast],
   Anchored,
   [Anchored EXCEPT !.seed = 2, !.preview = TRUE],
   [Anchored EXCEPT !.shape = Shape(large)],
   [Anchored EXCEPT !.ref = TRUE]}
=============================================================================
