----------------------------- MODULE MCRequests -----------------------------
(***************************************************************************)
(* Requests over canvases up to and past the limits, frames from none to   *)
(* past the last, every choice of anchors, and references of every kind,   *)
(* two at a time, with clips and sounds just long enough and just not; and *)
(* clips of every length, on canvases as tall as the README's and narrow,  *)
(* as wide as one tile, and split both ways.                               *)
(***************************************************************************)
EXTENDS RequestPlan

Asked == [width |-> 512, height |-> 512, render |-> << 0, 0 >>, frames |-> 56, anchors |-> {},
          references |-> << >>, tokens |-> 7]

Anchors == SUBSET {"first", "last"}

Canvases == {[Asked EXCEPT !.width = 32 * w, !.height = 32 * h, !.anchors = a] : w \in 0..43, h \in {1, 2, 15, 24, 42, 43}, a \in Anchors}
Renders == {[Asked EXCEPT !.width = 1024, !.height = 768, !.render = << 32 * w, 32 * h >>, !.anchors = a] :
              w \in 1..33, h \in 1..25, a \in Anchors}
Lengths == {[Asked EXCEPT !.frames = f, !.anchors = a, !.width = w] : f \in 1..380, a \in Anchors, w \in {512, 1344}}
Released == {[Asked EXCEPT !.frames = f, !.width = 768, !.height = 1344] : f \in 22..362}

\* What FFmpeg decodes for a clip of 39 frames, and the sounds of two seconds, of
\* less, and of up to fifteen.
Media == {[kind |-> kind, canvas |-> << 64, 96 >>, frames |-> f, samples |-> s] :
            kind \in {"video", "silent_video", "video_audio", "audio"}, f \in {4, 5, 30, 39},
            s \in {63999, 64000, 100001, 240000, 480000}}
  \cup {[kind |-> "image", canvas |-> << 32, 2048 >>, frames |-> 1, samples |-> 0]}
LongMedia == {[m EXCEPT !.frames = f] : m \in {m \in Media : m.kind # "image"}, f \in {48, 56, 73}}

MCRequests ==
  Canvases \cup Renders \cup Lengths \cup Released
  \cup {[Asked EXCEPT !.references = << m, n >>, !.frames = 39] : m \in Media, n \in Media}
  \cup {[Asked EXCEPT !.references = << m, n >>, !.frames = 73] : m \in LongMedia, n \in {n \in Media : n.frames # 4}}
  \cup {[Asked EXCEPT !.references = << m >>, !.anchors = {"first"}] : m \in Media}

Clip(height, width, chunks) == [height |-> height, width |-> width, latent_time |-> 5 * chunks + 2]

MCClips ==
  {Clip(32 * c[1], 32 * c[2], 1) :
     c \in ((1..42) \X {2, 10}) \cup {<< 15, 27 >>, << 19, 19 >>, << 22, 22 >>, << 24, 32 >>, << 27, 16 >>, << 42, 24 >>}}
  \cup {Clip(768, 1344, n) : n \in 1..21}

MCPlanInit == request \in MCRequests /\ PlanInit
MCPlanSpec == MCPlanInit /\ [][BuildLayout]_planVars
=============================================================================
