----------------------------- MODULE VideoTiles -----------------------------
(***************************************************************************)
(* How the video VAE cuts a picture and a clip into pieces and puts them   *)
(* together: the decoder of src/h3_video_vae.c, whose tiles are decoded    *)
(* chunk by chunk, and the encoder of src/h3_video_encoder.c, whose tiles  *)
(* are of one size.  Pixels, tiles and frames count from 0.                *)
(*                                                                         *)
(* A pixel is known by what it is made of: the share of each tile in it,   *)
(* and where in the tile it was.  A frame is known by its instant, the     *)
(* number of a frame in the decoder's own time, four to a latent.          *)
(***************************************************************************)
EXTENDS Integers, Sequences, FiniteSetsExt, SequencesExt

SPATIAL_RATIO == 16
TILE_PIXELS == 256
TILE_OVERLAP_MIN == 64
CHUNK_LATENT_TIME == 7
FIRST_CHUNK_FRAMES == 22
FRAME_OFFSET == 3

-----------------------------------------------------------------------------
(* An axis: the tiles along the height or the width.                       *)

tile_count_for_extent(extent, tile) ==
  IF extent <= tile THEN 1
  ELSE Min({count \in ((extent + tile - 1) \div tile)..(1 + extent \div (tile - TILE_OVERLAP_MIN)) :
              tile * count - TILE_OVERLAP_MIN * (count - 1) >= extent})

\* configured_tile_pixels without H3_VAE_TILE_PIXELS: the first of the sizes that
\* cost least, the cost being the area decoded.
configured_tile_pixels(height, width) ==
  LET sizes == {TILE_PIXELS + SPATIAL_RATIO * i : i \in 0..4}
      score(tile) == tile_count_for_extent(height, tile) * tile_count_for_extent(width, tile) * tile * tile
  IN Min({tile \in sizes : \A other \in sizes : score(tile) <= score(other)})

\* A faulty form: what is left over goes to the last overlap only by halves.
spread_overlap_Halved(extent, tile, count, index) ==
  LET units == (tile * count - TILE_OVERLAP_MIN * (count - 1) - extent) \div SPATIAL_RATIO
  IN TILE_OVERLAP_MIN + SPATIAL_RATIO * (units \div (count - 1))

\* The pixels left over are spread over the overlaps, 16 at a time, from the first.
spread_overlap(extent, tile, count, index) ==
  LET units == (tile * count - TILE_OVERLAP_MIN * (count - 1) - extent) \div SPATIAL_RATIO
  IN TILE_OVERLAP_MIN + SPATIAL_RATIO * Cardinality({u \in 0..units - 1 : u % (count - 1) = index})

tile_axis_build(extent, tile) ==
  LET count == tile_count_for_extent(extent, tile)
      overlaps == [i \in 0..count - 2 |-> spread_overlap(extent, tile, count, i)]
      starts[i \in 0..count - 1] == IF i = 0 THEN 0 ELSE starts[i - 1] + tile - overlaps[i - 1]
  IN [count |-> count, length |-> IF count = 1 THEN extent ELSE tile, starts |-> starts, overlaps |-> overlaps]

\* The axis in latents, as stitch_latents uses it.
InLatents(axis) ==
  [axis EXCEPT !.length = @ \div SPATIAL_RATIO,
               !.starts = [i \in DOMAIN @ |-> @[i] \div SPATIAL_RATIO],
               !.overlaps = [i \in DOMAIN @ |-> @[i] \div SPATIAL_RATIO]]

-----------------------------------------------------------------------------
(* stitch_tiles and stitch_latents.                                        *)

Full(axis) == axis.starts[axis.count - 1] + axis.length

\* What a tile leaves of itself to the next one.
keep(axis, i) == axis.length - (IF i + 1 < axis.count THEN axis.overlaps[i] ELSE 0)

overlap(axis, i) == IF i > 0 THEN axis.overlaps[i - 1] ELSE 0

\* The tile that fills the pixel.
Filling(axis, pixel) ==
  CHOOSE i \in 0..axis.count - 1 : axis.starts[i] <= pixel /\ pixel < axis.starts[i] + keep(axis, i)

\* Shares are in 4096ths.  alpha is the share of a tile against the one before.
Unit == 4096

\* A faulty form: every ramp is as long as the shortest.
alpha_Shortest(axis, i, local) ==
  LET ramp == IF axis.length >= TILE_PIXELS THEN TILE_OVERLAP_MIN ELSE TILE_OVERLAP_MIN \div SPATIAL_RATIO
  IN IF local < overlap(axis, i) THEN (Unit * local) \div ramp ELSE Unit

alpha(axis, i, local) == IF local < overlap(axis, i) THEN (Unit * local) \div overlap(axis, i) ELSE Unit

\* The tiles of a pixel, with their shares: the tile, the one above, and over both
\* the one to the left.
Shares(yAxis, xAxis, y, x) ==
  LET ty == Filling(yAxis, y)
      tx == Filling(xAxis, x)
      a  == alpha(yAxis, ty, y - yAxis.starts[ty])
      b  == alpha(xAxis, tx, x - xAxis.starts[tx])
  IN {<< << ty, tx - 1 >>, Unit - b >>, << << ty - 1, tx >>, (b * (Unit - a)) \div Unit >>,
      << << ty, tx >>, (a * b) \div Unit >>}

ShareOf(shares, tile) == SumSet({s[2] : s \in {s \in shares : s[1] = tile}})

-----------------------------------------------------------------------------
(* Time: chunks of seven latents, five apart.                              *)

\* A faulty form: the frames of a chunk follow one another.
Instant_NoGap(number, frame) == 20 * number + frame + FRAME_OFFSET

\* The instant of a frame of a chunk (unpack_frame_range).
Instant(number, frame) ==
  20 * number + frame + FRAME_OFFSET + (IF frame >= 17 THEN 3 ELSE 0)

chunks(latent_time) == (latent_time - 2) \div 5

\* h3_video_vae_decoder_preview: the chunk and the frame it decodes, and the index
\* it says that frame has.
preview_chunk(latent_time) == chunks(latent_time) \div 2
preview_frame == FIRST_CHUNK_FRAMES \div 2
preview_index(latent_time) ==
  Min({preview_chunk(latent_time) * 17 + preview_frame, chunks(latent_time) * 17 + 4})

VARIABLES clip,      \* the clip decoded: height and width in pixels, latent_time
          decoded,   \* how many of its chunks are decoded
          assembled, \* final_rgb: the frames, each the shares of instants in fifths
          carried,   \* temporal_overlap: the instants of the last five
          decode     \* "running", "done" or "failed"

tileVars == << clip, decoded, assembled, carried, decode >>

Only(instant) == [i \in {instant} |-> 5]

Blended(old, new, frame) ==
  [i \in {old, new} |-> (IF i = old THEN 5 - frame ELSE 0) + (IF i = new THEN frame ELSE 0)]

\* What h3_video_vae_decode accepts: a picture of whole latents, and whole chunks (two
\* latents alone are accepted too, but no layout has so few: LayoutFits).
Decodable(asked) ==
  /\ asked \in [height : Nat, width : Nat, latent_time : Nat]
  /\ asked.height > 0 /\ asked.height % SPATIAL_RATIO = 0
  /\ asked.width > 0 /\ asked.width % SPATIAL_RATIO = 0
  /\ asked.latent_time >= CHUNK_LATENT_TIME /\ (asked.latent_time - 2) % 5 = 0

DecodeInit ==
  /\ Decodable(clip)
  /\ decoded = 0 /\ assembled = << >> /\ carried = << >> /\ decode = "running"

\* One chunk: its first five frames are blended with the last five of the chunk
\* before, seventeen are final, five are carried over.
DecodeChunk ==
  /\ decode = "running" /\ decoded < chunks(clip.latent_time)
  /\ LET frame(f) == Instant(decoded, f)
     IN /\ assembled' = assembled \o
             [n \in 1..17 |-> IF decoded > 0 /\ n <= 5 THEN Blended(carried[n], frame(n - 1), n - 1)
                                                       ELSE Only(frame(n - 1))]
        /\ carried' = [n \in 1..5 |-> frame(16 + n)]
  /\ decoded' = decoded + 1
  /\ UNCHANGED << clip, decode >>

\* After the last, what is carried ends the clip.
DecodeEnds ==
  /\ decode = "running" /\ decoded = chunks(clip.latent_time)
  /\ assembled' = assembled \o [n \in 1..5 |-> Only(carried[n])]
  /\ decode' = "done"
  /\ UNCHANGED << clip, decoded, carried >>

\* Memory, a tile or the driver fails: nothing is handed over.
DecodeFails ==
  /\ decode = "running"
  /\ assembled' = << >> /\ decode' = "failed"
  /\ UNCHANGED << clip, decoded, carried >>

DecodeNext == DecodeChunk \/ DecodeEnds \/ DecodeFails

DecodeSpec == DecodeInit /\ [][DecodeNext]_tileVars

-----------------------------------------------------------------------------
\* The axes of a picture, height then width, of the decoder and of the encoder.
DecoderAxes(picture) ==
  LET tile == configured_tile_pixels(picture.height, picture.width)
  IN << tile_axis_build(picture.height, tile), tile_axis_build(picture.width, tile) >>
EncoderAxes(picture) ==
  << InLatents(tile_axis_build(picture.height, TILE_PIXELS)), InLatents(tile_axis_build(picture.width, TILE_PIXELS)) >>

\* Every pixel is filled by one tile, at most two tiles of an axis meet in it, and
\* both have there the same place of the picture.
Covers(axis, extent) ==
  /\ axis.starts[0] = 0 /\ Full(axis) = extent
  /\ \A i \in 0..axis.count - 2 :
       /\ axis.starts[i + 1] = axis.starts[i] + keep(axis, i) /\ keep(axis, i) > 0
       /\ axis.starts[i + 1] = axis.starts[i] + axis.length - overlap(axis, i + 1)

\* The part of a tile where it meets the tile before is cut short by the tile after:
\* the ramp from one to the other does not end.
Truncated(axis, i) == i \in 0..axis.count - 1 /\ keep(axis, i) < overlap(axis, i)

\* The pixels at and around the ends of the ramps.
Around(axis) ==
  {p \in UNION {{axis.starts[i] + o + d : o \in {0, overlap(axis, i), keep(axis, i)}, d \in -1..0} :
                i \in 0..axis.count - 1} : p >= 0 /\ p < Full(axis) - 1}

InCorner(yAxis, xAxis, y, x) ==
  /\ y - yAxis.starts[Filling(yAxis, y)] < overlap(yAxis, Filling(yAxis, y))
  /\ x - xAxis.starts[Filling(xAxis, x)] < overlap(xAxis, Filling(xAxis, x))

\* Between two neighbours no tile's share changes by more than a step of the
\* shortest ramp allows.
Gradual(yAxis, xAxis, p, q, shortest) ==
  LET here == Shares(yAxis, xAxis, p[1], p[2])
      there == Shares(yAxis, xAxis, q[1], q[2])
      near(m, n) == m - n <= Unit \div shortest + 2 /\ n - m <= Unit \div shortest + 2
  IN \A tile \in {s[1] : s \in here \cup there} : near(ShareOf(here, tile), ShareOf(there, tile))

\* The seams that can be seen: where a ramp is cut short, and on entering the
\* corner where a tile above and a tile to the left are both blended in, for the
\* left one is taken as it was decoded and not as it was stitched.
Seam(yAxis, xAxis, p, q) ==
  LET TileOf(pixel) == << Filling(yAxis, pixel[1]), Filling(xAxis, pixel[2]) >> IN
  \/ Filling(yAxis, p[1]) # Filling(yAxis, q[1]) /\ Truncated(yAxis, Filling(yAxis, p[1]))
  \/ Filling(xAxis, p[2]) # Filling(xAxis, q[2]) /\ Truncated(xAxis, Filling(xAxis, p[2]))
  \/ InCorner(yAxis, xAxis, q[1], q[2]) /\ (InCorner(yAxis, xAxis, p[1], p[2]) => TileOf(p) # TileOf(q))

Smooth(axes, shortest) ==
  \A y \in Around(axes[1]), x \in Around(axes[2]) :
    \A q \in {<< y + 1, x >>, << y, x + 1 >>} :
      Seam(axes[1], axes[2], << y, x >>, q) \/ Gradual(axes[1], axes[2], << y, x >>, q, shortest)

\* Of a latent of five the first has one frame, of the others each has four
\* (h3_frame_per_token of h3_host.c): the frames of a clip in their order.
FramesOf(latent_time) ==
  FlattenSeq([t \in 1..latent_time |->
    IF (t - 1) % 5 = 0 THEN << 4 * t - 1 >> ELSE [n \in 1..4 |-> 4 * (t - 1) + n - 1]])

\* The tiles of a decoder or an encoder cover the picture once, each leaving
\* something of itself to it, and two neighbours overlap where they show the same
\* place of it (tile_axis_build).
TilesCover == decode = "running" /\ decoded = 0 =>
  LET d == DecoderAxes(clip)
      e == EncoderAxes(clip)
  IN /\ Covers(d[1], clip.height) /\ Covers(d[2], clip.width)
     /\ Covers(e[1], clip.height \div SPATIAL_RATIO) /\ Covers(e[2], clip.width \div SPATIAL_RATIO)

\* The shares of the tiles change step by step from pixel to pixel but at the seams
\* that the code is known to leave (stitch_tiles, stitch_latents).
TilesBlend == decode = "running" /\ decoded = 0 =>
  Smooth(DecoderAxes(clip), TILE_OVERLAP_MIN) /\ Smooth(EncoderAxes(clip), TILE_OVERLAP_MIN \div SPATIAL_RATIO)

\* A clip is decoded into all its frames in their order, two chunks blended only
\* where they show the same instant, and the preview is the frame it says it is
\* (decode_chunked, h3_video_vae_decoder_preview).
FramesInOrder ==
  LET frames == FramesOf(clip.latent_time)
  IN /\ decode = "done" => assembled = [n \in DOMAIN frames |-> Only(frames[n])]
     /\ decode = "running" =>
          Instant(preview_chunk(clip.latent_time), preview_frame) = frames[preview_index(clip.latent_time) + 1]

\* A clip is whole, in each of its pictures and from the first to the last.
ClipHolds == TilesCover /\ FramesInOrder

-----------------------------------------------------------------------------
(* The inductive invariant of FramesInOrder.                               *)

\* The instant of a frame of the clip: seventeen to twenty, the first three missing.
InstantOf(n) == 20 * ((n - 1) \div 17) + ((n - 1) % 17) + FRAME_OFFSET

InOrder(count) == [n \in 1..count |-> Only(InstantOf(n))]

\* What is assembled are the frames of the chunks decoded, and what is carried are
\* the last five of the last one.
FramesInv ==
  /\ Decodable(clip)
  /\ decoded \in 0..chunks(clip.latent_time)
  /\ decode = "running" => assembled = InOrder(17 * decoded)
  /\ decode = "running" /\ decoded > 0 => carried = [n \in 1..5 |-> Instant(decoded - 1, 16 + n)]
  /\ decode = "done" => assembled = InOrder(17 * chunks(clip.latent_time) + 5)
=============================================================================
