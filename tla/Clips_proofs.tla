---------------------------- MODULE Clips_proofs ----------------------------
(***************************************************************************)
(* Proofs about clips, for a request of any size.                          *)
(*                                                                         *)
(* From module VideoTiles: a clip of any length is decoded into its frames *)
(* in their order, and the tiles of a picture of any size cover it once.   *)
(* From module RequestPlan: the layout of every accepted request is one    *)
(* that the DiT takes, and its items follow each other in time.            *)
(*                                                                         *)
(* All rest on recursive functions and folds.  A set of naturals has a     *)
(* least element (LeastNatural), so what holds at the first number of an   *)
(* interval and goes from each to the next has no least exception, and     *)
(* none (Ascends).                                                         *)
(***************************************************************************)
EXTENDS RequestPlan, VideoTiles, FiniteSetTheorems, SequenceTheorems, WellFoundedInduction, TLAPS

\* A set of natural numbers has a least one.
LEMMA LeastNatural ==
  ASSUME NEW T \in SUBSET Nat, T # {}
  PROVE  \E m \in T : \A n \in T : m <= n
<1> DEFINE R == OpToRel(<, Nat)
<1>1. IsWellFoundedOn(R, Nat)
  BY NatLessThanWellFounded
<1>2. \A x, y \in Nat : x < y => << x, y >> \in R
  BY DEF OpToRel
<1> HIDE DEF R
<1>3. PICK m \in T : \A n \in T : ~(<< n, m >> \in R)
  BY <1>1, WFMin
<1>4. \A n \in T : ~(n < m)
  BY <1>2, <1>3
<1> QED BY <1>4

\* What starts at the first number of an interval and goes on to the next holds of all
\* of it, a set of numbers saying what.
LEMMA Ascends ==
  ASSUME NEW a \in Nat, NEW b \in Nat, NEW Good, a \in Good,
         \A n \in a..b : n \in Good /\ n < b => n + 1 \in Good
  PROVE  \A n \in a..b : n \in Good
<1> DEFINE T == {n \in a..b : n \notin Good}
<1>1. SUFFICES ASSUME T # {} PROVE FALSE
  OBVIOUS
<1>2. T \in SUBSET Nat
  OBVIOUS
<1>3. PICK m \in T : \A n \in T : m <= n
  <2> HIDE DEF T
  <2> QED BY <1>1, <1>2, LeastNatural
<1>4. m \in a..b /\ m \notin Good /\ m # a
  OBVIOUS
<1>5. m - 1 \in a..b /\ m - 1 < b /\ m - 1 + 1 = m
  BY <1>4
<1>6. m - 1 \in Good
  BY <1>3, <1>5
<1> QED BY <1>4, <1>5, <1>6

(***************************************************************************)
(* The frames of a clip.                                                   *)
(***************************************************************************)
LEMMA ConcatFacts ==
  ASSUME NEW S, NEW s \in Seq(S), NEW t \in Seq(S)
  PROVE  /\ s \o t \in Seq(S) /\ Len(s \o t) = Len(s) + Len(t)
         /\ \A i \in 1..(Len(s) + Len(t)) : (s \o t)[i] = IF i <= Len(s) THEN s[i] ELSE t[i - Len(s)]
OBVIOUS

\* The recursive function of FlattenSeq exists, and says what the sequences are joined to.
LEMMA FlattenIs ==
  ASSUME NEW S, NEW seqs \in Seq(S), Len(seqs) >= 1
  PROVE  \E f : /\ f[1] = seqs[1]
                /\ \A i \in 2..Len(seqs) : f[i] = f[i - 1] \o seqs[i]
                /\ FlattenSeq(seqs) = f[Len(seqs)]
<1> DEFINE L == Len(seqs)
           Joined(h, i) == h \o seqs[i]
           Joins(f, m) == f = [i \in 1..m |-> IF i = 1 THEN seqs[i] ELSE Joined(f[i - 1], i)]
           Good == {m \in Nat : \E f : Joins(f, m)}
           flatten == CHOOSE f : Joins(f, L)
<1>0. FlattenSeq(seqs) = flatten[L]
  BY DEF FlattenSeq
<1>1. L \in Nat /\ L >= 1
  OBVIOUS
<1> HIDE DEF L, Joined
<1>2. 1 \in Good
  <2>1. Joins([i \in 1..1 |-> seqs[1]], 1)
    OBVIOUS
  <2> QED BY <2>1
<1>3. ASSUME NEW n \in 1..L, n \in Good, n < L PROVE n + 1 \in Good
  <2>1. PICK f : Joins(f, n)
    BY <1>3
  <2>2. n \in Nat /\ n >= 1
    BY <1>1
  <2> DEFINE g == [i \in 1..(n + 1) |-> IF i = n + 1 THEN Joined(f[n], n + 1) ELSE f[i]]
  <2>3. \A i \in 1..(n + 1) : g[i] = IF i = 1 THEN seqs[i] ELSE Joined(g[i - 1], i)
    BY <2>1, <2>2
  <2>4. Joins(g, n + 1)
    <3>1. g = [i \in 1..(n + 1) |-> g[i]]
      OBVIOUS
    <3> HIDE DEF g
    <3> QED BY <2>3, <3>1
  <2> HIDE DEF g, Joins
  <2> QED BY <2>2, <2>4
<1>4. L \in Good
  <2>1. L \in 1..L /\ 1 \in Nat
    BY <1>1
  <2> HIDE DEF Good
  <2> QED BY <1>1, <1>2, <1>3, <2>1, Ascends
<1>5. Joins(flatten, L)
  <2>1. \E f : Joins(f, L)
    BY <1>4
  <2> HIDE DEF Joins
  <2> QED BY <2>1
<1> HIDE DEF flatten
<1>6. flatten[1] = seqs[1] /\ \A i \in 2..L : flatten[i] = Joined(flatten[i - 1], i)
  <2>1. 1 \in 1..L /\ \A i \in 2..L : i \in 1..L /\ i # 1
    BY <1>1
  <2> QED BY <1>5, <2>1
<1> QED BY <1>0, <1>6 DEF Joined, L

\* Seventeen frames to five latents.
LEMMA InstantFacts ==
  /\ \A q \in Nat, m \in 0..16 : InstantOf(17 * q + m + 1) = 20 * q + m + 3
  /\ \A n \in Nat \ {0} : InstantOf(n) \in Nat
  /\ \A c \in Nat, f \in 0..16 : Instant(c, f) = InstantOf(17 * c + f + 1)
  /\ \A c \in Nat \ {0}, f \in 0..4 : Instant(c - 1, 17 + f) = InstantOf(17 * c + f + 1)
<1>1. ASSUME NEW q \in Nat, NEW m \in 0..16 PROVE InstantOf(17 * q + m + 1) = 20 * q + m + 3
  <2>1. (17 * q + m + 1) - 1 = 17 * q + m
    OBVIOUS
  <2>2. (17 * q + m) \div 17 = q /\ (17 * q + m) % 17 = m
    OBVIOUS
  <2> QED BY <2>1, <2>2 DEF InstantOf, FRAME_OFFSET
<1>2. ASSUME NEW n \in Nat \ {0} PROVE InstantOf(n) \in Nat
  BY DEF InstantOf, FRAME_OFFSET
<1>3. ASSUME NEW c \in Nat, NEW f \in 0..16 PROVE Instant(c, f) = InstantOf(17 * c + f + 1)
  BY <1>1 DEF Instant, FRAME_OFFSET
<1>4. ASSUME NEW c \in Nat \ {0}, NEW f \in 0..4 PROVE Instant(c - 1, 17 + f) = InstantOf(17 * c + f + 1)
  BY <1>1 DEF Instant, FRAME_OFFSET
<1> QED BY <1>1, <1>2, <1>3, <1>4

\* One frame of the first of five latents, four of each other.
Frames(t) == IF (t - 1) % 5 = 0 THEN << 4 * t - 1 >> ELSE [n \in 1..4 |-> 4 * (t - 1) + n - 1]

\* The frames of the first t latents.
FramesUntil(t) == 4 * t - 3 * ((t + 4) \div 5)

\* Five more latents are seventeen more frames, after those before.
LEMMA FramesGrow ==
  ASSUME NEW t \in Nat \ {0}
  PROVE  /\ Frames(t) \in Seq(Nat)
         /\ Len(Frames(t)) = IF (t - 1) % 5 = 0 THEN 1 ELSE 4
         /\ FramesUntil(t - 1) \in Nat
         /\ FramesUntil(t) = FramesUntil(t - 1) + Len(Frames(t))
         /\ \A n \in 1..Len(Frames(t)) : Frames(t)[n] = InstantOf(FramesUntil(t - 1) + n)
<1> DEFINE q == (t - 1) \div 5
           r == (t - 1) % 5
<1>1. q \in Nat /\ r \in 0..4 /\ t - 1 = 5 * q + r
  OBVIOUS
<1>2. /\ FramesUntil(t - 1) = 17 * q + (IF r = 0 THEN 0 ELSE 4 * r - 3)
      /\ FramesUntil(t) = 17 * q + 4 * r + 1
  <2> HIDE DEF q, r
  <2> QED BY <1>1 DEF FramesUntil
<1>3. CASE r = 0
  <2>1. Frames(t) = << 4 * t - 1 >> /\ 4 * t - 1 \in Nat
    BY <1>3 DEF Frames
  <2>2. Len(Frames(t)) = 1 /\ Frames(t)[1] = 4 * t - 1 /\ Frames(t) \in Seq(Nat)
    BY <2>1
  <2>3. FramesUntil(t - 1) + 1 = 17 * q + 0 + 1 /\ 4 * t - 1 = 20 * q + 0 + 3 /\ 0 \in 0..16
    BY <1>1, <1>2, <1>3
  <2>4. InstantOf(FramesUntil(t - 1) + 1) = 4 * t - 1
    BY <1>1, <2>3, InstantFacts
  <2> QED BY <1>1, <1>2, <1>3, <2>2, <2>4
<1>4. CASE r # 0
  <2>1. Frames(t) = [n \in 1..4 |-> 4 * (t - 1) + n - 1]
    BY <1>4 DEF Frames
  <2>2. /\ Frames(t) \in Seq(Nat) /\ Len(Frames(t)) = 4
        /\ \A n \in 1..4 : Frames(t)[n] = 4 * (t - 1) + n - 1
    BY <2>1
  <2>3. ASSUME NEW n \in 1..4
        PROVE  Frames(t)[n] = InstantOf(FramesUntil(t - 1) + n)
    <3> DEFINE m == 4 * r - 4 + n
    <3>1. /\ m \in 0..16 /\ FramesUntil(t - 1) + n = 17 * q + m + 1
          /\ 4 * (t - 1) + n - 1 = 20 * q + m + 3
      BY <1>1, <1>2, <1>4
    <3> HIDE DEF m
    <3> QED BY ZenonT(40), <1>1, <2>2, <3>1, InstantFacts
  <2> QED BY <1>1, <1>2, <1>4, <2>2, <2>3
<1> QED BY <1>3, <1>4

\* The frames of a clip of n chunks: each instant in its order.
LEMMA FramesOfIs ==
  ASSUME NEW n \in Nat \ {0}
  PROVE  /\ DOMAIN FramesOf(5 * n + 2) = 1..(17 * n + 5)
         /\ \A i \in 1..(17 * n + 5) : FramesOf(5 * n + 2)[i] = InstantOf(i)
<1> DEFINE L == 5 * n + 2
           seqs == [t \in 1..L |-> Frames(t)]
<1>1. L \in Nat /\ L >= 1 /\ \A t \in 1..L : t \in Nat \ {0}
  OBVIOUS
<1> HIDE DEF L
<1>2. seqs \in Seq(Seq(Nat)) /\ Len(seqs) = L /\ \A t \in 1..L : seqs[t] = Frames(t)
  BY <1>1, FramesGrow
<1>3. FramesOf(L) = FlattenSeq(seqs)
  BY DEF FramesOf, Frames
<1> HIDE DEF seqs
<1>4. PICK f : /\ f[1] = seqs[1]
               /\ \A t \in 2..L : f[t] = f[t - 1] \o seqs[t]
               /\ FlattenSeq(seqs) = f[L]
  BY <1>1, <1>2, FlattenIs
<1> DEFINE Ordered(t) == /\ f[t] \in Seq(Nat) /\ Len(f[t]) = FramesUntil(t)
                         /\ \A i \in 1..FramesUntil(t) : f[t][i] = InstantOf(i)
           Good == {t \in 1..L : Ordered(t)}
<1>5. 1 \in Good
  <2>1. f[1] = Frames(1) /\ 1 \in 1..L /\ 1 \in Nat \ {0}
    BY <1>1, <1>2, <1>4
  <2>2. FramesUntil(0) = 0 /\ FramesUntil(1) = 1 /\ Len(Frames(1)) = 1 /\ 1 - 1 = 0
    BY <2>1, FramesGrow DEF FramesUntil
  <2>3. Frames(1) \in Seq(Nat) /\ Frames(1)[1] = InstantOf(FramesUntil(0) + 1)
    BY <2>1, <2>2, FramesGrow
  <2>4. FramesUntil(0) + 1 = 1 /\ 1..FramesUntil(1) = {1}
    BY <2>2
  <2>5. Frames(1)[1] = InstantOf(1)
    BY <2>3, <2>4
  <2>6. Ordered(1)
    BY <2>1, <2>2, <2>3, <2>4, <2>5
  <2> HIDE DEF Ordered
  <2> QED BY <2>1, <2>6
<1>6. ASSUME NEW t \in 1..L, t \in Good, t < L PROVE t + 1 \in Good
  <2>1. /\ f[t + 1] = f[t] \o Frames(t + 1) /\ t + 1 \in 1..L /\ t + 1 \in Nat \ {0}
        /\ t + 1 - 1 = t
    <3>1. t + 1 \in 2..L /\ t + 1 \in 1..L /\ t + 1 - 1 = t /\ t + 1 \in Nat \ {0}
      <4>1. t \in 1..L /\ t < L
        BY <1>6
      <4> QED BY <1>1, <4>1
    <3> HIDE DEF Good
    <3>2. f[t + 1] = f[t] \o seqs[t + 1]
      <4>1. \A i \in 2..L : i - 1 = t => f[i] = f[t] \o seqs[i]
        BY <1>4
      <4> DEFINE u == t + 1
      <4>2. u \in 2..L /\ u - 1 = t
        BY <3>1
      <4> HIDE DEF u
      <4>3. f[u] = f[t] \o seqs[u]
        BY <4>1, <4>2, Zenon
      <4> QED BY <4>3 DEF u
    <3>3. seqs[t + 1] = Frames(t + 1)
      BY <1>2, <3>1, Zenon
    <3> QED BY <3>1, <3>2, <3>3, Zenon
  <2>2. Ordered(t)
    <3> HIDE DEF Ordered
    <3> QED BY <1>6
  <2> DEFINE a == FramesUntil(t)
             piece == Frames(t + 1)
             h == f[t]
  <2>3. /\ piece \in Seq(Nat) /\ a \in Nat /\ Len(piece) \in Nat
        /\ FramesUntil(t + 1) = a + Len(piece)
        /\ \A i \in 1..Len(piece) : piece[i] = InstantOf(a + i)
        /\ f[t + 1] = h \o piece
    BY <2>1, FramesGrow
  <2>4. h \in Seq(Nat) /\ Len(h) = a /\ \A i \in 1..a : h[i] = InstantOf(i)
    BY <2>2
  <2> HIDE DEF a, piece, h
  <2>5. /\ f[t + 1] \in Seq(Nat) /\ Len(f[t + 1]) = a + Len(piece)
        /\ \A i \in 1..(a + Len(piece)) : f[t + 1][i] = IF i <= a THEN h[i] ELSE piece[i - a]
    <3> DEFINE longer == h \o piece
    <3>1. /\ longer \in Seq(Nat) /\ Len(longer) = Len(h) + Len(piece)
          /\ \A i \in 1..(Len(h) + Len(piece)) :
               longer[i] = IF i <= Len(h) THEN h[i] ELSE piece[i - Len(h)]
      BY <2>3, <2>4, ConcatFacts
    <3>2. f[t + 1] = longer
      BY <2>3
    <3> HIDE DEF longer
    <3> QED BY <2>4, <3>1, <3>2
  <2>6. ASSUME NEW i \in 1..(a + Len(piece)) PROVE f[t + 1][i] = InstantOf(i)
    <3>1. CASE i <= a
      BY <2>3, <2>4, <2>5, <3>1
    <3>2. CASE ~(i <= a)
      <4>1. i - a \in 1..Len(piece) /\ a + (i - a) = i
        BY <2>3, <3>2
      <4> QED BY <2>3, <2>5, <3>2, <4>1
    <3> QED BY <3>1, <3>2
  <2>7. Ordered(t + 1)
    BY <2>3, <2>5, <2>6
  <2> HIDE DEF Ordered
  <2> QED BY <2>1, <2>7
<1>7. Ordered(L)
  <2>1. L \in 1..L /\ 1 \in Nat
    BY <1>1
  <2>2. L \in Good
    <3> HIDE DEF Good
    <3> QED BY <1>1, <1>5, <1>6, <2>1, Ascends
  <2> HIDE DEF Ordered
  <2> QED BY <2>2
<1>8. FramesUntil(L) = 17 * n + 5
  BY DEF FramesUntil, L
<1>9. /\ DOMAIN FramesOf(L) = 1..(17 * n + 5)
      /\ \A i \in 1..(17 * n + 5) : FramesOf(L)[i] = InstantOf(i)
  BY <1>3, <1>4, <1>7, <1>8
<1> QED BY <1>9 DEF L

\* A frame blended with its like is the frame.
LEMMA OnlyFacts == \A i : Blended(i, i, 0) = Only(i) /\ \A f \in 0..5 : Blended(i, i, f) = Only(i)
BY DEF Blended, Only

\* The frames of a chunk, put after those of the chunks before.
LEMMA InOrderGrows ==
  ASSUME NEW a \in Nat, NEW b \in Nat, NEW piece,
         piece = [n \in 1..b |-> Only(InstantOf(a + n))]
  PROVE  InOrder(a) \o piece = InOrder(a + b)
<1> DEFINE S == {Only(i) : i \in Nat}
           whole == InOrder(a) \o piece
<1>1. \A n \in Nat \ {0} : Only(InstantOf(n)) \in S
  BY InstantFacts
<1> HIDE DEF S
<1>2. /\ InOrder(a) \in Seq(S) /\ Len(InOrder(a)) = a
      /\ \A n \in 1..a : InOrder(a)[n] = Only(InstantOf(n))
  BY <1>1 DEF InOrder
<1>3. /\ InOrder(a + b) \in Seq(S) /\ Len(InOrder(a + b)) = a + b
      /\ \A n \in 1..(a + b) : InOrder(a + b)[n] = Only(InstantOf(n))
  <2>1. \A n \in 1..(a + b) : n \in Nat \ {0}
    OBVIOUS
  <2> QED BY <1>1, <2>1 DEF InOrder
<1>4. /\ piece \in Seq(S) /\ Len(piece) = b
      /\ \A n \in 1..b : piece[n] = Only(InstantOf(a + n))
  <2>1. \A n \in 1..b : a + n \in Nat \ {0}
    OBVIOUS
  <2> QED BY <1>1, <2>1
<1>5. /\ whole \in Seq(S) /\ Len(whole) = a + b
      /\ \A n \in 1..(a + b) : whole[n] = IF n <= a THEN InOrder(a)[n] ELSE piece[n - a]
  <2>1. /\ whole \in Seq(S) /\ Len(whole) = Len(InOrder(a)) + Len(piece)
        /\ \A n \in 1..(Len(InOrder(a)) + Len(piece)) :
             whole[n] = IF n <= Len(InOrder(a)) THEN InOrder(a)[n] ELSE piece[n - Len(InOrder(a))]
    BY <1>2, <1>4, ConcatFacts
  <2> HIDE DEF whole
  <2> QED BY <1>2, <1>4, <2>1
<1> HIDE DEF whole
<1>6. ASSUME NEW n \in 1..(a + b) PROVE whole[n] = InOrder(a + b)[n]
  <2>1. CASE n <= a
    BY <1>2, <1>3, <1>5, <2>1
  <2>2. CASE ~(n <= a)
    <3>1. n - a \in 1..b /\ a + (n - a) = n
      BY <2>2
    <3> QED BY <1>3, <1>4, <1>5, <2>2, <3>1
  <2> QED BY <2>1, <2>2
<1>7. whole = InOrder(a + b)
  BY <1>3, <1>5, <1>6, SeqEqual
<1> QED BY <1>7 DEF whole

\* A clip that is decoded has at least one chunk, and two latents more.
LEMMA ClipFacts ==
  ASSUME Decodable(clip)
  PROVE  LET n == chunks(clip.latent_time)
         IN n \in Nat \ {0} /\ clip.latent_time = 5 * n + 2
<1>1. clip.latent_time \in Nat /\ clip.latent_time >= 7 /\ (clip.latent_time - 2) % 5 = 0
  BY DEF Decodable, CHUNK_LATENT_TIME
<1> QED BY <1>1 DEF chunks

\* A chunk adds its seventeen frames: the first five are blended with those carried
\* from the chunk before, which show the same instants.
LEMMA ChunkKeeps ==
  ASSUME FramesInv, DecodeChunk
  PROVE  FramesInv'
<1> DEFINE k == chunks(clip.latent_time)
           d == decoded
           piece == [n \in 1..17 |->
             IF d > 0 /\ n <= 5 THEN Blended(carried[n], Instant(d, n - 1), n - 1)
                                 ELSE Only(Instant(d, n - 1))]
<1>1. /\ k \in Nat \ {0} /\ d \in 0..k /\ d < k /\ d \in Nat /\ decode = "running"
      /\ assembled = InOrder(17 * d)
      /\ d > 0 => carried = [n \in 1..5 |-> Instant(d - 1, 16 + n)]
      /\ Decodable(clip)
  BY ClipFacts DEF FramesInv, DecodeChunk
<1>2. /\ assembled' = assembled \o piece
      /\ carried' = [n \in 1..5 |-> Instant(d, 16 + n)]
      /\ decoded' = d + 1 /\ clip' = clip /\ decode' = decode
  BY DEF DecodeChunk
<1> HIDE DEF k
<1>3. ASSUME NEW n \in 1..17
      PROVE  Instant(d, n - 1) = InstantOf(17 * d + n)
  <2>1. n - 1 \in 0..16 /\ 17 * d + (n - 1) + 1 = 17 * d + n
    BY <1>1
  <2> QED BY ZenonT(40), <1>1, <2>1, InstantFacts
<1>4. ASSUME NEW n \in 1..17
      PROVE  piece[n] = Only(InstantOf(17 * d + n))
  <2>1. CASE d > 0 /\ n <= 5
    <3>1. n - 1 \in 0..4 /\ 17 * d + (n - 1) + 1 = 17 * d + n /\ d \in Nat \ {0}
          /\ 17 + (n - 1) = 16 + n /\ n \in 1..5 /\ n - 1 \in 0..5
      BY <1>1, <2>1
    <3>2. carried[n] = Instant(d - 1, 16 + n)
      BY <1>1, <2>1, <3>1
    <3>3. carried[n] = InstantOf(17 * d + n)
      BY ZenonT(40), <3>1, <3>2, InstantFacts
    <3>4. piece[n] = Blended(InstantOf(17 * d + n), InstantOf(17 * d + n), n - 1)
      BY <1>3, <2>1, <3>3
    <3> QED BY <3>1, <3>4, OnlyFacts
  <2>2. CASE ~(d > 0 /\ n <= 5)
    BY <1>3, <2>2
  <2> QED BY <2>1, <2>2
<1>5. piece = [n \in 1..17 |-> Only(InstantOf(17 * d + n))]
  BY <1>4
<1> HIDE DEF piece
<1>6. assembled' = InOrder(17 * (d + 1))
  <2>1. 17 * d \in Nat /\ 17 \in Nat /\ 17 * d + 17 = 17 * (d + 1)
    BY <1>1
  <2> QED BY ZenonT(40), <1>1, <1>2, <1>5, <2>1, InOrderGrows
<1>7. d + 1 \in 0..k /\ d + 1 - 1 = d
  BY <1>1
<1>8. Decodable(clip)' /\ chunks(clip.latent_time)' = k
  BY <1>1, <1>2 DEF k
<1>9. carried' = [n \in 1..5 |-> Instant(decoded' - 1, 16 + n)]
  <2> DEFINE before == decoded' - 1
  <2>1. before = d
    BY <1>1, <1>2, <1>7
  <2> HIDE DEF before
  <2>2. carried' = [n \in 1..5 |-> Instant(before, 16 + n)]
    BY <1>2, <2>1
  <2> QED BY <2>2 DEF before
<1> QED BY <1>1, <1>2, <1>6, <1>7, <1>8, <1>9 DEF FramesInv

\* What is carried from the last chunk ends the clip.
LEMMA EndKeeps ==
  ASSUME FramesInv, DecodeEnds
  PROVE  FramesInv'
<1> DEFINE k == chunks(clip.latent_time)
           piece == [n \in 1..5 |-> Only(carried[n])]
<1>1. /\ k \in Nat \ {0} /\ decoded = k /\ decode = "running" /\ Decodable(clip)
      /\ assembled = InOrder(17 * k)
      /\ carried = [n \in 1..5 |-> Instant(k - 1, 16 + n)]
  BY ClipFacts DEF FramesInv, DecodeEnds
<1>2. /\ assembled' = assembled \o piece /\ decode' = "done"
      /\ UNCHANGED << clip, decoded, carried >>
  BY DEF DecodeEnds
<1> HIDE DEF k
<1>3. ASSUME NEW n \in 1..5 PROVE piece[n] = Only(InstantOf(17 * k + n))
  <2>1. n - 1 \in 0..4 /\ 17 * k + (n - 1) + 1 = 17 * k + n /\ 17 + (n - 1) = 16 + n
    BY <1>1
  <2>2. carried[n] = InstantOf(17 * k + n)
    BY <1>1, <2>1, InstantFacts
  <2> QED BY <2>2
<1>4. piece = [n \in 1..5 |-> Only(InstantOf(17 * k + n))]
  BY <1>3
<1> HIDE DEF piece
<1>5. assembled' = InOrder(17 * k + 5)
  <2>1. 17 * k \in Nat /\ 5 \in Nat
    BY <1>1
  <2> QED BY <1>1, <1>2, <1>4, <2>1, InOrderGrows
<1> QED BY <1>1, <1>2, <1>5 DEF FramesInv, k

\* Until a decode fails, what is assembled are the clip's frames so far in their order,
\* and what is carried shows the instants of the next chunk's first frames.
THEOREM FramesInvariance == DecodeSpec => []FramesInv
<1>1. DecodeInit => FramesInv
  <2> SUFFICES ASSUME DecodeInit PROVE FramesInv
    OBVIOUS
  <2>1. /\ Decodable(clip) /\ decoded = 0 /\ assembled = << >> /\ decode = "running"
    BY DEF DecodeInit
  <2>2. chunks(clip.latent_time) \in Nat
    BY <2>1, ClipFacts
  <2>3. InOrder(17 * 0) = << >>
    BY DEF InOrder
  <2> QED BY <2>1, <2>2, <2>3 DEF FramesInv
<1>2. FramesInv /\ [DecodeNext]_tileVars => FramesInv'
  <2> SUFFICES ASSUME FramesInv, [DecodeNext]_tileVars PROVE FramesInv'
    OBVIOUS
  <2>1. CASE DecodeChunk
    BY <2>1, ChunkKeeps
  <2>2. CASE DecodeEnds
    BY <2>2, EndKeeps
  <2>3. CASE DecodeFails
    BY <2>3 DEF FramesInv, DecodeFails
  <2>4. CASE UNCHANGED tileVars
    BY <2>4 DEF FramesInv, tileVars
  <2> QED BY <2>1, <2>2, <2>3, <2>4 DEF DecodeNext
<1> QED BY <1>1, <1>2, PTL DEF DecodeSpec

\* A clip of any length is decoded into all its frames in their order, two chunks are
\* blended only where they show the same instant, and the preview is the frame it says
\* it is (decode_chunked, h3_video_vae_decoder_preview).
THEOREM ClipsAreInOrder == DecodeSpec => []FramesInOrder
<1>1. FramesInv => FramesInOrder
  <2> SUFFICES ASSUME FramesInv PROVE FramesInOrder
    OBVIOUS
  <2> DEFINE k == chunks(clip.latent_time)
             frames == FramesOf(clip.latent_time)
  <2>1. k \in Nat \ {0} /\ clip.latent_time = 5 * k + 2
    BY ClipFacts DEF FramesInv
  <2> HIDE DEF k
  <2>2. DOMAIN frames = 1..(17 * k + 5) /\ \A i \in 1..(17 * k + 5) : frames[i] = InstantOf(i)
    BY <2>1, FramesOfIs
  <2> HIDE DEF frames
  <2>3. InOrder(17 * k + 5) = [n \in DOMAIN frames |-> Only(frames[n])]
    BY <2>2 DEF InOrder
  <2>4. Instant(preview_chunk(clip.latent_time), preview_frame) = frames[preview_index(clip.latent_time) + 1]
    <3> DEFINE h == k \div 2
               index == h * 17 + 11
               bounds == {index, k * 17 + 4}
    <3>1. h \in Nat /\ 2 * h <= k
      BY <2>1
    <3> HIDE DEF h
    <3>2. index <= k * 17 + 4 /\ index \in Nat /\ index + 1 \in 1..(17 * k + 5) /\ index + 1 = 17 * h + 11 + 1
      BY <2>1, <3>1
    <3>3. preview_chunk(clip.latent_time) = h /\ preview_frame = 11
      BY DEF preview_chunk, preview_frame, FIRST_CHUNK_FRAMES, h, k
    <3>4. preview_index(clip.latent_time) = Min(bounds)
      BY <3>3 DEF preview_index, k
    <3>5. Min(bounds) = index
      <4>1. index \in bounds /\ \A x \in bounds : index <= x /\ x \in Nat
        BY <2>1, <3>2
      <4>2. \A x \in bounds : (\A y \in bounds : x <= y) => x = index
        <5> HIDE DEF index
        <5> QED BY <2>1, <3>2
      <4> HIDE DEF bounds
      <4> QED BY <4>1, <4>2 DEF Min
    <3>6. Instant(h, 11) = InstantOf(17 * h + 11 + 1)
      BY <3>1, InstantFacts
    <3> QED BY <2>2, <3>2, <3>3, <3>4, <3>5, <3>6
  <2> QED BY <2>3, <2>4 DEF FramesInOrder, FramesInv, k, frames
<1> QED BY <1>1, FramesInvariance, PTL

(***************************************************************************)
(* The tiles of an axis.  Lengths are multiples of 16 pixels, a tile being *)
(* 16 a pixels and the picture 16 b: the overlap of 64 is four of them.    *)
(***************************************************************************)
\* The minimum that FiniteSetsExt chooses is one of the set.
LEMMA MinFacts ==
  ASSUME NEW T \in SUBSET Nat, T # {}
  PROVE  Min(T) \in T /\ \A n \in T : Min(T) <= n
<1>1. \E m \in T : \A n \in T : m <= n
  BY LeastNatural
<1> QED BY <1>1 DEF Min

\* A product grows with its factor.
LEMMA ProductGrows ==
  ASSUME NEW k \in Nat, NEW x \in Nat, NEW y \in Nat, x <= y
  PROVE  k * x <= k * y
<1>1. k * (y - x) >= 0 /\ k * (y - x) = k * y - k * x
  BY SMTT(30)
<1>2. k * x \in Int /\ k * y \in Int
  OBVIOUS
<1> QED BY <1>1, <1>2

\* A quotient is the whole part.
LEMMA QuotientFacts ==
  ASSUME NEW x \in Nat, NEW k \in Nat \ {0}
  PROVE  x \div k \in Nat /\ k * (x \div k) <= x /\ x < k * (x \div k) + k
BY SMTT(30)

\* As many tiles as it takes with the least overlap, and no more: what they have too
\* much does not make an overlap as long as a tile.
LEMMA TileCountFacts ==
  ASSUME NEW a \in Nat, a > 4, NEW b \in Nat, b > a
  PROVE  LET count == tile_count_for_extent(16 * b, 16 * a)
             left  == a * count - 4 * (count - 1) - b
         IN count \in Nat /\ count >= 2 /\ left \in Nat /\ left < a - 4
<1> DEFINE first == (16 * b + 16 * a - 1) \div (16 * a)
           p == (16 * b) \div (16 * a - 64)
           last == 1 + p
           T == {count \in first..last : 16 * a * count - 64 * (count - 1) >= 16 * b}
           w == a - 4
<1>1. /\ first \in Nat /\ a * first >= b /\ a * first < a + b
  <2>1. 16 * b + 16 * a - 1 \in Nat /\ 16 * a \in Nat \ {0}
    OBVIOUS
  <2>2. /\ first \in Nat /\ (16 * a) * first <= 16 * b + 16 * a - 1
        /\ 16 * b + 16 * a - 1 < (16 * a) * first + 16 * a
    BY <2>1, QuotientFacts
  <2> HIDE DEF first
  <2>3. (16 * a) * first = 16 * (a * first) /\ a * first \in Int
    BY <2>2
  <2> DEFINE af == a * first
  <2> HIDE DEF af
  <2>4. 16 * af <= 16 * b + 16 * a - 1 /\ 16 * b + 16 * a - 1 < 16 * af + 16 * a /\ af \in Int
    BY <2>2, <2>3 DEF af
  <2>5. af >= b /\ af < a + b
    BY <2>4
  <2> QED BY <2>2, <2>5 DEF af
<1>2. p \in Nat /\ w * (p + 1) > b /\ w \in Nat
  <2>1. 16 * a - 64 \in Nat \ {0} /\ 16 * b \in Nat /\ w \in Nat /\ 16 * a - 64 = 16 * w
    OBVIOUS
  <2>2. p \in Nat /\ 16 * b < (16 * a - 64) * p + (16 * a - 64)
    BY <2>1, QuotientFacts
  <2> HIDE DEF p, w
  <2>3. (16 * w) * p + 16 * w = 16 * (w * (p + 1)) /\ w * (p + 1) \in Int
    BY <2>1, <2>2
  <2> DEFINE wp == w * (p + 1)
  <2>4. 16 * b < 16 * wp /\ wp \in Int
    BY <2>1, <2>2, <2>3
  <2> HIDE DEF wp
  <2>5. wp > b
    BY <2>4
  <2> QED BY <2>1, <2>2, <2>5 DEF wp
<1>3. tile_count_for_extent(16 * b, 16 * a) = Min(T)
  BY DEF tile_count_for_extent, TILE_OVERLAP_MIN
<1> HIDE DEF first, p
<1>4. \A count \in Nat : (16 * a * count - 64 * (count - 1) >= 16 * b) <=> (w * count + 4 >= b)
  <2> SUFFICES ASSUME NEW count \in Nat
               PROVE  (16 * a * count - 64 * (count - 1) >= 16 * b) <=> (w * count + 4 >= b)
    OBVIOUS
  <2>1. 16 * a * count - 64 * (count - 1) = 16 * (w * count + 4) /\ w * count \in Int
    OBVIOUS
  <2> DEFINE wc == w * count
  <2> HIDE DEF w, wc
  <2>2. wc \in Int => (16 * (wc + 4) >= 16 * b <=> wc + 4 >= b)
    OBVIOUS
  <2> QED BY <2>1, <2>2 DEF wc
<1>5. first <= last /\ last \in T
  <2>1. first <= last
    <3> SUFFICES ASSUME first >= last + 1 PROVE FALSE
      BY <1>1, <1>2
    <3>1. first - 1 \in Nat /\ p + 1 \in Nat /\ p + 1 <= first - 1 /\ a \in Nat
      BY <1>1, <1>2
    <3>2. a * (p + 1) <= a * (first - 1) /\ (p + 1) * w <= (p + 1) * a
      BY <1>2, <3>1, ProductGrows
    <3>3. a * (first - 1) = a * first - a /\ (p + 1) * w = w * (p + 1) /\ (p + 1) * a = a * (p + 1)
          /\ a * first \in Int /\ w * (p + 1) \in Int /\ a * (p + 1) \in Int
      BY <1>1, <1>2
    <3> DEFINE af == a * first
               wp == w * (p + 1)
               ap == a * (p + 1)
    <3>4. af < a + b /\ wp > b /\ ap <= af - a /\ wp <= ap /\ af \in Int /\ wp \in Int /\ ap \in Int
      BY <1>1, <1>2, <3>2, <3>3
    <3> HIDE DEF af, wp, ap
    <3> QED BY <3>4
  <2>2. last \in Nat /\ last \in first..last
    BY <1>1, <1>2, <2>1
  <2>3. w * last + 4 >= b
    <3>1. w * last = w * (p + 1) /\ w * (p + 1) \in Int
      BY <1>2
    <3> DEFINE wp == w * (p + 1)
    <3> HIDE DEF wp, last
    <3>2. wp > b /\ w * last = wp /\ wp \in Int
      BY <1>2, <3>1 DEF wp
    <3> QED BY <3>2
  <2> QED BY <1>4, <2>1, <2>2, <2>3
<1> DEFINE count == Min(T)
<1>6. count \in T /\ \A n \in T : count <= n
  <2>1. T \in SUBSET Nat /\ T # {}
    BY <1>1, <1>2, <1>5
  <2> HIDE DEF T
  <2> QED BY <2>1, MinFacts
<1> HIDE DEF count
<1>7. count \in Nat /\ first <= count /\ count <= last /\ w * count + 4 >= b
  BY <1>1, <1>2, <1>4, <1>6
<1>8. count >= 2
  <2> SUFFICES ASSUME count <= 1 PROVE FALSE
    BY <1>7
  <2>1. a * first <= a * 1
    BY <1>1, <1>7, ProductGrows
  <2> DEFINE af == a * first
  <2>2. af >= b /\ af <= a /\ af \in Int
    BY <1>1, <2>1
  <2> HIDE DEF af
  <2> QED BY <2>2
<1> DEFINE left == a * count - 4 * (count - 1) - b
<1>9. left = w * count + 4 - b /\ w * count \in Int
  BY <1>7
<1>10. left \in Nat
  <2> HIDE DEF left, w
  <2> QED BY <1>7, <1>9
<1>11. left < a - 4
  <2>1. CASE count = first
    <3>1. a * first \in Int /\ left = a * first - 4 * (first - 1) - b
      BY <1>1, <2>1
    <3> DEFINE af == a * first
    <3> HIDE DEF left
    <3>2. af < a + b /\ left = af - 4 * (first - 1) - b /\ af \in Int /\ first >= 2
      BY <1>1, <1>8, <2>1, <3>1
    <3> HIDE DEF af
    <3> QED BY <1>1, <3>2
  <2>2. CASE count # first
    <3>1. count - 1 \in first..last /\ count - 1 \in Nat /\ count - 1 \notin T
      <4>1. count - 1 \in first..last /\ count - 1 \in Nat /\ ~(count <= count - 1)
        BY <1>1, <1>2, <1>7, <2>2
      <4> HIDE DEF T
      <4> QED BY <1>6, <4>1
    <3>2. ~(w * (count - 1) + 4 >= b)
      BY <1>4, <3>1
    <3>3. w * (count - 1) = w * count - w /\ w * count \in Int /\ w * (count - 1) \in Int
      BY <1>2, <1>7
    <3> DEFINE wc == w * count
               less == w * (count - 1)
    <3> HIDE DEF left
    <3>4. left = wc + 4 - b /\ less = wc - w /\ wc \in Int /\ less \in Int /\ less + 4 < b
      BY <1>9, <3>2, <3>3
    <3> HIDE DEF wc, less
    <3> QED BY <3>4
  <2> QED BY <2>1, <2>2
<1> QED BY <1>3, <1>7, <1>8, <1>10, <1>11 DEF count

\* What is left over is shared out among the overlaps, all of it.
Slice(left, m, i) == {u \in 0..left - 1 : u % m = i}
Slices(left, m, i) == {u \in 0..left - 1 : u % m < i}

\* What is left over is dealt to the overlaps: up to an overlap, its slices are those
\* before it and its own.
LEMMA SliceFacts ==
  ASSUME NEW left \in Nat, NEW m \in Nat \ {0}
  PROVE  /\ Cardinality(Slices(left, m, 0)) = 0
         /\ Cardinality(Slices(left, m, m)) = left
         /\ \A i \in 0..(m - 1) :
              /\ Cardinality(Slice(left, m, i)) \in Nat /\ Cardinality(Slice(left, m, i)) <= left
              /\ Cardinality(Slices(left, m, i + 1)) =
                   Cardinality(Slices(left, m, i)) + Cardinality(Slice(left, m, i))
         /\ \A i \in 0..m : Cardinality(Slices(left, m, i)) \in Nat
<1>1. IsFiniteSet(0..left - 1) /\ Cardinality(0..left - 1) = left
  BY FS_Interval
<1>2. ASSUME NEW S \in SUBSET (0..left - 1)
      PROVE  IsFiniteSet(S) /\ Cardinality(S) \in Nat /\ Cardinality(S) <= left
  BY <1>1, FS_Subset, FS_CardinalityType
<1>3. \A u \in 0..left - 1 : u % m \in 0..(m - 1)
  BY SMTT(30)
<1>4. Slices(left, m, 0) = {}
  BY <1>3 DEF Slices
<1>5. Slices(left, m, m) = 0..left - 1
  BY <1>3 DEF Slices
<1>6. ASSUME NEW i \in 0..(m - 1)
      PROVE  /\ Cardinality(Slice(left, m, i)) \in Nat /\ Cardinality(Slice(left, m, i)) <= left
             /\ Cardinality(Slices(left, m, i + 1)) =
                  Cardinality(Slices(left, m, i)) + Cardinality(Slice(left, m, i))
  <2> DEFINE A == Slices(left, m, i)
             B == Slice(left, m, i)
  <2>1. A \in SUBSET (0..left - 1) /\ B \in SUBSET (0..left - 1)
    BY DEF Slice, Slices
  <2>2. A \cup B = Slices(left, m, i + 1)
    <3>1. \A u \in 0..left - 1 : u % m < i + 1 <=> u % m < i \/ u % m = i
      BY <1>3
    <3> QED BY <3>1 DEF Slice, Slices
  <2>3. A \cap B = {}
    BY <1>3 DEF Slice, Slices
  <2> HIDE DEF A, B
  <2>4. /\ IsFiniteSet(A) /\ IsFiniteSet(B) /\ Cardinality(A) \in Nat
        /\ Cardinality(B) \in Nat /\ Cardinality(B) <= left
    BY <1>2, <2>1
  <2>5. Cardinality(A \cup B) = Cardinality(A) + Cardinality(B) - 0
    BY <2>3, <2>4, FS_Union, FS_EmptySet
  <2>6. Cardinality(A \cup B) = Cardinality(A) + Cardinality(B)
    BY <2>4, <2>5
  <2> QED BY <2>2, <2>4, <2>6 DEF A, B
<1>7. \A i \in 0..m : Cardinality(Slices(left, m, i)) \in Nat
  BY <1>2 DEF Slices
<1> QED BY <1>1, <1>4, <1>5, <1>6, <1>7, FS_EmptySet

\* The recursive function of tile_axis_build satisfies its equation.
LEMMA StartsAre ==
  ASSUME NEW extent \in Nat, NEW tile \in Nat, tile_count_for_extent(extent, tile) \in Nat \ {0}
  PROVE  LET axis == tile_axis_build(extent, tile)
         IN /\ axis.count = tile_count_for_extent(extent, tile)
            /\ axis.length = IF axis.count = 1 THEN extent ELSE tile
            /\ axis.overlaps = [i \in 0..axis.count - 2 |-> spread_overlap(extent, tile, axis.count, i)]
            /\ DOMAIN axis.starts = 0..axis.count - 1
            /\ axis.starts[0] = 0
            /\ \A i \in 1..axis.count - 1 :
                 axis.starts[i] = axis.starts[i - 1] + tile - axis.overlaps[i - 1]
            /\ axis = [count |-> axis.count, length |-> axis.length,
                       starts |-> axis.starts, overlaps |-> axis.overlaps]
<1> DEFINE count == tile_count_for_extent(extent, tile)
           overlaps == [i \in 0..count - 2 |-> spread_overlap(extent, tile, count, i)]
           After(x, i) == x + tile - overlaps[i - 1]
           Builds(f, m) == f = [i \in 0..m |-> IF i = 0 THEN 0 ELSE After(f[i - 1], i)]
           starts == CHOOSE f : Builds(f, count - 1)
           Good == {m \in Nat : \E f : Builds(f, m)}
<1>0. tile_axis_build(extent, tile) =
        [count |-> count, length |-> IF count = 1 THEN extent ELSE tile,
         starts |-> starts, overlaps |-> overlaps]
  BY DEF tile_axis_build
<1> HIDE DEF After
<1>1. count - 1 \in Nat /\ count \in Nat
  OBVIOUS
<1> HIDE DEF count
<1>2. 0 \in Good
  <2>1. Builds([i \in 0..0 |-> 0], 0)
    OBVIOUS
  <2> QED BY <2>1
<1>3. ASSUME NEW n \in 0..(count - 1), n \in Good PROVE n + 1 \in Good
  <2>1. PICK f : Builds(f, n)
    BY <1>3
  <2>2. n \in Nat
    BY <1>1
  <2> DEFINE g == [i \in 0..(n + 1) |-> IF i = n + 1 THEN After(f[n], n + 1) ELSE f[i]]
  <2>3. \A i \in 0..(n + 1) : g[i] = IF i = 0 THEN 0 ELSE After(g[i - 1], i)
    BY <2>1, <2>2
  <2>4. Builds(g, n + 1)
    <3>1. g = [i \in 0..(n + 1) |-> g[i]]
      OBVIOUS
    <3> HIDE DEF g
    <3> QED BY <2>3, <3>1
  <2> HIDE DEF g, Builds
  <2> QED BY <2>2, <2>4
<1>4. count - 1 \in Good
  <2>1. count - 1 \in 0..(count - 1) /\ 0 \in Nat
    BY <1>1
  <2> HIDE DEF Good
  <2> QED BY <1>1, <1>2, <1>3, <2>1, Ascends
<1>5. Builds(starts, count - 1)
  <2>1. \E f : Builds(f, count - 1)
    BY <1>4
  <2> HIDE DEF Builds
  <2> QED BY <2>1
<1> HIDE DEF starts
<1>6. /\ DOMAIN starts = 0..count - 1 /\ starts[0] = 0
      /\ \A i \in 1..count - 1 : starts[i] = After(starts[i - 1], i)
  <2>1. 0 \in 0..count - 1 /\ \A i \in 1..count - 1 : i \in 0..count - 1 /\ i # 0
    BY <1>1
  <2> QED BY <1>5, <2>1
<1>7. \A i \in 1..count - 1 : starts[i] = starts[i - 1] + tile - overlaps[i - 1]
  BY <1>6 DEF After
<1>8. count = tile_count_for_extent(extent, tile)
  BY DEF count
<1>9. overlaps = [i \in 0..count - 2 |-> spread_overlap(extent, tile, count, i)]
  OBVIOUS
<1> HIDE DEF overlaps
<1> DEFINE axis == tile_axis_build(extent, tile)
<1>10. /\ axis.count = count /\ axis.length = (IF count = 1 THEN extent ELSE tile)
       /\ axis.starts = starts /\ axis.overlaps = overlaps
       /\ axis = [count |-> axis.count, length |-> axis.length,
                  starts |-> axis.starts, overlaps |-> axis.overlaps]
  BY <1>0
<1> HIDE DEF axis
<1>11. /\ axis.count = tile_count_for_extent(extent, tile)
       /\ axis.length = IF axis.count = 1 THEN extent ELSE tile
       /\ axis.overlaps = [i \in 0..axis.count - 2 |-> spread_overlap(extent, tile, axis.count, i)]
       /\ DOMAIN axis.starts = 0..axis.count - 1
       /\ axis.starts[0] = 0
       /\ \A i \in 1..axis.count - 1 :
            axis.starts[i] = axis.starts[i - 1] + tile - axis.overlaps[i - 1]
  BY <1>6, <1>7, <1>8, <1>9, <1>10
<1> QED BY <1>10, <1>11 DEF axis

\* The tiles of an axis of more than one, in units of 16 pixels: overlaps shorter than
\* the tile, and each tile where the one before leaves off.
LEMMA AxisFacts ==
  ASSUME NEW a \in Nat, a > 4, NEW b \in Nat, b > a
  PROVE  LET axis == tile_axis_build(16 * b, 16 * a)
         IN /\ axis.count \in Nat /\ axis.count >= 2
            /\ axis.length = 16 * a
            /\ DOMAIN axis.starts = 0..axis.count - 1
            /\ DOMAIN axis.overlaps = 0..axis.count - 2
            /\ \E z \in [0..axis.count - 1 -> Int], y \in [0..axis.count - 2 -> Nat] :
                 /\ \A i \in 0..axis.count - 1 : axis.starts[i] = 16 * z[i]
                 /\ \A i \in 0..axis.count - 2 :
                      /\ axis.overlaps[i] = 16 * y[i] /\ y[i] < a
                      /\ z[i + 1] = z[i] + a - y[i]
                 /\ z[0] = 0 /\ z[axis.count - 1] + a = b
            /\ axis = [count |-> axis.count, length |-> axis.length,
                       starts |-> axis.starts, overlaps |-> axis.overlaps]
<1> DEFINE axis == tile_axis_build(16 * b, 16 * a)
           count == tile_count_for_extent(16 * b, 16 * a)
           m == count - 1
           left == a * count - 4 * (count - 1) - b
           w == a - 4
<1>0. count \in Nat /\ count >= 2 /\ left \in Nat /\ left < w
  BY TileCountFacts
<1>1. count \in Nat /\ count >= 2 /\ left \in Nat /\ left < w /\ m \in Nat \ {0} /\ w \in Nat
  <2> HIDE DEF count, left
  <2> QED BY <1>0
<1> DEFINE card(i) == Cardinality(Slice(left, m, i))
           total(i) == Cardinality(Slices(left, m, i))
           z == [i \in 0..m |-> w * i - total(i)]
           y == [i \in 0..m - 1 |-> 4 + card(i)]
<1>2. \A i \in 0..m - 1 : spread_overlap(16 * b, 16 * a, count, i) = 64 + 16 * card(i)
  <2>1. (16 * a * count - 64 * (count - 1) - 16 * b) \div 16 = left
    <3>1. 16 * a * count - 64 * (count - 1) - 16 * b = 16 * left
      BY <1>1
    <3> HIDE DEF left
    <3>2. (16 * left) \div 16 = left
      BY <1>1
    <3> QED BY <3>1, <3>2
  <2> HIDE DEF left
  <2> QED BY <2>1 DEF spread_overlap, TILE_OVERLAP_MIN, SPATIAL_RATIO, Slice
<1>3. /\ axis.count = count /\ axis.length = 16 * a
      /\ axis.overlaps = [i \in 0..count - 2 |-> spread_overlap(16 * b, 16 * a, count, i)]
      /\ DOMAIN axis.starts = 0..count - 1 /\ axis.starts[0] = 0
      /\ \A i \in 1..count - 1 :
           axis.starts[i] = axis.starts[i - 1] + 16 * a - axis.overlaps[i - 1]
      /\ axis = [count |-> axis.count, length |-> axis.length,
                 starts |-> axis.starts, overlaps |-> axis.overlaps]
  <2> DEFINE extent == 16 * b
             tile == 16 * a
  <2>1. extent \in Nat /\ tile \in Nat
    OBVIOUS
  <2> HIDE DEF extent, tile
  <2>2. count \in Nat \ {0} /\ count # 1
    <3> HIDE DEF count
    <3> QED BY <1>1
  <2>3. tile_count_for_extent(extent, tile) = count /\ tile_axis_build(extent, tile) = axis
    BY DEF extent, tile
  <2> HIDE DEF count, axis
  <2>4. /\ axis.count = count
        /\ axis.length = IF axis.count = 1 THEN extent ELSE tile
        /\ axis.overlaps = [i \in 0..axis.count - 2 |-> spread_overlap(extent, tile, axis.count, i)]
        /\ DOMAIN axis.starts = 0..axis.count - 1
        /\ axis.starts[0] = 0
        /\ \A i \in 1..axis.count - 1 :
             axis.starts[i] = axis.starts[i - 1] + tile - axis.overlaps[i - 1]
        /\ axis = [count |-> axis.count, length |-> axis.length,
                   starts |-> axis.starts, overlaps |-> axis.overlaps]
    BY <2>1, <2>2, <2>3, StartsAre
  <2> QED BY <2>2, <2>4 DEF extent, tile
<1>4. /\ total(0) = 0 /\ total(m) = left
      /\ \A i \in 0..m - 1 : card(i) \in Nat /\ card(i) <= left /\ total(i + 1) = total(i) + card(i)
      /\ \A i \in 0..m : total(i) \in Nat
  BY ZenonT(40), <1>1, SliceFacts
<1> HIDE DEF axis, count, left, card, total
<1>5. z \in [0..m -> Int] /\ y \in [0..m - 1 -> Nat]
  BY <1>1, <1>4
<1>6. /\ m - 1 = count - 2
      /\ \A i \in 0..m - 1 : axis.overlaps[i] = 16 * y[i] /\ y[i] < a /\ y[i] = 4 + card(i)
  <2>1. m - 1 = count - 2
    BY <1>1
  <2>2. ASSUME NEW i \in 0..m - 1 PROVE axis.overlaps[i] = 64 + 16 * card(i)
    BY <1>2, <1>3, <2>1
  <2> QED BY <1>1, <1>4, <2>1, <2>2
<1>7. \A i \in 0..m - 1 : z[i + 1] = z[i] + a - y[i]
  <2> SUFFICES ASSUME NEW i \in 0..m - 1 PROVE z[i + 1] = z[i] + a - y[i]
    OBVIOUS
  <2>1. /\ i \in 0..m /\ i + 1 \in 0..m /\ i \in Nat
        /\ z[i] = w * i - total(i) /\ z[i + 1] = w * (i + 1) - total(i + 1)
    BY <1>1
  <2>2. w * (i + 1) = w * i + w /\ w * i \in Int
    BY <1>1, <2>1
  <2>3. y[i] = 4 + card(i) /\ card(i) \in Nat /\ total(i) \in Nat /\ total(i + 1) = total(i) + card(i)
    BY <1>4, <1>6, <2>1
  <2> DEFINE wi == w * i
  <2>4. z[i] = wi - total(i) /\ z[i + 1] = wi + w - (total(i) + card(i)) /\ wi \in Int
    BY <2>1, <2>2, <2>3
  <2> HIDE DEF wi, z, y
  <2> QED BY <2>3, <2>4
<1>8. z[0] = 0 /\ z[m] + a = b
  <2>1. z[0] = w * 0 - total(0) /\ z[m] = w * m - total(m)
    BY <1>1
  <2>2. z[0] = 0
    BY <1>1, <1>4, <2>1
  <2>3. z[m] = w * m - left
    BY <1>4, <2>1
  <2>4. w * m - left + a = b
    BY <1>1 DEF left
  <2> QED BY <2>2, <2>3, <2>4
<1> HIDE DEF z, y
<1>9. \A i \in 0..m : axis.starts[i] = 16 * z[i]
  <2> DEFINE Good == {i \in 0..m : axis.starts[i] = 16 * z[i]}
  <2>1. 0 \in Good
    BY <1>1, <1>3, <1>8
  <2>2. ASSUME NEW i \in 0..m, i \in Good, i < m PROVE i + 1 \in Good
    <3>1. i + 1 \in 1..count - 1 /\ i + 1 - 1 = i /\ i \in 0..m - 1 /\ i + 1 \in 0..m /\ i \in Nat
      BY <1>1, <2>2
    <3>2. axis.starts[i + 1] = axis.starts[i] + 16 * a - axis.overlaps[i]
      <4> DEFINE n == i + 1
      <4>1. n \in 1..count - 1 /\ n - 1 = i
        BY <3>1
      <4> HIDE DEF n
      <4>2. axis.starts[n] = axis.starts[i] + 16 * a - axis.overlaps[i]
        BY <1>3, <4>1
      <4> QED BY <4>2 DEF n
    <3>3. /\ axis.starts[i] = 16 * z[i] /\ axis.overlaps[i] = 16 * y[i]
          /\ z[i + 1] = z[i] + a - y[i] /\ z[i] \in Int /\ y[i] \in Nat
      BY <1>5, <1>6, <1>7, <2>2, <3>1
    <3>4. axis.starts[i + 1] = 16 * z[i + 1]
      BY <3>2, <3>3
    <3> QED BY <3>1, <3>4
  <2>3. 0 \in Nat /\ m \in Nat
    BY <1>1
  <2>4. \A i \in 0..m : i \in Good
    <3> HIDE DEF Good
    <3> QED BY <2>1, <2>2, <2>3, Ascends
  <2> QED BY <2>4
<1>10. count - 1 = m /\ DOMAIN axis.overlaps = 0..count - 2
  BY <1>3
<1>11. \E zz \in [0..axis.count - 1 -> Int], yy \in [0..axis.count - 2 -> Nat] :
         /\ \A i \in 0..axis.count - 1 : axis.starts[i] = 16 * zz[i]
         /\ \A i \in 0..axis.count - 2 :
              /\ axis.overlaps[i] = 16 * yy[i] /\ yy[i] < a
              /\ zz[i + 1] = zz[i] + a - yy[i]
         /\ zz[0] = 0 /\ zz[axis.count - 1] + a = b
  <2>1. axis.count - 1 = m /\ axis.count - 2 = m - 1
    BY <1>1, <1>3, <1>6
  <2> HIDE DEF m
  <2> QED BY <1>5, <1>6, <1>7, <1>8, <1>9, <2>1
<1> QED BY <1>1, <1>3, <1>10, <1>11 DEF axis

\* Sixteen pixels to a latent.
LEMMA SixteenToOne ==
  ASSUME NEW n \in Int
  PROVE  (16 * n) \div 16 = n /\ 16 * n \in Int
OBVIOUS

\* The axis in latents has the fields of the axis, divided.
LEMMA LatentAxis ==
  ASSUME NEW axis, axis = [count |-> axis.count, length |-> axis.length,
                           starts |-> axis.starts, overlaps |-> axis.overlaps]
  PROVE  /\ InLatents(axis).count = axis.count
         /\ InLatents(axis).length = axis.length \div 16
         /\ InLatents(axis).starts = [i \in DOMAIN axis.starts |-> axis.starts[i] \div 16]
         /\ InLatents(axis).overlaps = [i \in DOMAIN axis.overlaps |-> axis.overlaps[i] \div 16]
<1> DEFINE c == axis.count
           l == axis.length
           s == axis.starts
           o == axis.overlaps
<1>1. axis = [count |-> c, length |-> l, starts |-> s, overlaps |-> o]
  OBVIOUS
<1> HIDE DEF c, l, s, o
<1>2. InLatents(axis) = [count |-> c, length |-> l \div 16,
                         starts |-> [i \in DOMAIN s |-> s[i] \div 16],
                         overlaps |-> [i \in DOMAIN o |-> o[i] \div 16]]
  <2> DEFINE pixels == [count |-> c, length |-> l, starts |-> s, overlaps |-> o]
             ls == l \div 16
             ss == [i \in DOMAIN s |-> s[i] \div 16]
             os == [i \in DOMAIN o |-> o[i] \div 16]
  <2>1. pixels.length = l /\ pixels.starts = s /\ pixels.overlaps = o
    OBVIOUS
  <2>2. InLatents(pixels) =
          [pixels EXCEPT !.length = pixels.length \div 16,
                         !.starts = [i \in DOMAIN pixels.starts |-> pixels.starts[i] \div 16],
                         !.overlaps = [i \in DOMAIN pixels.overlaps |-> pixels.overlaps[i] \div 16]]
    BY DEF InLatents, SPATIAL_RATIO
  <2>3. InLatents(pixels) = [pixels EXCEPT !.length = ls, !.starts = ss, !.overlaps = os]
    <3> HIDE DEF pixels
    <3> QED BY <2>1, <2>2
  <2>4. InLatents(pixels) = [count |-> c, length |-> ls, starts |-> ss, overlaps |-> os]
    <3> HIDE DEF ls, ss, os
    <3> QED BY <2>3
  <2> QED BY <1>1, <2>4
<1> QED BY <1>2 DEF c, l, s, o

\* An axis whose tiles and overlaps are those of AxisFacts, scaled, covers the extent.
LEMMA CoversScaled ==
  ASSUME NEW r \in {1, 16}, NEW a \in Nat, NEW b \in Nat, NEW axis,
         axis.count \in Nat, axis.count >= 2, axis.length = r * a,
         NEW z \in [0..axis.count - 1 -> Int], NEW y \in [0..axis.count - 2 -> Nat],
         \A i \in 0..axis.count - 1 : axis.starts[i] = r * z[i],
         \A i \in 0..axis.count - 2 :
           axis.overlaps[i] = r * y[i] /\ y[i] < a /\ z[i + 1] = z[i] + a - y[i],
         z[0] = 0, z[axis.count - 1] + a = b
  PROVE  Covers(axis, r * b)
<1> DEFINE n == axis.count
<1>1. axis.starts[0] = 0
  BY DEF Covers
<1>2. Full(axis) = r * b
  <2>1. n - 1 \in 0..n - 1
    OBVIOUS
  <2>2. axis.starts[n - 1] = r * z[n - 1] /\ z[n - 1] \in Int
    BY <2>1
  <2> DEFINE final == z[n - 1]
  <2>3. Full(axis) = r * final + r * a /\ final \in Int /\ final + a = b
    BY <2>2 DEF Full
  <2> HIDE DEF final
  <2> QED BY <2>3
<1>3. ASSUME NEW i \in 0..n - 2
      PROVE  /\ axis.starts[i + 1] = axis.starts[i] + keep(axis, i) /\ keep(axis, i) > 0
             /\ axis.starts[i + 1] = axis.starts[i] + axis.length - overlap(axis, i + 1)
  <2>1. i \in 0..n - 1 /\ i + 1 \in 0..n - 1 /\ i + 1 - 1 = i /\ i + 1 < n /\ i + 1 > 0
    <3>1. n \in Nat
      OBVIOUS
    <3> HIDE DEF n
    <3> QED BY <3>1
  <2>2. keep(axis, i) = r * a - r * y[i]
    BY <2>1 DEF keep
  <2>3. overlap(axis, i + 1) = r * y[i]
    BY <2>1 DEF overlap
  <2>4. axis.starts[i] = r * z[i] /\ axis.starts[i + 1] = r * z[i + 1]
    BY <2>1
  <2>5. z[i] \in Int /\ y[i] \in Nat /\ y[i] < a /\ z[i + 1] = z[i] + a - y[i]
    BY <2>1
  <2> DEFINE here == z[i]
             shared == y[i]
  <2>6. /\ axis.starts[i] = r * here /\ axis.starts[i + 1] = r * (here + a - shared)
        /\ keep(axis, i) = r * a - r * shared /\ overlap(axis, i + 1) = r * shared
        /\ here \in Int /\ shared \in Nat /\ shared < a
    BY <2>2, <2>3, <2>4, <2>5
  <2> HIDE DEF here, shared
  <2>7. CASE r = 1
    BY SMTT(30), <2>6, <2>7
  <2>8. CASE r = 16
    BY <2>6, <2>8
  <2> QED BY <2>7, <2>8
<1> QED BY <1>1, <1>2, <1>3 DEF Covers

\* The tiles cover an extent of whole latents, in pixels and in latents.
LEMMA AxisCovers ==
  ASSUME NEW a \in Nat, a > 4, NEW b \in Nat, b >= 1
  PROVE  /\ Covers(tile_axis_build(16 * b, 16 * a), 16 * b)
         /\ Covers(InLatents(tile_axis_build(16 * b, 16 * a)), b)
<1> DEFINE axis == tile_axis_build(16 * b, 16 * a)
           latents == InLatents(axis)
<1>1. CASE b <= a
  <2>1. tile_count_for_extent(16 * b, 16 * a) = 1
    BY <1>1 DEF tile_count_for_extent
  <2>2. /\ axis.count = 1 /\ axis.length = 16 * b /\ axis.starts[0] = 0
        /\ DOMAIN axis.starts = 0..0
        /\ axis = [count |-> axis.count, length |-> axis.length,
                   starts |-> axis.starts, overlaps |-> axis.overlaps]
    <3> DEFINE extent == 16 * b
               tile == 16 * a
    <3>1. extent \in Nat /\ tile \in Nat
      OBVIOUS
    <3>2. /\ tile_count_for_extent(extent, tile) = 1 /\ axis = tile_axis_build(extent, tile)
          /\ tile_count_for_extent(extent, tile) \in Nat \ {0}
      BY <2>1
    <3> HIDE DEF extent, tile, axis
    <3>3. /\ axis.count = tile_count_for_extent(extent, tile)
          /\ axis.length = IF axis.count = 1 THEN extent ELSE tile
          /\ axis.overlaps = [i \in 0..axis.count - 2 |-> spread_overlap(extent, tile, axis.count, i)]
          /\ DOMAIN axis.starts = 0..axis.count - 1
          /\ axis.starts[0] = 0
          /\ \A i \in 1..axis.count - 1 :
               axis.starts[i] = axis.starts[i - 1] + tile - axis.overlaps[i - 1]
          /\ axis = [count |-> axis.count, length |-> axis.length,
                     starts |-> axis.starts, overlaps |-> axis.overlaps]
      BY <3>1, <3>2, StartsAre
    <3> QED BY <3>2, <3>3 DEF extent
  <2> HIDE DEF axis
  <2>3. latents.count = 1 /\ latents.length = b /\ latents.starts[0] = 0
    <3>1. /\ latents.count = axis.count /\ latents.length = axis.length \div 16
          /\ latents.starts = [i \in DOMAIN axis.starts |-> axis.starts[i] \div 16]
      BY <2>2, LatentAxis
    <3> HIDE DEF latents
    <3>2. 0 \in DOMAIN axis.starts
      BY <2>2
    <3>3. latents.starts[0] = 0 \div 16
      BY <2>2, <3>1, <3>2
    <3> QED BY <2>2, <3>1, <3>3
  <2> HIDE DEF latents
  <2>4. \A i : i \notin 0..1 - 2
    OBVIOUS
  <2>5. Covers(axis, 16 * b)
    BY <2>2, <2>4 DEF Covers, Full
  <2>6. Covers(latents, b)
    BY <2>3, <2>4 DEF Covers, Full
  <2> QED BY <2>5, <2>6 DEF axis, latents
<1>2. CASE b > a
  <2>1. /\ axis.count \in Nat /\ axis.count >= 2
        /\ axis.length = 16 * a
        /\ DOMAIN axis.starts = 0..axis.count - 1
        /\ DOMAIN axis.overlaps = 0..axis.count - 2
        /\ \E z \in [0..axis.count - 1 -> Int], y \in [0..axis.count - 2 -> Nat] :
             /\ \A i \in 0..axis.count - 1 : axis.starts[i] = 16 * z[i]
             /\ \A i \in 0..axis.count - 2 :
                  /\ axis.overlaps[i] = 16 * y[i] /\ y[i] < a
                  /\ z[i + 1] = z[i] + a - y[i]
             /\ z[0] = 0 /\ z[axis.count - 1] + a = b
        /\ axis = [count |-> axis.count, length |-> axis.length,
                   starts |-> axis.starts, overlaps |-> axis.overlaps]
    BY <1>2, AxisFacts
  <2> HIDE DEF axis
  <2>2. PICK z \in [0..axis.count - 1 -> Int], y \in [0..axis.count - 2 -> Nat] :
             /\ \A i \in 0..axis.count - 1 : axis.starts[i] = 16 * z[i]
             /\ \A i \in 0..axis.count - 2 :
                  /\ axis.overlaps[i] = 16 * y[i] /\ y[i] < a
                  /\ z[i + 1] = z[i] + a - y[i]
             /\ z[0] = 0 /\ z[axis.count - 1] + a = b
    BY <2>1
  <2>3. Covers(axis, 16 * b)
    BY <2>1, <2>2, CoversScaled
  <2>4. /\ latents.count = axis.count /\ latents.length = 1 * a
        /\ \A i \in 0..axis.count - 1 : latents.starts[i] = 1 * z[i]
        /\ \A i \in 0..axis.count - 2 : latents.overlaps[i] = 1 * y[i]
    <3>1. /\ latents.count = axis.count
          /\ latents.length = axis.length \div 16
          /\ latents.starts = [i \in DOMAIN axis.starts |-> axis.starts[i] \div 16]
          /\ latents.overlaps = [i \in DOMAIN axis.overlaps |-> axis.overlaps[i] \div 16]
      BY <2>1, LatentAxis
    <3> HIDE DEF latents
    <3>2. latents.length = 1 * a
      BY <2>1, <3>1, SixteenToOne
    <3>3. ASSUME NEW i \in 0..axis.count - 1 PROVE latents.starts[i] = 1 * z[i]
      <4>1. latents.starts[i] = (16 * z[i]) \div 16 /\ z[i] \in Int
        BY <2>1, <2>2, <3>1
      <4> QED BY <4>1, SixteenToOne
    <3>4. ASSUME NEW i \in 0..axis.count - 2 PROVE latents.overlaps[i] = 1 * y[i]
      <4>1. latents.overlaps[i] = (16 * y[i]) \div 16 /\ y[i] \in Int
        BY <2>1, <2>2, <3>1
      <4> QED BY <4>1, SixteenToOne
    <3> QED BY <3>1, <3>2, <3>3, <3>4
  <2> HIDE DEF latents
  <2>5. Covers(latents, 1 * b)
    <3> DEFINE n == latents.count
    <3>1. /\ n \in Nat /\ n >= 2 /\ latents.length = 1 * a
          /\ z \in [0..n - 1 -> Int] /\ y \in [0..n - 2 -> Nat]
          /\ \A i \in 0..n - 1 : latents.starts[i] = 1 * z[i]
          /\ z[0] = 0 /\ z[n - 1] + a = b
      BY <2>1, <2>2, <2>4
    <3>2. \A i \in 0..n - 2 :
            latents.overlaps[i] = 1 * y[i] /\ y[i] < a /\ z[i + 1] = z[i] + a - y[i]
      BY <2>2, <2>4
    <3>3. 1 \in {1, 16} /\ a \in Nat /\ b \in Nat
      OBVIOUS
    <3> QED BY <3>1, <3>2, <3>3, CoversScaled
  <2> QED BY <2>3, <2>5 DEF axis, latents
<1> QED BY <1>1, <1>2

\* The size of a tile is one of the five: the least cost is the cost of one of them.
LEMMA ConfiguredIsASize ==
  ASSUME NEW b \in Nat \ {0}, NEW c \in Nat \ {0}
  PROVE  \E a \in 16..20 : configured_tile_pixels(16 * b, 16 * c) = 16 * a
<1> DEFINE sizes == {TILE_PIXELS + SPATIAL_RATIO * i : i \in 0..4}
           Count(d, tile) == tile_count_for_extent(16 * d, tile)
           score(tile) == Count(b, tile) * Count(c, tile) * tile * tile
           cheapest == {tile \in sizes : \A other \in sizes : score(tile) <= score(other)}
<1>1. \A tile \in sizes : \E a \in 16..20 : tile = 16 * a
  <2> SUFFICES ASSUME NEW i \in 0..4 PROVE \E a \in 16..20 : TILE_PIXELS + SPATIAL_RATIO * i = 16 * a
    OBVIOUS
  <2>1. 16 + i \in 16..20 /\ TILE_PIXELS + SPATIAL_RATIO * i = 16 * (16 + i)
    BY DEF TILE_PIXELS, SPATIAL_RATIO
  <2> QED BY <2>1
<1>2. ASSUME NEW tile \in sizes, NEW d \in Nat \ {0} PROVE Count(d, tile) \in Nat
  <2>1. PICK a \in 16..20 : tile = 16 * a
    BY <1>1
  <2>2. CASE d <= a
    BY <2>1, <2>2 DEF tile_count_for_extent
  <2>3. CASE d > a
    <3>1. a \in Nat /\ a > 4 /\ d \in Nat
      OBVIOUS
    <3>2. tile_count_for_extent(16 * d, 16 * a) \in Nat
      BY <2>3, <3>1, TileCountFacts
    <3> QED BY <2>1, <3>2
  <2> QED BY <2>2, <2>3
<1>3. 256 \in sizes
  <2>1. 0 \in 0..4 /\ TILE_PIXELS + SPATIAL_RATIO * 0 = 256
    BY DEF TILE_PIXELS, SPATIAL_RATIO
  <2> QED BY <2>1
<1>4. configured_tile_pixels(16 * b, 16 * c) = Min(cheapest)
  BY DEF configured_tile_pixels
<1> HIDE DEF Count
<1>5. \A tile \in sizes : tile \in Nat /\ score(tile) \in Nat
  <2> SUFFICES ASSUME NEW tile \in sizes PROVE tile \in Nat /\ score(tile) \in Nat
    OBVIOUS
  <2>1. tile \in Nat /\ Count(b, tile) \in Nat /\ Count(c, tile) \in Nat
    BY <1>1, <1>2
  <2>2. \A x, y \in Nat : x * y \in Nat
    OBVIOUS
  <2>3. Count(b, tile) * Count(c, tile) \in Nat
    BY <2>1, <2>2
  <2>4. Count(b, tile) * Count(c, tile) * tile \in Nat
    BY <2>1, <2>2, <2>3
  <2> QED BY <2>1, <2>2, <2>4
<1> HIDE DEF score, sizes
<1>6. cheapest # {}
  <2> DEFINE costs == {score(tile) : tile \in sizes}
  <2>1. costs \in SUBSET Nat /\ costs # {}
    BY <1>3, <1>5
  <2>2. PICK least \in costs : \A cost \in costs : least <= cost
    <3> HIDE DEF costs
    <3> QED BY <2>1, LeastNatural
  <2> QED BY <2>2
<1>7. cheapest \in SUBSET Nat /\ cheapest \subseteq sizes
  BY <1>5
<1> HIDE DEF cheapest
<1>8. Min(cheapest) \in sizes
  BY <1>6, <1>7, MinFacts
<1> QED BY <1>1, <1>4, <1>8 DEF sizes

\* The tiles cover the picture, whatever its height and width: in the decoder, whose
\* tiles are of the size that costs least, and in the encoder (tile_axis_build).
THEOREM TilesCoverPictures == DecodeSpec => []TilesCover
<1>1. FramesInv => TilesCover
  <2> SUFFICES ASSUME FramesInv PROVE TilesCover
    OBVIOUS
  <2>1. PICK b \in Nat \ {0} : clip.height = 16 * b
    <3>1. clip.height \in Nat /\ clip.height > 0 /\ clip.height % 16 = 0
      BY DEF FramesInv, Decodable, SPATIAL_RATIO
    <3>2. clip.height \div 16 \in Nat \ {0} /\ clip.height = 16 * (clip.height \div 16)
      BY <3>1
    <3> QED BY <3>2
  <2>2. PICK c \in Nat \ {0} : clip.width = 16 * c
    <3>1. clip.width \in Nat /\ clip.width > 0 /\ clip.width % 16 = 0
      BY DEF FramesInv, Decodable, SPATIAL_RATIO
    <3>2. clip.width \div 16 \in Nat \ {0} /\ clip.width = 16 * (clip.width \div 16)
      BY <3>1
    <3> QED BY <3>2
  <2>3. PICK a \in 16..20 : configured_tile_pixels(16 * b, 16 * c) = 16 * a
    BY ConfiguredIsASize
  <2>4. b \in Nat /\ b >= 1 /\ c \in Nat /\ c >= 1 /\ a \in Nat /\ a > 4 /\ 16 \in Nat /\ 16 > 4
    OBVIOUS
  <2>5. /\ Covers(tile_axis_build(16 * b, 16 * a), 16 * b)
        /\ Covers(tile_axis_build(16 * c, 16 * a), 16 * c)
        /\ Covers(InLatents(tile_axis_build(16 * b, 16 * 16)), b)
        /\ Covers(InLatents(tile_axis_build(16 * c, 16 * 16)), c)
    BY <2>4, AxisCovers
  <2>6. clip.height \div SPATIAL_RATIO = b /\ clip.width \div SPATIAL_RATIO = c
    BY <2>1, <2>2, SixteenToOne DEF SPATIAL_RATIO
  <2>7. /\ DecoderAxes(clip) = << tile_axis_build(16 * b, 16 * a), tile_axis_build(16 * c, 16 * a) >>
        /\ EncoderAxes(clip) = << InLatents(tile_axis_build(16 * b, 256)), InLatents(tile_axis_build(16 * c, 256)) >>
    BY <2>1, <2>2, <2>3 DEF DecoderAxes, EncoderAxes, TILE_PIXELS
  <2>8. 16 * 16 = 256
    OBVIOUS
  <2>9. /\ Covers(InLatents(tile_axis_build(16 * b, 256)), b)
        /\ Covers(InLatents(tile_axis_build(16 * c, 256)), c)
    BY <2>5, <2>8
  <2>10. /\ Covers(DecoderAxes(clip)[1], clip.height) /\ Covers(DecoderAxes(clip)[2], clip.width)
         /\ Covers(EncoderAxes(clip)[1], clip.height \div SPATIAL_RATIO)
         /\ Covers(EncoderAxes(clip)[2], clip.width \div SPATIAL_RATIO)
    BY <2>1, <2>2, <2>5, <2>6, <2>7, <2>9
  <2> QED BY <2>10 DEF TilesCover
<1> QED BY <1>1, FramesInvariance, PTL

(***************************************************************************)
(* The time a clip takes.                                                  *)
(***************************************************************************)

\* What a set of tokens lasts: twenty each, and fifteen less for every fifth.
Lasts(S) == 20 * Cardinality(S) - 15 * Cardinality({i \in S : i % 5 = 0})

\* One more token.
LEMMA OneMore ==
  ASSUME NEW S, IsFiniteSet(S), S \subseteq Nat, NEW x \in S
  PROVE  /\ IsFiniteSet(S \ {x}) /\ Cardinality(S \ {x}) + 1 = Cardinality(S)
         /\ Cardinality(S \ {x}) \in Nat /\ Lasts(S \ {x}) \in Int
         /\ Lasts(S) = Lasts(S \ {x}) + TokenSpan(x)
<1> DEFINE fifths(T) == {i \in T : i % 5 = 0}
<1>1. /\ IsFiniteSet(S \ {x}) /\ Cardinality(S \ {x}) = Cardinality(S) - 1
      /\ Cardinality(S) \in Nat /\ Cardinality(S \ {x}) \in Nat
  BY FS_RemoveElement, FS_CardinalityType
<1>2. /\ IsFiniteSet(fifths(S)) /\ Cardinality(fifths(S)) \in Nat
      /\ IsFiniteSet(fifths(S \ {x})) /\ Cardinality(fifths(S \ {x})) \in Nat
  BY <1>1, FS_Subset, FS_CardinalityType
<1>0. Lasts(S) = 20 * Cardinality(S) - 15 * Cardinality(fifths(S))
      /\ Lasts(S \ {x}) = 20 * Cardinality(S \ {x}) - 15 * Cardinality(fifths(S \ {x}))
  BY DEF Lasts
<1>3. CASE x % 5 = 0
  <2>1. fifths(S \ {x}) = fifths(S) \ {x} /\ x \in fifths(S)
    BY <1>3
  <2>2. Cardinality(fifths(S \ {x})) = Cardinality(fifths(S)) - 1
    <3> HIDE DEF fifths
    <3> QED BY <1>2, <2>1, FS_RemoveElement
  <2>3. TokenSpan(x) = 5
    BY <1>3 DEF TokenSpan
  <2> HIDE DEF fifths
  <2> QED BY <1>0, <1>1, <1>2, <2>2, <2>3
<1>4. CASE x % 5 # 0
  <2>1. fifths(S \ {x}) = fifths(S)
    BY <1>4
  <2>2. TokenSpan(x) = 20
    BY <1>4 DEF TokenSpan
  <2> HIDE DEF fifths
  <2> QED BY <1>0, <1>1, <1>2, <2>1, <2>2
<1> QED BY <1>3, <1>4

\* The fold adds the tokens up, in whatever order.
LEMMA SpanLasts ==
  ASSUME NEW n \in Nat
  PROVE  h3_video_span_sum(n) = Lasts(0..n - 1)
<1> DEFINE D == 0..n - 1
           Folds(it) == it = [s \in SUBSET D |->
                                IF s = {} THEN 0
                                ELSE it[s \ {CHOOSE x \in s : TRUE}] + TokenSpan(CHOOSE x \in s : TRUE)]
           iter == CHOOSE it : Folds(it)
<1>1. h3_video_span_sum(n) = iter[D]
  BY DEF h3_video_span_sum, FoldSet, MapThenFoldSet
<1> DEFINE first(s) == CHOOSE x \in s : TRUE
<1>2. IsFiniteSet(D) /\ D \subseteq Nat
  BY FS_Interval
<1>3. \A s \in SUBSET D : IsFiniteSet(s) /\ s \subseteq Nat /\ Cardinality(s) \in Nat
  BY <1>2, FS_Subset, FS_CardinalityType
<1>4. \A s \in SUBSET D : s # {} => first(s) \in s
  OBVIOUS
<1> HIDE DEF first
<1>5. Lasts({}) = 0
  <2>1. {i \in {} : i % 5 = 0} = {}
    OBVIOUS
  <2> QED BY <2>1, FS_EmptySet DEF Lasts
<1>6. \E it : Folds(it)
  <2> DEFINE it == [s \in SUBSET D |-> Lasts(s)]
  <2>1. \A s \in SUBSET D : it[s] = IF s = {} THEN 0 ELSE it[s \ {first(s)}] + TokenSpan(first(s))
    <3> SUFFICES ASSUME NEW s \in SUBSET D
                 PROVE  it[s] = IF s = {} THEN 0 ELSE it[s \ {first(s)}] + TokenSpan(first(s))
      OBVIOUS
    <3>1. CASE s = {}
      BY <1>5, <3>1
    <3>2. CASE s # {}
      <4>1. first(s) \in s /\ s \ {first(s)} \in SUBSET D
        BY <1>4, <3>2
      <4>2. Lasts(s) = Lasts(s \ {first(s)}) + TokenSpan(first(s))
        BY <1>3, <4>1, OneMore
      <4> QED BY <3>2, <4>1, <4>2
    <3> QED BY <3>1, <3>2
  <2>2. it = [s \in SUBSET D |-> it[s]]
    OBVIOUS
  <2> HIDE DEF it
  <2>3. Folds(it)
    BY <2>1, <2>2 DEF first
  <2> HIDE DEF Folds
  <2> QED BY <2>3
<1>7. Folds(iter)
  <2> HIDE DEF Folds
  <2> QED BY <1>6
<1>8. \A s \in SUBSET D : iter[s] = IF s = {} THEN 0 ELSE iter[s \ {first(s)}] + TokenSpan(first(s))
  <2> HIDE DEF iter
  <2> QED BY <1>7 DEF first
<1> HIDE DEF iter, Folds
<1>9. \A s \in SUBSET D : iter[s] = Lasts(s)
  <2> DEFINE Bad == {s \in SUBSET D : iter[s] # Lasts(s)}
             sizes == {Cardinality(s) : s \in Bad}
  <2>1. SUFFICES ASSUME Bad # {} PROVE FALSE
    OBVIOUS
  <2>2. sizes \in SUBSET Nat /\ sizes # {}
    BY <1>3, <2>1
  <2>3. PICK m \in sizes : \A k \in sizes : m <= k
    <3> HIDE DEF sizes
    <3> QED BY <2>2, LeastNatural
  <2>4. PICK s \in Bad : m = Cardinality(s)
    BY <2>3
  <2>5. s # {}
    BY <1>5, <1>8
  <2>6. first(s) \in s /\ s \ {first(s)} \in SUBSET D
    BY <1>4, <2>5
  <2>7. /\ Cardinality(s \ {first(s)}) + 1 = m /\ Cardinality(s \ {first(s)}) \in Nat
        /\ Lasts(s) = Lasts(s \ {first(s)}) + TokenSpan(first(s))
    BY <1>3, <2>4, <2>6, OneMore
  <2>8. s \ {first(s)} \notin Bad
    <3>1. ASSUME s \ {first(s)} \in Bad PROVE FALSE
      <4>1. Cardinality(s \ {first(s)}) \in sizes
        BY <3>1
      <4> HIDE DEF sizes
      <4> QED BY <2>2, <2>3, <2>7, <4>1
    <3> QED BY <3>1
  <2>9. iter[s] = Lasts(s)
    BY <1>8, <2>5, <2>6, <2>7, <2>8
  <2> QED BY <2>9
<1>10. D \in SUBSET D
  OBVIOUS
<1> QED BY <1>1, <1>9, <1>10

\* The time of n latents of a clip.
LEMMA SpanIs ==
  ASSUME NEW n \in Nat
  PROVE  h3_video_span_sum(n) = 20 * n - 15 * ((n + 4) \div 5) /\ h3_video_span_sum(n) \in Nat
<1> DEFINE Fifths(m) == {i \in 0..m - 1 : i % 5 = 0}
           Good == {m \in Nat : Cardinality(Fifths(m)) = (m + 4) \div 5}
<1>1. 0 \in Good
  <2>1. Fifths(0) = {}
    OBVIOUS
  <2> QED BY <2>1, FS_EmptySet
<1>2. ASSUME NEW m \in 0..n, m \in Good PROVE m + 1 \in Good
  <2>1. m \in Nat /\ Cardinality(Fifths(m)) = (m + 4) \div 5 /\ m + 1 - 1 = m
    BY <1>2
  <2>2. IsFiniteSet(Fifths(m)) /\ m \notin Fifths(m)
    <3>1. IsFiniteSet(0..m - 1) /\ Fifths(m) \in SUBSET (0..m - 1)
      BY <2>1, FS_Interval
    <3> QED BY <3>1, FS_Subset
  <2>3. CASE m % 5 = 0
    <3>1. Fifths(m + 1) = Fifths(m) \cup {m}
      BY <2>1, <2>3
    <3>2. Cardinality(Fifths(m + 1)) = Cardinality(Fifths(m)) + 1
      <4> HIDE DEF Fifths
      <4> QED BY <2>2, <3>1, FS_AddElement
    <3>3. (m + 1 + 4) \div 5 = (m + 4) \div 5 + 1
      BY <2>1, <2>3
    <3> HIDE DEF Fifths
    <3> QED BY <2>1, <3>2, <3>3
  <2>4. CASE m % 5 # 0
    <3>1. Fifths(m + 1) = Fifths(m)
      BY <2>1, <2>4
    <3>2. (m + 1 + 4) \div 5 = (m + 4) \div 5
      BY <2>1, <2>4
    <3> HIDE DEF Fifths
    <3> QED BY <2>1, <3>1, <3>2
  <2> QED BY <2>3, <2>4
<1>3. n \in Good
  <2>1. n \in 0..n /\ 0 \in Nat
    OBVIOUS
  <2> HIDE DEF Good
  <2> QED BY <1>1, <1>2, <2>1, Ascends
<1>4. Cardinality(0..n - 1) = n
  BY FS_Interval
<1>5. h3_video_span_sum(n) = 20 * n - 15 * ((n + 4) \div 5)
  BY <1>3, <1>4, SpanLasts DEF Lasts
<1> QED BY <1>5

\* The frames of a clip are whole chunks and five more, and their latents those of the
\* chunks and two more, which last as long as the frames; the sound is as long but for a
\* third of a latent.
LEMMA ClipTimes ==
  ASSUME NEW f \in Int
  PROVE  LET temporal == h3_temporal(f)
             frames == h3_align_frame_count(f)
         IN \E k \in Nat :
              /\ frames = 17 * k + 5 /\ temporal.frame_count = frames
              /\ temporal.video_t = 5 * k + 2
              /\ h3_video_span_sum(temporal.video_t) = 5 * frames
              /\ temporal.audio_t \in Nat \ {0}
              /\ 3 * temporal.audio_t - 5 * frames \in -1..1
<1> DEFINE frames == h3_align_frame_count(f)
           k == (frames - 5) \div 17
<1>1. frames \in Nat /\ frames >= 5 /\ (frames - 5) % 17 = 0
  BY DEF h3_align_frame_count
<1> HIDE DEF frames
<1>2. k \in Nat /\ frames = 17 * k + 5
  BY <1>1
<1>3. h3_video_latent_t(frames) = 5 * k + 2
  BY <1>1, <1>2 DEF h3_video_latent_t
<1>4. h3_video_span_sum(5 * k + 2) = 5 * frames
  <2> DEFINE n == 5 * k + 2
  <2>1. n \in Nat
    BY <1>2
  <2>2. h3_video_span_sum(n) = 20 * n - 15 * ((n + 4) \div 5)
    <3> HIDE DEF n
    <3> QED BY <2>1, SpanIs
  <2> HIDE DEF k
  <2>3. (n + 4) \div 5 = k + 1
    BY <1>2
  <2> QED BY <1>2, <2>2, <2>3
<1> DEFINE audio == (10 * frames + 3) \div 6
<1>5. audio \in Nat \ {0} /\ 3 * audio - 5 * frames \in -1..1
  BY <1>1
<1>6. /\ h3_temporal(f).frame_count = frames /\ h3_temporal(f).video_t = h3_video_latent_t(frames)
      /\ h3_temporal(f).audio_t = audio
  BY DEF h3_temporal, frames
<1> HIDE DEF k, audio
<1> QED BY <1>2, <1>3, <1>4, <1>5, <1>6 DEF frames

(***************************************************************************)
(* Pictures, clips and sounds of a request.                                *)
(***************************************************************************)

\* The latents of a canvas are even, and a frame of them has a row for four.
LEMMA CanvasLatents ==
  ASSUME NEW width \in Int, width > 0, width % 32 = 0,
         NEW height \in Int, height > 0, height % 32 = 0
  PROVE  LET latent == Latent(width, height)
         IN /\ latent = << latent[1], latent[2] >>
            /\ \A i \in 1..2 : latent[i] \in Nat /\ latent[i] >= 2 /\ latent[i] % 2 = 0
            /\ frame_rows(latent) \in Nat
            /\ \A t \in Nat : /\ (t * latent[1] * latent[2]) \div 4 = t * frame_rows(latent)
                              /\ t * frame_rows(latent) \in Nat
            /\ (latent[1] * latent[2]) \div 4 = frame_rows(latent)
<1> DEFINE p == height \div 32
           q == width \div 32
<1>1. p \in Nat \ {0} /\ q \in Nat \ {0} /\ height = 32 * p /\ width = 32 * q
  OBVIOUS
<1> HIDE DEF p, q
<1>2. Latent(width, height) = << 2 * p, 2 * q >>
  BY <1>1 DEF Latent, H3_VAE_SPATIAL_RATIO
<1>3. frame_rows(<< 2 * p, 2 * q >>) = p * q
  <2>1. (2 * p) \div 2 = p /\ (2 * q) \div 2 = q
    BY <1>1
  <2> QED BY <2>1 DEF frame_rows
<1> DEFINE area == p * q
<1>4. area \in Nat
  BY <1>1
<1>5. (2 * p) * (2 * q) = 4 * area
  BY <1>1
<1>6. ASSUME NEW t \in Nat
      PROVE  (t * (2 * p) * (2 * q)) \div 4 = t * area /\ t * area \in Nat
  <2> DEFINE all == t * area
  <2>1. t * (2 * p) * (2 * q) = 4 * all
    BY <1>1
  <2>2. all \in Nat
    <3> HIDE DEF area
    <3> QED BY <1>4
  <2> HIDE DEF all
  <2>3. (4 * all) \div 4 = all
    BY <2>2
  <2> QED BY <2>1, <2>2, <2>3 DEF all
<1>7. ((2 * p) * (2 * q)) \div 4 = area
  <2> HIDE DEF area
  <2>1. (4 * area) \div 4 = area
    BY <1>4
  <2> QED BY <1>5, <2>1
<1>8. \A i \in 1..2 : << 2 * p, 2 * q >>[i] \in Nat /\ << 2 * p, 2 * q >>[i] >= 2 /\ << 2 * p, 2 * q >>[i] % 2 = 0
  <2>1. 2 * p \in Nat /\ 2 * p >= 2 /\ (2 * p) % 2 = 0 /\ 2 * q \in Nat /\ 2 * q >= 2 /\ (2 * q) % 2 = 0
    BY <1>1
  <2> DEFINE h == 2 * p
             w == 2 * q
  <2> HIDE DEF h, w
  <2>2. \A i \in 1..2 : << h, w >>[i] = h \/ << h, w >>[i] = w
    OBVIOUS
  <2> QED BY <2>1, <2>2 DEF h, w
<1>9. << 2 * p, 2 * q >>[1] = 2 * p /\ << 2 * p, 2 * q >>[2] = 2 * q
  OBVIOUS
<1> HIDE DEF area
<1>10. frame_rows(<< 2 * p, 2 * q >>) = area
  BY <1>3 DEF area
<1> QED BY <1>2, <1>4, <1>6, <1>7, <1>8, <1>9, <1>10

\* The maximum that FiniteSetsExt chooses of a bounded set.
LEMMA MaxFacts ==
  ASSUME NEW n \in Nat, NEW T \in SUBSET (0..n), T # {}
  PROVE  Max(T) \in T /\ \A i \in T : Max(T) >= i
<1> DEFINE U == {n - i : i \in T}
<1>1. U \in SUBSET Nat /\ U # {}
  OBVIOUS
<1>2. PICK m \in U : \A u \in U : m <= u
  <2> HIDE DEF U
  <2> QED BY <1>1, LeastNatural
<1>3. PICK x \in T : m = n - x
  BY <1>2
<1>4. ASSUME NEW i \in T PROVE x >= i
  <2>1. n - i \in U
    OBVIOUS
  <2>2. n - x <= n - i
    BY <1>2, <1>3, <2>1
  <2>3. x \in Int /\ i \in Int
    OBVIOUS
  <2> QED BY <2>2, <2>3
<1>5. \E y \in T : \A i \in T : y >= i
  BY <1>4
<1> QED BY <1>5 DEF Max

\* At least five frames of a clip are kept.
LEMMA CutFacts ==
  ASSUME NEW n \in Nat, n >= 5
  PROVE  CutFrames(n) \in Nat /\ CutFrames(n) >= 5
<1> DEFINE kept == {m \in 5..n : m % 17 = 5}
<1>1. kept \in SUBSET (0..n) /\ 5 \in kept
  OBVIOUS
<1>2. Max(kept) \in kept
  <2> HIDE DEF kept
  <2> QED BY <1>1, MaxFacts
<1> QED BY <1>2 DEF CutFrames

(***************************************************************************)
(* A fold over a sequence of n takes its items in turn.  F is the table of *)
(* what is made of a value and the next item.                              *)
(***************************************************************************)

\* The first i numbers: their maximum, and those before it.
LEMMA Initial ==
  ASSUME NEW i \in Nat
  PROVE  Max(1..(i + 1)) = i + 1 /\ (1..(i + 1)) \ {i + 1} = 1..i /\ 1..(i + 1) # {}
<1> DEFINE S == 1..(i + 1)
<1>1. i + 1 \in S /\ S \in SUBSET (0..(i + 1)) /\ S # {} /\ i + 1 \in Nat
  OBVIOUS
<1>2. Max(S) \in S /\ \A x \in S : Max(S) >= x
  <2> HIDE DEF S
  <2> QED BY <1>1, MaxFacts
<1>3. Max(S) = i + 1
  <2>1. \A x \in S : x >= i + 1 => x = i + 1
    OBVIOUS
  <2> HIDE DEF S
  <2> QED BY <1>1, <1>2, <2>1
<1> QED BY <1>1, <1>3

\* A function that is folded over n items, among the values.
Folded(it, n, values, base, F) ==
  /\ it \in [SUBSET (1..n) -> values]
  /\ \A s \in SUBSET (1..n) : it[s] = IF s = {} THEN base ELSE F[<< it[s \ {Max(s)}], Max(s) >>]

\* A function that is folded wherever it has one of the values.
FoldedAmong(it, n, values, base, F) ==
  /\ it[{}] = base
  /\ \A s \in SUBSET (1..n) : s # {} /\ it[s \ {Max(s)}] \in values =>
                                it[s] = F[<< it[s \ {Max(s)}], Max(s) >>]

\* The values of the items taken in turn.
Takes(acc, n, values, base, F, result) ==
  /\ acc \in [0..n -> values] /\ acc[0] = base /\ acc[n] = result
  /\ \A i \in 0..n - 1 : acc[i + 1] = F[<< acc[i], i + 1 >>]

\* The function a fold chooses exists.
LEMMA FoldsExist ==
  ASSUME NEW n \in Nat, NEW V, NEW base \in V, NEW F \in [V \X (1..n) -> V]
  PROVE  \E it : Folded(it, n, V, base, F)
<1> DEFINE D == 1..n
           Step(it, s) == IF s = {} THEN base ELSE F[<< it[s \ {Max(s)}], Max(s) >>]
           Good == {m \in Nat : \E it \in [SUBSET D -> V] :
                                  \A s \in SUBSET D : Cardinality(s) <= m => it[s] = Step(it, s)}
<1>1. /\ IsFiniteSet(D) /\ Cardinality(D) = n
      /\ \A s \in SUBSET D : IsFiniteSet(s) /\ Cardinality(s) \in Nat /\ Cardinality(s) <= n
  <2>1. IsFiniteSet(D) /\ Cardinality(D) = n
    BY FS_Interval
  <2> HIDE DEF D
  <2> QED BY <2>1, FS_Subset, FS_CardinalityType
<1>2. \A s \in SUBSET D : s # {} => /\ Max(s) \in s /\ Max(s) \in D /\ s \ {Max(s)} \in SUBSET D
                                    /\ Cardinality(s \ {Max(s)}) = Cardinality(s) - 1
  <2> SUFFICES ASSUME NEW s \in SUBSET D, s # {}
               PROVE  /\ Max(s) \in s /\ Max(s) \in D /\ s \ {Max(s)} \in SUBSET D
                      /\ Cardinality(s \ {Max(s)}) = Cardinality(s) - 1
    OBVIOUS
  <2>1. s \in SUBSET (0..n)
    OBVIOUS
  <2>2. Max(s) \in s
    <3> HIDE DEF D
    <3> QED BY <2>1, MaxFacts
  <2>3. Cardinality(s \ {Max(s)}) = Cardinality(s) - 1
    <3> HIDE DEF D
    <3> QED BY <1>1, <2>2, FS_RemoveElement
  <2> QED BY <2>2, <2>3
<1>3. \A s \in SUBSET D : Cardinality(s) <= 0 => s = {}
  <2> SUFFICES ASSUME NEW s \in SUBSET D, Cardinality(s) <= 0 PROVE s = {}
    OBVIOUS
  <2>1. Cardinality(s) = 0
    BY <1>1
  <2> QED BY <1>1, <2>1, FS_EmptySet
<1> HIDE DEF D
<1>4. 0 \in Good
  <2> DEFINE it == [s \in SUBSET D |-> base]
  <2>1. it \in [SUBSET D -> V] /\ \A s \in SUBSET D : Cardinality(s) <= 0 => it[s] = Step(it, s)
    BY <1>3
  <2> QED BY <2>1
<1>5. ASSUME NEW m \in 0..n, m \in Good PROVE m + 1 \in Good
  <2>1. PICK f \in [SUBSET D -> V] : \A s \in SUBSET D : Cardinality(s) <= m => f[s] = Step(f, s)
    BY <1>5
  <2> DEFINE g == [s \in SUBSET D |-> IF Cardinality(s) = m + 1 THEN Step(f, s) ELSE f[s]]
  <2>2. \A s \in SUBSET D : Step(f, s) \in V
    <3> SUFFICES ASSUME NEW s \in SUBSET D, s # {} PROVE F[<< f[s \ {Max(s)}], Max(s) >>] \in V
      OBVIOUS
    <3>1. Max(s) \in 1..n /\ f[s \ {Max(s)}] \in V
      BY <1>2 DEF D
    <3> QED BY <3>1
  <2>3. g \in [SUBSET D -> V]
    <3> HIDE DEF Step
    <3> QED BY <2>2
  <2>4. \A s \in SUBSET D : Cardinality(s) <= m + 1 => g[s] = Step(g, s)
    <3> SUFFICES ASSUME NEW s \in SUBSET D, Cardinality(s) <= m + 1 PROVE g[s] = Step(g, s)
      OBVIOUS
    <3>1. Cardinality(s) \in Nat /\ m \in Nat
      BY <1>1
    <3>2. Step(g, s) = Step(f, s)
      <4>1. CASE s = {}
        BY <4>1
      <4>2. CASE s # {}
        <5>1. s \ {Max(s)} \in SUBSET D /\ Cardinality(s \ {Max(s)}) # m + 1
          BY <1>2, <3>1, <4>2
        <5>2. g[s \ {Max(s)}] = f[s \ {Max(s)}]
          <6> HIDE DEF Step
          <6> QED BY <5>1
        <5> HIDE DEF g
        <5> QED BY <5>2
      <4> QED BY <4>1, <4>2
    <3>3. g[s] = Step(f, s)
      <4> HIDE DEF Step
      <4>1. CASE Cardinality(s) = m + 1
        BY <4>1
      <4>2. CASE Cardinality(s) # m + 1
        <5>1. Cardinality(s) <= m
          BY <3>1, <4>2
        <5> QED BY <2>1, <4>2, <5>1
      <4> QED BY <4>1, <4>2
    <3> QED BY <3>2, <3>3
  <2>5. m + 1 \in Nat
    OBVIOUS
  <2> HIDE DEF g, Step
  <2> QED BY <2>3, <2>4, <2>5
<1>6. n \in Good
  <2>1. n \in 0..n /\ 0 \in Nat
    OBVIOUS
  <2> HIDE DEF Good
  <2> QED BY <1>4, <1>5, <2>1, Ascends
<1>7. PICK it \in [SUBSET D -> V] : \A s \in SUBSET D : Cardinality(s) <= n => it[s] = Step(it, s)
  BY <1>6
<1>8. \A s \in SUBSET D : it[s] = Step(it, s)
  <2> HIDE DEF Step
  <2> QED BY <1>1, <1>7
<1> QED BY <1>8 DEF D, Folded

\* A function that is folded, whatever it is where nothing is folded, gives the values
\* of the items taken in turn.
LEMMA FoldTakes ==
  ASSUME NEW n \in Nat, NEW V, NEW base \in V, NEW F \in [V \X (1..n) -> V], NEW it,
         FoldedAmong(it, n, V, base, F)
  PROVE  \E acc : Takes(acc, n, V, base, F, it[1..n])
<1> DEFINE Good == {i \in Nat : it[1..i] \in V}
<1>1. 0 \in Good
  <2>1. 1..0 = {}
    OBVIOUS
  <2> QED BY <2>1 DEF FoldedAmong
<1>2. ASSUME NEW i \in 0..n - 1, it[1..i] \in V
      PROVE  it[1..(i + 1)] = F[<< it[1..i], i + 1 >>] /\ it[1..(i + 1)] \in V
  <2>1. i \in Nat /\ i + 1 \in 1..n /\ 1..(i + 1) \in SUBSET (1..n)
    OBVIOUS
  <2>2. Max(1..(i + 1)) = i + 1 /\ (1..(i + 1)) \ {i + 1} = 1..i /\ 1..(i + 1) # {}
    BY <2>1, Initial
  <2> DEFINE s == 1..(i + 1)
             before == 1..i
  <2>3. s \in SUBSET (1..n) /\ s # {} /\ Max(s) = i + 1 /\ s \ {Max(s)} = before /\ it[before] \in V
    BY <1>2, <2>1, <2>2
  <2> HIDE DEF s, before
  <2>4. it[s] = F[<< it[before], i + 1 >>]
    BY <2>3 DEF FoldedAmong
  <2>5. F[<< it[before], i + 1 >>] \in V
    BY <2>1, <2>3
  <2> QED BY <2>4, <2>5 DEF s, before
<1>3. \A i \in 0..n : it[1..i] \in V
  <2>1. ASSUME NEW i \in 0..n, i \in Good, i < n PROVE i + 1 \in Good
    <3>1. i \in 0..n - 1 /\ it[1..i] \in V /\ i + 1 \in Nat
      BY <2>1
    <3> QED BY <1>2, <3>1
  <2>2. \A i \in 0..n : i \in Good
    <3> HIDE DEF Good
    <3> QED BY <1>1, <2>1, Ascends
  <2> QED BY <2>2
<1> DEFINE acc == [i \in 0..n |-> it[1..i]]
<1>4. acc \in [0..n -> V] /\ acc[n] = it[1..n]
  BY <1>3
<1>5. acc[0] = base
  <2>1. 1..0 = {}
    OBVIOUS
  <2> QED BY <2>1 DEF FoldedAmong
<1>6. ASSUME NEW i \in 0..n - 1 PROVE acc[i + 1] = F[<< acc[i], i + 1 >>]
  <2>1. i \in 0..n /\ i + 1 \in 0..n
    OBVIOUS
  <2>2. acc[i] = it[1..i] /\ acc[i + 1] = it[1..(i + 1)] /\ it[1..i] \in V
    BY <1>3, <2>1
  <2> HIDE DEF acc
  <2> QED BY <1>2, <2>2
<1> HIDE DEF acc
<1> QED BY <1>4, <1>5, <1>6 DEF Takes

(***************************************************************************)
(* What a reference adds to the layout.                                    *)
(***************************************************************************)
Kinds == {"text", "cond", "ref_audio", "ref_image", "audio", "video"}
Segments == [kind : Kinds, rows : Nat, from : Nat, until : Nat]

\* Of a clip five frames are needed.
Plannable(reference) == reference.kind # "audio" /\ reference.kind # "image" => reference.frames >= 5

\* The latents of a reference: of its pictures as many as the encoder packs.
LEMMA ReferenceFacts ==
  ASSUME NEW x \in References, Plannable(x)
  PROVE  LET latents == ReferenceLatents(x)
         IN /\ latents.t \in Nat /\ latents.audio_t \in Nat
            /\ (latents.t * latents.canvas[1] * latents.canvas[2]) \div 4 = latents.t * frame_rows(latents.canvas)
            /\ latents.t * frame_rows(latents.canvas) \in Nat
            /\ frame_rows(latents.canvas) \in Nat
            /\ x.kind = "image" => latents.t = 1 /\ latents.audio_t = 0
            /\ x.kind = "audio" => latents.t = 0
<1> DEFINE latents == ReferenceLatents(x)
<1>1. /\ x.kind \in {"image", "audio", "video", "silent_video", "video_audio"}
      /\ x.canvas \in Sides \X Sides /\ x.frames \in Nat /\ x.samples \in Nat
  BY DEF References
<1>2. /\ latents.t = IF x.kind = "audio" THEN 0
                     ELSE h3_video_encoder_latent_t(IF x.kind = "image" THEN 1 ELSE CutFrames(x.frames))
      /\ latents.canvas = Latent(x.canvas[1], x.canvas[2])
      /\ latents.audio_t = (SoundOf(x) + 800 - 1) \div 800
  BY DEF ReferenceLatents, HOP_LENGTH
<1> HIDE DEF latents
<1>3. x.kind # "audio" /\ x.kind # "image" => CutFrames(x.frames) \in Nat /\ CutFrames(x.frames) >= 5
  BY <1>1, CutFacts DEF Plannable
<1>4. latents.t \in Nat /\ (x.kind = "image" => latents.t = 1) /\ (x.kind = "audio" => latents.t = 0)
  <2>1. CASE x.kind = "audio"
    BY <1>2, <2>1
  <2>2. CASE x.kind = "image"
    <3>1. h3_video_encoder_latent_t(1) = 1
      BY DEF h3_video_encoder_latent_t
    <3> QED BY <1>2, <2>2, <3>1
  <2>3. CASE x.kind # "audio" /\ x.kind # "image"
    <3> DEFINE cut == CutFrames(x.frames)
    <3>1. cut \in Nat /\ cut >= 5
      BY <1>3, <2>3
    <3>2. latents.t = h3_video_encoder_latent_t(cut)
      BY <1>2, <2>3
    <3> HIDE DEF cut
    <3>3. h3_video_encoder_latent_t(cut) \in Nat
      BY <3>1 DEF h3_video_encoder_latent_t
    <3> QED BY <2>3, <3>2, <3>3
  <2> QED BY <2>1, <2>2, <2>3
<1>5. SoundOf(x) \in Nat /\ (x.kind = "image" => SoundOf(x) = 0)
  <2>1. CASE x.kind = "audio"
    BY <1>1, <2>1 DEF SoundOf
  <2>2. CASE x.kind \in {"video", "video_audio"}
    <3> DEFINE cut == CutFrames(x.frames)
               sounds == {x.samples, (cut * 4000 + 1) \div 3}
    <3>1. cut \in Nat
      BY <1>3, <2>2
    <3>2. SoundOf(x) = Min(sounds)
      BY <2>2 DEF SoundOf
    <3> HIDE DEF cut
    <3>3. sounds \in SUBSET Nat /\ sounds # {}
      BY <1>1, <3>1
    <3> HIDE DEF sounds
    <3>4. Min(sounds) \in Nat
      BY <3>3, MinFacts
    <3> QED BY <2>2, <3>2, <3>4
  <2>3. CASE x.kind \in {"image", "silent_video"}
    BY <2>3 DEF SoundOf
  <2> QED BY <1>1, <2>1, <2>2, <2>3
<1>6. latents.audio_t \in Nat /\ (x.kind = "image" => latents.audio_t = 0)
  <2> DEFINE sound == SoundOf(x)
  <2>1. sound \in Nat /\ latents.audio_t = (sound + 800 - 1) \div 800 /\ (x.kind = "image" => sound = 0)
    BY <1>2, <1>5
  <2> HIDE DEF sound
  <2> QED BY <2>1
<1>7. /\ x.canvas[1] \in Int /\ x.canvas[1] > 0 /\ x.canvas[1] % 32 = 0
      /\ x.canvas[2] \in Int /\ x.canvas[2] > 0 /\ x.canvas[2] % 32 = 0
  BY <1>1 DEF Sides, H3_CANVAS_MULTIPLE
<1>8. /\ frame_rows(latents.canvas) \in Nat
      /\ \A t \in Nat : /\ (t * latents.canvas[1] * latents.canvas[2]) \div 4 = t * frame_rows(latents.canvas)
                        /\ t * frame_rows(latents.canvas) \in Nat
  BY <1>2, <1>7, CanvasLatents
<1> QED BY <1>4, <1>6, <1>8 DEF latents

\* A reference adds its sound, its picture, or both at the same time, and neither
\* lasts longer than the cursor moves.
LEMMA ReferenceAdds ==
  ASSUME NEW x \in References, Plannable(x), NEW cursor \in Nat
  PROVE  LET latents == ReferenceLatents(x)
             added == ReferenceSegments(x, cursor)
             sound == Segment("ref_audio", 2 * latents.audio_t, cursor, cursor + 3 * latents.audio_t)
         IN /\ added.span \in Nat /\ sound \in Segments
            /\ \E seen \in Nat :
                 LET picture == Segment("ref_image", latents.t * frame_rows(latents.canvas), cursor, cursor + seen)
                 IN /\ picture \in Segments
                    /\ \/ added.segments = << >> /\ latents.audio_t = 0 /\ x.kind = "audio"
                       \/ added.segments = << sound >> /\ x.kind = "audio" /\ 3 * latents.audio_t <= added.span
                       \/ /\ added.segments = << picture >> /\ latents.audio_t = 0 /\ x.kind # "audio"
                          /\ seen <= added.span
                       \/ /\ added.segments = << sound >> \o << picture >> /\ x.kind # "audio"
                          /\ 3 * latents.audio_t <= added.span /\ seen <= added.span
<1> DEFINE latents == ReferenceLatents(x)
           added == ReferenceSegments(x, cursor)
           heard == 3 * latents.audio_t
           rows == latents.t * frame_rows(latents.canvas)
           sound == Segment("ref_audio", 2 * latents.audio_t, cursor, cursor + heard)
           picture(seen) == Segment("ref_image", rows, cursor, cursor + seen)
<1>1. /\ latents.t \in Nat /\ latents.audio_t \in Nat /\ rows \in Nat
      /\ frame_rows(latents.canvas) \in Nat
      /\ x.kind = "image" => latents.t = 1 /\ latents.audio_t = 0
  BY ReferenceFacts
<1> HIDE DEF latents
<1>2. heard \in Nat /\ 2 * latents.audio_t \in Nat
  BY <1>1
<1> HIDE DEF rows
<1>3. sound \in Segments /\ \A seen \in Nat : picture(seen) \in Segments
  BY <1>1, <1>2 DEF Segment, Segments, Kinds
<1>4. CASE x.kind = "image"
  <2>1. rows = frame_rows(latents.canvas)
    BY <1>1, <1>4 DEF rows
  <2>2. added = [segments |-> << Segment("ref_image", frame_rows(latents.canvas), cursor, cursor + 3) >>, span |-> 3]
    BY <1>4 DEF ReferenceSegments, latents
  <2>3. added.segments = << picture(3) >> /\ added.span = 3 /\ latents.audio_t = 0 /\ x.kind # "audio"
    BY <1>1, <1>4, <2>1, <2>2
  <2> HIDE DEF added, sound, picture
  <2> QED BY <1>3, <2>3 DEF latents, rows, added, sound, picture
<1>5. CASE x.kind = "audio"
  <2>1. added = [segments |-> IF latents.audio_t = 0 THEN << >> ELSE << sound >>, span |-> heard]
    BY <1>5 DEF ReferenceSegments, latents
  <2>2. added.segments = (IF latents.audio_t = 0 THEN << >> ELSE << sound >>) /\ added.span = heard
    BY <2>1
  <2>3. picture(0) \in Segments
    BY <1>3
  <2> HIDE DEF added, sound, picture
  <2> QED BY <1>2, <1>3, <1>5, <2>2, <2>3 DEF latents, rows, added, sound, picture
<1>6. CASE x.kind # "image" /\ x.kind # "audio"
  <2> DEFINE seen == h3_video_span_sum(latents.t)
             noise == IF latents.audio_t = 0 THEN << >> ELSE << sound >>
             spans == {heard, seen}
  <2>1. added = [segments |-> noise \o << picture(seen) >>, span |-> Max(spans)]
    BY <1>6 DEF ReferenceSegments, latents, rows
  <2>2. seen \in Nat
    BY <1>1, SpanIs
  <2> HIDE DEF seen
  <2>3. Max(spans) \in Nat /\ heard <= Max(spans) /\ seen <= Max(spans)
    <3> DEFINE n == heard + seen
    <3>1. n \in Nat /\ spans \in SUBSET (0..n) /\ spans # {} /\ heard \in spans /\ seen \in spans
      BY <1>2, <2>2
    <3> HIDE DEF n, spans, heard
    <3>2. Max(spans) \in spans /\ \A i \in spans : Max(spans) >= i
      BY <3>1, MaxFacts
    <3> DEFINE most == Max(spans)
    <3>3. most \in Nat /\ most >= heard /\ most >= seen
      <4> HIDE DEF most
      <4>1. most \in spans /\ \A i \in spans : most >= i
        BY <3>2 DEF most
      <4> QED BY <3>1, <4>1
    <3> HIDE DEF most
    <3>4. heard \in Int /\ seen \in Int
      BY <1>2, <2>2 DEF heard
    <3>5. most \in Nat /\ heard <= most /\ seen <= most
      BY <3>3, <3>4
    <3> QED BY <3>5 DEF most, heard
  <2> HIDE DEF spans
  <2>4. added.segments = noise \o << picture(seen) >> /\ added.span = Max(spans)
    BY <2>1
  <2>5. latents.audio_t = 0 => noise \o << picture(seen) >> = << picture(seen) >>
    OBVIOUS
  <2>6. latents.audio_t # 0 => noise \o << picture(seen) >> = << sound >> \o << picture(seen) >>
    OBVIOUS
  <2> HIDE DEF added, sound, picture, noise
  <2>7. /\ picture(seen) \in Segments /\ added.span \in Nat /\ heard <= added.span /\ seen <= added.span
        /\ \/ added.segments = << picture(seen) >> /\ latents.audio_t = 0
           \/ added.segments = << sound >> \o << picture(seen) >>
    BY <1>3, <2>2, <2>3, <2>4, <2>5, <2>6
  <2> QED BY <1>3, <1>6, <2>2, <2>7 DEF latents, rows, added, sound, picture
<1> QED BY <1>4, <1>5, <1>6

(***************************************************************************)
(* The rows of a layout.                                                   *)
(***************************************************************************)

\* The rows a segment counts for.
Counted(segment, kinds) == IF segment.kind \in kinds THEN segment.rows ELSE 0

\* The running totals of the first segments.
Totals(layout, first, kinds, total) ==
  /\ total \in [0..first -> Nat]
  /\ total[0] = 0 /\ Rows!RowsAmong(layout, first, kinds) = total[first]
  /\ \A i \in 1..first : total[i] = total[i - 1] + Counted(layout.segments[i], kinds)

\* The recursive function of RowsAmong satisfies its equation.
LEMMA TotalIs ==
  ASSUME NEW first \in Nat, NEW layout, NEW kinds,
         \A i \in 1..first : layout.segments[i] \in Segments
  PROVE  \E total : Totals(layout, first, kinds, total)
<1> DEFINE Adds(f, i) == f[i - 1] + Counted(layout.segments[i], kinds)
           Builds(f, m) == f = [i \in 0..m |-> IF i = 0 THEN 0 ELSE Adds(f, i)]
           total == CHOOSE f : Builds(f, first)
           Good == {m \in Nat : \E f \in [0..m -> Nat] : Builds(f, m)}
<1>0. Rows!RowsAmong(layout, first, kinds) = total[first]
  BY DEF Rows!RowsAmong, Counted
<1>1. \A i \in 1..first : Counted(layout.segments[i], kinds) \in Nat
  BY DEF Counted, Segments
<1>2. 0 \in Good
  <2>1. Builds([i \in 0..0 |-> 0], 0) /\ [i \in 0..0 |-> 0] \in [0..0 -> Nat]
    OBVIOUS
  <2> QED BY <2>1
<1>3. ASSUME NEW n \in 0..first, n \in Good, n < first PROVE n + 1 \in Good
  <2>1. PICK f \in [0..n -> Nat] : Builds(f, n)
    BY <1>3
  <2>2. n \in Nat /\ n + 1 \in 1..first
    BY <1>3
  <2> DEFINE last == f[n] + Counted(layout.segments[n + 1], kinds)
             g == [i \in 0..(n + 1) |-> IF i = n + 1 THEN last ELSE f[i]]
  <2>3. last \in Nat
    <3>1. f[n] \in Nat /\ Counted(layout.segments[n + 1], kinds) \in Nat
      BY <1>1, <2>2
    <3> QED BY <3>1
  <2> HIDE DEF last
  <2>4. g \in [0..(n + 1) -> Nat] /\ g[n + 1] = last /\ \A i \in 0..n : g[i] = f[i]
    BY <2>2, <2>3
  <2>5. \A i \in 0..n : f[i] = IF i = 0 THEN 0 ELSE Adds(f, i)
    <3> HIDE DEF Adds
    <3> QED BY <2>1
  <2>6. \A i \in 0..(n + 1) : g[i] = IF i = 0 THEN 0 ELSE Adds(g, i)
    <3> SUFFICES ASSUME NEW i \in 0..(n + 1) PROVE g[i] = IF i = 0 THEN 0 ELSE Adds(g, i)
      OBVIOUS
    <3> HIDE DEF g
    <3>1. CASE i = n + 1
      <4>1. i # 0 /\ i - 1 = n /\ n \in 0..n
        BY <2>2, <3>1
      <4> QED BY <2>4, <3>1, <4>1 DEF last
    <3>2. CASE i # n + 1
      <4>1. i \in 0..n /\ (i # 0 => i - 1 \in 0..n)
        BY <2>2, <3>2
      <4> QED BY <2>4, <2>5, <4>1
    <3> QED BY <3>1, <3>2
  <2>7. Builds(g, n + 1)
    <3>1. g = [i \in 0..(n + 1) |-> g[i]]
      OBVIOUS
    <3> HIDE DEF g, Adds
    <3> QED BY <2>6, <3>1
  <2> HIDE DEF g, Builds
  <2> QED BY <2>2, <2>4, <2>7
<1>4. first \in Good
  <2>1. first \in 0..first /\ 0 \in Nat
    OBVIOUS
  <2> HIDE DEF Good
  <2> QED BY <1>2, <1>3, <2>1, Ascends
<1>5. PICK h \in [0..first -> Nat] : Builds(h, first)
  BY <1>4
<1>6. Builds(total, first)
  <2> HIDE DEF Builds
  <2> QED BY <1>5
<1> HIDE DEF total
<1>7. total[0] = 0 /\ \A i \in 1..first : total[i] = Adds(total, i)
  <2>1. 0 \in 0..first /\ \A i \in 1..first : i \in 0..first /\ i # 0
    OBVIOUS
  <2> HIDE DEF Adds
  <2> QED BY <1>6, <2>1
<1>8. total \in [0..first -> Nat]
  <2> DEFINE Typed == {i \in 0..first : total[i] \in Nat}
  <2>1. 0 \in Typed
    BY <1>7
  <2>2. ASSUME NEW i \in 0..first, i \in Typed, i < first PROVE i + 1 \in Typed
    <3>1. i + 1 \in 1..first /\ i + 1 - 1 = i /\ i + 1 \in 0..first
      BY <2>2
    <3>2. total[i + 1] = total[i] + Counted(layout.segments[i + 1], kinds)
      BY <1>7, <3>1
    <3>3. total[i] \in Nat /\ Counted(layout.segments[i + 1], kinds) \in Nat
      BY <1>1, <2>2, <3>1
    <3> QED BY <3>1, <3>2, <3>3
  <2>3. \A i \in 0..first : i \in Typed
    <3>1. first \in Nat /\ 0 \in Nat
      OBVIOUS
    <3> HIDE DEF Typed
    <3> QED BY <2>1, <2>2, <3>1, Ascends
  <2>4. total = [i \in 0..first |-> total[i]]
    <3> HIDE DEF Adds
    <3> QED BY <1>6
  <2> QED BY <2>3, <2>4
<1> HIDE DEF Builds
<1>9. Totals(layout, first, kinds, total)
  BY <1>0, <1>7, <1>8 DEF Totals
<1> QED BY <1>9

\* A total is the one before it and one segment more.
LEMMA TotalsStep ==
  ASSUME NEW first \in Nat, NEW layout, NEW kinds, NEW total, Totals(layout, first, kinds, total),
         NEW i \in Nat, i < first
  PROVE  /\ total[i + 1] = total[i] + Counted(layout.segments[i + 1], kinds)
         /\ total[0] = 0 /\ total[i] \in Nat /\ total[first] \in Nat
         /\ Rows!RowsAmong(layout, first, kinds) = total[first]
<1> DEFINE u == i + 1
<1>1. u \in 1..first /\ u - 1 = i /\ i \in 0..first /\ first \in 0..first
  OBVIOUS
<1> HIDE DEF u
<1>2. total[u] = total[u - 1] + Counted(layout.segments[u], kinds)
  BY <1>1 DEF Totals
<1>3. total[i] \in Nat /\ total[first] \in Nat
  BY <1>1 DEF Totals
<1> QED BY <1>1, <1>2, <1>3 DEF Totals, u

\* Two layouts begin with the same segments.
Alike(l, m, first) ==
  \A i \in 1..first : m.segments[i] \in Segments /\ l.segments[i] = m.segments[i]

\* The rows of the first segments are those of the segments, whatever else the layout
\* has, and one more segment adds its own.
LEMMA RowsGrow ==
  ASSUME NEW first \in Nat, NEW kinds, NEW l, NEW m, Alike(l, m, first)
  PROVE  /\ Rows!RowsAmong(l, first, kinds) \in Nat
         /\ Rows!RowsAmong(l, first, kinds) = Rows!RowsAmong(m, first, kinds)
         /\ m.segments[first + 1] \in Segments =>
              Rows!RowsAmong(m, first + 1, kinds) =
                Rows!RowsAmong(l, first, kinds) + Counted(m.segments[first + 1], kinds)
         /\ Rows!RowsAmong(l, 0, kinds) = 0
<1>0. /\ \A i \in 1..first : l.segments[i] \in Segments
      /\ \A i \in 1..first : m.segments[i] \in Segments
      /\ \A i \in 1..0 : l.segments[i] \in Segments
  BY DEF Alike
<1>1. PICK t : Totals(l, first, kinds, t)
  BY <1>0, TotalIs
<1>2. ASSUME NEW n \in Nat, n >= first, NEW u, Totals(m, n, kinds, u)
      PROVE  u[first] = t[first]
  <2> DEFINE Same == {i \in 0..first : u[i] = t[i]}
  <2>1. 0 \in Same
    BY <1>1, <1>2 DEF Totals
  <2>2. ASSUME NEW i \in 0..first, i \in Same, i < first PROVE i + 1 \in Same
    <3>1. i \in Nat /\ i < n /\ i + 1 \in 1..first /\ i + 1 \in 0..first
      BY <1>2, <2>2
    <3>2. t[i + 1] = t[i] + Counted(l.segments[i + 1], kinds)
      BY <1>1, <2>2, <3>1, TotalsStep
    <3>3. u[i + 1] = u[i] + Counted(m.segments[i + 1], kinds)
      BY <1>2, <3>1, TotalsStep
    <3>4. l.segments[i + 1] = m.segments[i + 1] /\ u[i] = t[i]
      BY <2>2, <3>1 DEF Alike
    <3> QED BY <3>1, <3>2, <3>3, <3>4
  <2>3. first \in Nat /\ 0 \in Nat /\ first \in 0..first
    OBVIOUS
  <2>4. first \in Same
    <3> HIDE DEF Same
    <3> QED BY <2>1, <2>2, <2>3, Ascends
  <2> QED BY <2>4
<1>3. Rows!RowsAmong(m, first, kinds) = t[first]
  <2>1. PICK u : Totals(m, first, kinds, u)
    BY <1>0, TotalIs
  <2>2. u[first] = t[first]
    BY <1>2, <2>1
  <2> QED BY <2>1, <2>2 DEF Totals
<1>4. ASSUME m.segments[first + 1] \in Segments
      PROVE  Rows!RowsAmong(m, first + 1, kinds) = t[first] + Counted(m.segments[first + 1], kinds)
  <2> DEFINE n == first + 1
  <2>1. n \in Nat /\ n >= first /\ first < n
    OBVIOUS
  <2>2. \A i \in 1..n : m.segments[i] \in Segments
    <3>1. \A i \in 1..n : i \in 1..first \/ i = first + 1
      OBVIOUS
    <3> QED BY <1>0, <1>4, <3>1
  <2> HIDE DEF n
  <2>3. PICK u : Totals(m, n, kinds, u)
    BY <2>1, <2>2, TotalIs
  <2>4. u[first] = t[first]
    BY <1>2, <2>1, <2>3
  <2>5. u[first + 1] = u[first] + Counted(m.segments[first + 1], kinds) /\ Rows!RowsAmong(m, n, kinds) = u[n]
    BY <2>1, <2>3, TotalsStep
  <2> QED BY <2>4, <2>5 DEF n
<1>5. Rows!RowsAmong(l, 0, kinds) = 0
  <2>2. 0 \in Nat
    OBVIOUS
  <2>3. PICK u : Totals(l, 0, kinds, u)
    BY <1>0, <2>2, TotalIs
  <2> QED BY <2>3 DEF Totals
<1>6. t[first] \in Nat /\ Rows!RowsAmong(l, first, kinds) = t[first]
  <2>1. first \in 0..first
    OBVIOUS
  <2> QED BY <1>1, <2>1 DEF Totals
<1> QED BY <1>3, <1>4, <1>5, <1>6

(***************************************************************************)
(* The segments laid so far, and the place of the next.                    *)
(***************************************************************************)
Layouts == [segments : Seq(Segments), cursor : Nat]

\* Sound and picture of one clip, or of one reference.
Together(s, t) == s.from = t.from /\ {s.kind, t.kind} \in {{"audio", "video"}, {"ref_audio", "ref_image"}}

\* No segment reaches into another.
InTurn(segments) ==
  \A i \in 1..Len(segments), j \in 1..Len(segments) :
    i < j => \/ segments[i].kind = "cond"
             \/ segments[i].until <= segments[j].from \/ segments[j].until <= segments[i].from
             \/ Together(segments[i], segments[j])

\* One segment more has its rows counted with the others.
LEMMA CountsGrow ==
  ASSUME NEW n \in Nat, NEW l, NEW m, NEW s \in Segments, NEW kinds,
         Len(l.segments) = n, Len(m.segments) = n + 1, m.segments[n + 1] = s,
         Alike(l, m, n)
  PROVE  /\ Rows!RowsOf(l, kinds) \in Nat
         /\ Rows!RowsOf(m, kinds) = Rows!RowsOf(l, kinds) + Counted(s, kinds)
         /\ Rows!RowsAmong(m, Len(m.segments) - 1, kinds) = Rows!RowsOf(l, kinds)
<1>2. /\ Rows!RowsAmong(l, n, kinds) \in Nat
      /\ Rows!RowsAmong(l, n, kinds) = Rows!RowsAmong(m, n, kinds)
      /\ m.segments[n + 1] \in Segments =>
           Rows!RowsAmong(m, n + 1, kinds) = Rows!RowsAmong(l, n, kinds) + Counted(m.segments[n + 1], kinds)
  BY RowsGrow
<1>3. Rows!RowsOf(l, kinds) = Rows!RowsAmong(l, n, kinds) /\ Rows!RowsOf(m, kinds) = Rows!RowsAmong(m, n + 1, kinds)
  BY DEF Rows!RowsOf
<1>4. Len(m.segments) - 1 = n
  OBVIOUS
<1> QED BY <1>2, <1>3, <1>4

\* The second layout has one segment more than the first.
Lengthens(l, m, s) == l.segments \in Seq(Segments) /\ s \in Segments /\ m.segments = Append(l.segments, s)

\* It has the segments and the rows of the first, and those of that segment.
Longer(l, m, s) ==
  /\ m.segments \in Seq(Segments) /\ Len(m.segments) = Len(l.segments) + 1
  /\ \A i \in 1..Len(l.segments) : m.segments[i] = l.segments[i]
  /\ m.segments[Len(l.segments) + 1] = s
  /\ \A kinds : /\ Rows!RowsOf(l, kinds) \in Nat
                /\ Rows!RowsOf(m, kinds) = Rows!RowsOf(l, kinds) + Counted(s, kinds)
                /\ Rows!RowsAmong(m, Len(m.segments) - 1, kinds) = Rows!RowsOf(l, kinds)

\* A segment at the end is counted with the others.
LEMMA AppendCounts ==
  ASSUME NEW l, NEW m, NEW s, Lengthens(l, m, s)
  PROVE  Longer(l, m, s)
<1> DEFINE S == l.segments
           T == m.segments
           n == Len(S)
<1>0. S \in Seq(Segments) /\ s \in Segments /\ T = Append(S, s)
  BY DEF Lengthens
<1>1. n \in Nat /\ \A i \in 1..n : S[i] \in Segments
  BY <1>0, LenProperties, ElementOfSeq
<1>2. /\ T \in Seq(Segments) /\ Len(T) = n + 1 /\ T[n + 1] = s
      /\ \A i \in 1..n : T[i] = S[i]
  BY <1>0, AppendProperties
<1> HIDE DEF n
<1>3. n + 1 - 1 = n
  BY <1>1
<1>4. ASSUME NEW kinds
      PROVE  /\ Rows!RowsOf(l, kinds) \in Nat
             /\ Rows!RowsOf(m, kinds) = Rows!RowsOf(l, kinds) + Counted(s, kinds)
             /\ Rows!RowsAmong(m, Len(T) - 1, kinds) = Rows!RowsOf(l, kinds)
  <2>1. Alike(l, m, n)
    BY <1>1, <1>2 DEF Alike
  <2>2. Len(S) = n
    BY DEF n
  <2> QED BY <1>0, <1>1, <1>2, <2>1, <2>2, CountsGrow
<1> QED BY <1>1, <1>2, <1>4 DEF n, Longer

\* A segment that begins when all others but keyframes are over, or together with one.
LEMMA AppendInTurn ==
  ASSUME NEW S \in Seq(Segments), NEW s \in Segments, InTurn(S),
         \A i \in 1..Len(S) : S[i].kind = "cond" \/ S[i].until <= s.from \/ Together(S[i], s)
  PROVE  InTurn(Append(S, s))
<1> DEFINE T == Append(S, s)
           n == Len(S)
<1>1. n \in Nat /\ Len(T) = n + 1 /\ T[n + 1] = s /\ \A i \in 1..n : T[i] = S[i]
  BY AppendProperties, LenProperties
<1> HIDE DEF T, n
<1>2. SUFFICES ASSUME NEW i \in 1..Len(T), NEW j \in 1..Len(T), i < j
               PROVE  \/ T[i].kind = "cond" \/ T[i].until <= T[j].from \/ T[j].until <= T[i].from
                      \/ Together(T[i], T[j])
  BY DEF InTurn, T
<1>3. i \in 1..n /\ T[i] = S[i]
  BY <1>1, <1>2
<1>4. CASE j = n + 1
  BY <1>1, <1>3, <1>4 DEF n
<1>5. CASE j # n + 1
  <2>1. j \in 1..n /\ T[j] = S[j]
    BY <1>1, <1>5
  <2> QED BY <1>2, <1>3, <2>1 DEF InTurn, n
<1> QED BY <1>4, <1>5

\* What h3_layout_build does with a reference.
Follow(laid, reference) ==
  LET next == ReferenceSegments(reference, laid.cursor)
  IN [segments |-> laid.segments \o next.segments, cursor |-> laid.cursor + next.span]

\* It lays its sound and then its picture, where it has them, at the cursor, and moves the
\* cursor to their end or beyond.
LEMMA FollowIs ==
  ASSUME NEW x \in References, Plannable(x), NEW laid \in Layouts
  PROVE  LET latents == ReferenceLatents(x)
             next == Follow(laid, x)
         IN /\ next \in Layouts /\ next.cursor >= laid.cursor
            /\ \E sound \in Segments, picture \in Segments :
                 /\ sound.kind = "ref_audio" /\ sound.rows = 2 * latents.audio_t /\ sound.from = laid.cursor
                 /\ picture.kind = "ref_image" /\ picture.rows = latents.t * frame_rows(latents.canvas)
                 /\ picture.from = laid.cursor
                 /\ \/ next.segments = laid.segments /\ latents.audio_t = 0 /\ x.kind = "audio"
                    \/ /\ next.segments = Append(laid.segments, sound) /\ x.kind = "audio"
                       /\ sound.until <= next.cursor
                    \/ /\ next.segments = Append(laid.segments, picture) /\ latents.audio_t = 0
                       /\ x.kind # "audio" /\ picture.until <= next.cursor
                    \/ /\ next.segments = Append(Append(laid.segments, sound), picture) /\ x.kind # "audio"
                       /\ sound.until <= next.cursor /\ picture.until <= next.cursor
<1> DEFINE latents == ReferenceLatents(x)
           S == laid.segments
           cursor == laid.cursor
           added == ReferenceSegments(x, cursor)
           next == Follow(laid, x)
           heard == 3 * latents.audio_t
           sound == Segment("ref_audio", 2 * latents.audio_t, cursor, cursor + heard)
           rows == latents.t * frame_rows(latents.canvas)
<1>1. S \in Seq(Segments) /\ cursor \in Nat
  BY DEF Layouts
<1>2. next.segments = S \o added.segments /\ next.cursor = cursor + added.span
      /\ next = [segments |-> next.segments, cursor |-> next.cursor]
  BY DEF Follow
<1>3. /\ added.span \in Nat /\ sound \in Segments
      /\ \E seen \in Nat :
           LET picture == Segment("ref_image", rows, cursor, cursor + seen)
           IN /\ picture \in Segments
              /\ \/ added.segments = << >> /\ latents.audio_t = 0 /\ x.kind = "audio"
                 \/ added.segments = << sound >> /\ x.kind = "audio" /\ heard <= added.span
                 \/ /\ added.segments = << picture >> /\ latents.audio_t = 0 /\ x.kind # "audio"
                    /\ seen <= added.span
                 \/ /\ added.segments = << sound >> \o << picture >> /\ x.kind # "audio"
                    /\ heard <= added.span /\ seen <= added.span
  BY <1>1, ReferenceAdds
<1>4. PICK seen \in Nat :
           LET picture == Segment("ref_image", rows, cursor, cursor + seen)
           IN /\ picture \in Segments
              /\ \/ added.segments = << >> /\ latents.audio_t = 0 /\ x.kind = "audio"
                 \/ added.segments = << sound >> /\ x.kind = "audio" /\ heard <= added.span
                 \/ /\ added.segments = << picture >> /\ latents.audio_t = 0 /\ x.kind # "audio"
                    /\ seen <= added.span
                 \/ /\ added.segments = << sound >> \o << picture >> /\ x.kind # "audio"
                    /\ heard <= added.span /\ seen <= added.span
  BY <1>3
<1> DEFINE picture == Segment("ref_image", rows, cursor, cursor + seen)
<1>5. /\ sound.kind = "ref_audio" /\ sound.rows = 2 * latents.audio_t /\ sound.from = cursor
      /\ sound.until = cursor + heard
      /\ picture.kind = "ref_image" /\ picture.rows = rows /\ picture.from = cursor
      /\ picture.until = cursor + seen
  BY DEF Segment
<1>6. latents.audio_t \in Nat
  BY ReferenceFacts
<1> HIDE DEF latents
<1>7. heard \in Nat
  BY <1>6
<1> HIDE DEF next, added, S, cursor, sound, picture, heard, rows
<1>8. sound \in Segments /\ picture \in Segments
  BY <1>3, <1>4 DEF picture
<1>9. /\ S \o << >> = S /\ S \o << sound >> = Append(S, sound) /\ S \o << picture >> = Append(S, picture)
      /\ S \o (<< sound >> \o << picture >>) = Append(Append(S, sound), picture)
  <2>1. S \o << sound >> = Append(S, sound) /\ S \o << picture >> = Append(S, picture)
    BY <1>1, <1>8, AppendIsConcat
  <2>2. Append(S, sound) \in Seq(Segments)
    BY <1>1, <1>8, AppendProperties
  <2>3. Append(Append(S, sound), picture) = Append(S, sound) \o << picture >>
    BY <1>8, <2>2, AppendIsConcat
  <2>4. << sound >> \in Seq(Segments) /\ << picture >> \in Seq(Segments)
    BY <1>8
  <2>5. (S \o << sound >>) \o << picture >> = S \o (<< sound >> \o << picture >>)
    BY <1>1, <2>4, ConcatAssociative
  <2>6. S \o << >> = S
    BY <1>1, ConcatEmptySeq
  <2> QED BY <2>1, <2>3, <2>5, <2>6
<1>10. \/ next.segments = S /\ latents.audio_t = 0 /\ x.kind = "audio"
       \/ next.segments = Append(S, sound) /\ x.kind = "audio" /\ heard <= added.span
       \/ next.segments = Append(S, picture) /\ latents.audio_t = 0 /\ x.kind # "audio" /\ seen <= added.span
       \/ /\ next.segments = Append(Append(S, sound), picture) /\ x.kind # "audio"
          /\ heard <= added.span /\ seen <= added.span
  BY <1>2, <1>4, <1>9 DEF picture
<1>11. next.segments \in Seq(Segments)
  <2>1. Append(S, sound) \in Seq(Segments) /\ Append(S, picture) \in Seq(Segments)
    BY <1>1, <1>8, AppendProperties
  <2>2. Append(Append(S, sound), picture) \in Seq(Segments)
    BY <1>8, <2>1, AppendProperties
  <2> QED BY <1>1, <1>10, <2>1, <2>2
<1>12. next.cursor \in Nat /\ next.cursor >= cursor /\ (heard <= added.span => sound.until <= next.cursor)
       /\ (seen <= added.span => picture.until <= next.cursor)
  BY <1>1, <1>2, <1>3, <1>5, <1>7
<1>13. next \in Layouts
  BY <1>2, <1>11, <1>12 DEF Layouts
<1> QED BY <1>5, <1>8, <1>10, <1>12, <1>13 DEF next, S, cursor, rows, latents

(***************************************************************************)
(* h3_layout_build and the rows of h3_generate take the references in      *)
(* turn.                                                                   *)
(***************************************************************************)
\* The segment of an anchor, if the request has it.
Keyframe(r, anchor) ==
  LET latent == Latent(Rendered(r)[1], Rendered(r)[2])
      time   == KeyframeTime(anchor, r.tokens, h3_temporal(r.frames).video_t)
  IN IF anchor \in r.anchors THEN << Segment("cond", frame_rows(latent), time, time + 5) >> ELSE << >>

\* The text and the keyframes.
Opening(r) ==
  [segments |-> << Segment("text", r.tokens, 0, 3 * r.tokens) >> \o Keyframe(r, "first") \o Keyframe(r, "last"),
   cursor |-> 3 * r.tokens]

\* The whole layout, of the segments before the clip.
Closing(r, laid) ==
  LET temporal == h3_temporal(r.frames)
      latent == Latent(Rendered(r)[1], Rendered(r)[2])
  IN [segments |-> laid.segments \o
        << Segment("audio", 2 * temporal.audio_t, laid.cursor, laid.cursor + 3 * temporal.audio_t),
           Segment("video", temporal.video_t * frame_rows(latent),
                   laid.cursor, laid.cursor + h3_video_span_sum(temporal.video_t)) >>,
      latent |-> << temporal.video_t, latent[1], latent[2] >>, audio |-> temporal.audio_t]

\* The layouts of the first of n references.
LaidOut(laid, r, n, refs) ==
  /\ laid \in [0..n -> Layouts] /\ laid[0] = Opening(r)
  /\ \A i \in 0..n - 1 : laid[i + 1] = Follow(laid[i], refs[i + 1])
  /\ h3_layout_build(r) = Closing(r, laid[n])

\* The layout is built of the references, one after the other.
LEMMA LayoutFolds ==
  ASSUME NEW r, NEW n \in Nat, NEW refs \in [1..n -> References], r.references = refs,
         \A i \in 1..n : Plannable(refs[i]), Opening(r) \in Layouts
  PROVE  \E laid : LaidOut(laid, r, n, refs)
<1> DEFINE D == 1..n
           base == Opening(r)
           Folds(it) == it = [s \in SUBSET D |->
                                IF s = {} THEN base
                                ELSE Follow(it[s \ {Max(s)}], refs[Max(s)])]
           iter == CHOOSE it : Folds(it)
<1>1. DOMAIN r.references = D
  OBVIOUS
<1>2. h3_layout_build(r) = Closing(r, iter[D])
  BY <1>1 DEF h3_layout_build, FoldLeft, MapThenFoldSet, Closing, Opening, Keyframe, Follow
<1> DEFINE F == [p \in Layouts \X (1..n) |-> Follow(p[1], refs[p[2]])]
<1>3. \A laid \in Layouts, i \in 1..n : Follow(laid, refs[i]) \in Layouts
  BY FollowIs
<1>4. F \in [Layouts \X (1..n) -> Layouts] /\ \A laid \in Layouts, i \in 1..n : F[<< laid, i >>] = Follow(laid, refs[i])
  BY <1>3
<1>10. base \in Layouts
  OBVIOUS
<1> HIDE DEF F, base
<1>5. \A s \in SUBSET D : s # {} => Max(s) \in s
  <2> SUFFICES ASSUME NEW s \in SUBSET D, s # {} PROVE Max(s) \in s
    OBVIOUS
  <2>1. s \in SUBSET (0..n)
    OBVIOUS
  <2> QED BY <2>1, MaxFacts
<1>6. \E it : Folds(it)
  <2>0. PICK it : Folded(it, n, Layouts, base, F)
    BY <1>4, <1>10, FoldsExist
  <2>1. /\ it \in [SUBSET (1..n) -> Layouts]
        /\ \A s \in SUBSET (1..n) : it[s] = IF s = {} THEN base ELSE F[<< it[s \ {Max(s)}], Max(s) >>]
    BY <2>0 DEF Folded
  <2>2. \A s \in SUBSET D : it[s] = IF s = {} THEN base ELSE Follow(it[s \ {Max(s)}], refs[Max(s)])
    <3> SUFFICES ASSUME NEW s \in SUBSET D, s # {}
                 PROVE  it[s] = Follow(it[s \ {Max(s)}], refs[Max(s)])
      BY <2>1
    <3>1. Max(s) \in 1..n /\ it[s \ {Max(s)}] \in Layouts
      BY <1>5, <2>1
    <3>2. it[s] = F[<< it[s \ {Max(s)}], Max(s) >>]
      BY <2>1
    <3> QED BY <1>4, <3>1, <3>2
  <2>3. it = [s \in SUBSET D |-> it[s]]
    BY <2>1
  <2>4. Folds(it)
    BY <2>2, <2>3
  <2> HIDE DEF Folds
  <2> QED BY <2>4
<1>7. Folds(iter)
  <2> HIDE DEF Folds
  <2> QED BY <1>6
<1> HIDE DEF iter
<1>8. iter[{}] = base
  BY <1>7
<1>9. \A s \in SUBSET (1..n) : s # {} /\ iter[s \ {Max(s)}] \in Layouts =>
        iter[s] = F[<< iter[s \ {Max(s)}], Max(s) >>]
  <2> SUFFICES ASSUME NEW s \in SUBSET (1..n), s # {}, iter[s \ {Max(s)}] \in Layouts
               PROVE  iter[s] = F[<< iter[s \ {Max(s)}], Max(s) >>]
    OBVIOUS
  <2>1. Max(s) \in 1..n
    BY <1>5
  <2>2. iter[s] = Follow(iter[s \ {Max(s)}], refs[Max(s)])
    BY <1>7
  <2> HIDE DEF Folds
  <2> QED BY <1>4, <2>1, <2>2
<1> HIDE DEF Folds
<1>11. PICK laid : Takes(laid, n, Layouts, base, F, iter[D])
  <2>1. FoldedAmong(iter, n, Layouts, base, F)
    BY <1>8, <1>9 DEF FoldedAmong
  <2> QED BY <1>4, <1>10, <2>1, FoldTakes
<1>12. \A i \in 0..n - 1 : laid[i + 1] = Follow(laid[i], refs[i + 1])
  <2> SUFFICES ASSUME NEW i \in 0..n - 1 PROVE laid[i + 1] = Follow(laid[i], refs[i + 1])
    OBVIOUS
  <2>1. i + 1 \in 1..n /\ laid[i] \in Layouts
    BY <1>11 DEF Takes
  <2>2. F[<< laid[i], i + 1 >>] = Follow(laid[i], refs[i + 1])
    BY <1>4, <2>1
  <2> QED BY <1>11, <2>2 DEF Takes
<1>13. laid \in [0..n -> Layouts] /\ laid[0] = Opening(r) /\ h3_layout_build(r) = Closing(r, laid[n])
  BY <1>2, <1>11 DEF Takes, base
<1>14. LaidOut(laid, r, n, refs)
  BY <1>12, <1>13 DEF LaidOut
<1> QED BY <1>14

\* The sums of the first of n numbers.
Summed(sums, n, G, result) ==
  /\ sums \in [0..n -> Nat] /\ sums[0] = 0 /\ sums[n] = result
  /\ \A i \in 0..n - 1 : sums[i + 1] = sums[i] + G[i + 1]

\* A function that a fold of the numbers is.
Sums(it, n, G) == it = [s \in SUBSET (1..n) |-> IF s = {} THEN 0 ELSE it[s \ {Max(s)}] + G[Max(s)]]

\* What FoldLeft adds up of a number for each of n references.
LEMMA SumTakes ==
  ASSUME NEW n \in Nat, NEW G \in [1..n -> Nat], NEW it,
         Sums(it, n, G)
  PROVE  \E sums : Summed(sums, n, G, it[1..n])
<1> DEFINE F == [p \in Nat \X (1..n) |-> p[1] + G[p[2]]]
<1>1. F \in [Nat \X (1..n) -> Nat] /\ \A a \in Nat, i \in 1..n : F[<< a, i >>] = a + G[i]
  OBVIOUS
<1> HIDE DEF F
<1>0. it[{}] = 0 /\ \A s \in SUBSET (1..n) : s # {} => it[s] = it[s \ {Max(s)}] + G[Max(s)]
  BY DEF Sums
<1>2. \A s \in SUBSET (1..n) : s # {} /\ it[s \ {Max(s)}] \in Nat =>
        it[s] = F[<< it[s \ {Max(s)}], Max(s) >>]
  <2> SUFFICES ASSUME NEW s \in SUBSET (1..n), s # {}, it[s \ {Max(s)}] \in Nat
               PROVE  it[s] = F[<< it[s \ {Max(s)}], Max(s) >>]
    OBVIOUS
  <2>1. s \in SUBSET (0..n)
    OBVIOUS
  <2>2. Max(s) \in s
    BY <2>1, MaxFacts
  <2>3. Max(s) \in 1..n
    BY <2>2
  <2> QED BY <1>0, <1>1, <2>3
<1>3. 0 \in Nat /\ FoldedAmong(it, n, Nat, 0, F)
  BY <1>0, <1>2 DEF FoldedAmong
<1>4. PICK sums : Takes(sums, n, Nat, 0, F, it[1..n])
  BY <1>1, <1>3, FoldTakes
<1>5. \A i \in 0..n - 1 : sums[i + 1] = sums[i] + G[i + 1]
  <2> SUFFICES ASSUME NEW i \in 0..n - 1 PROVE sums[i + 1] = sums[i] + G[i + 1]
    OBVIOUS
  <2>1. i + 1 \in 1..n /\ sums[i] \in Nat
    BY <1>4 DEF Takes
  <2>2. F[<< sums[i], i + 1 >>] = sums[i] + G[i + 1]
    BY <1>1, <2>1
  <2> QED BY <1>4, <2>2 DEF Takes
<1> QED BY <1>4, <1>5 DEF Takes, Summed

\* Of any numbers there is such a sum.
LEMMA SumsExist ==
  ASSUME NEW n \in Nat, NEW G \in [1..n -> Nat]
  PROVE  \E it : Sums(it, n, G)
<1> DEFINE F == [p \in Nat \X (1..n) |-> p[1] + G[p[2]]]
<1>1. F \in [Nat \X (1..n) -> Nat] /\ \A a \in Nat, i \in 1..n : F[<< a, i >>] = a + G[i]
  OBVIOUS
<1> HIDE DEF F
<1>2. 0 \in Nat
  OBVIOUS
<1>0. PICK it : Folded(it, n, Nat, 0, F)
  BY <1>1, <1>2, FoldsExist
<1>3. /\ it \in [SUBSET (1..n) -> Nat]
      /\ \A s \in SUBSET (1..n) : it[s] = IF s = {} THEN 0 ELSE F[<< it[s \ {Max(s)}], Max(s) >>]
  BY <1>0 DEF Folded
<1>4. \A s \in SUBSET (1..n) : it[s] = IF s = {} THEN 0 ELSE it[s \ {Max(s)}] + G[Max(s)]
  <2> SUFFICES ASSUME NEW s \in SUBSET (1..n), s # {}
               PROVE  it[s] = it[s \ {Max(s)}] + G[Max(s)]
    BY <1>3
  <2>1. s \in SUBSET (0..n)
    OBVIOUS
  <2>2. Max(s) \in s
    BY <2>1, MaxFacts
  <2>3. Max(s) \in 1..n /\ it[s \ {Max(s)}] \in Nat
    BY <1>3, <2>2
  <2> QED BY <1>1, <1>3, <2>3
<1>5. it = [s \in SUBSET (1..n) |-> it[s]]
  BY <1>3
<1>6. Sums(it, n, G)
  BY <1>4, <1>5 DEF Sums
<1> QED BY <1>6

\* The rows of conditions that a reference is encoded to.
PictureRows(reference) ==
  LET l == ReferenceLatents(reference)
  IN IF reference.kind = "audio" THEN 0 ELSE (l.t * l.canvas[1] * l.canvas[2]) \div 4
SoundRows(reference) == 2 * ReferenceLatents(reference).audio_t

\* The rows that anchors are encoded to.
AnchorRows(r) ==
  LET latent == Latent(Rendered(r)[1], Rendered(r)[2])
  IN Cardinality(r.anchors) * ((latent[1] * latent[2]) \div 4)

\* Rows of pictures and of sounds for the first of n references.
Packed(pictures, sounds, r, n, refs) ==
  /\ Summed(pictures, n, [i \in 1..n |-> PictureRows(refs[i])], pictures[n])
  /\ Summed(sounds, n, [i \in 1..n |-> SoundRows(refs[i])], sounds[n])
  /\ PackedRows(r) = [videoCondition |-> AnchorRows(r) + pictures[n], audioCondition |-> sounds[n]]

\* The rows of a reference are those of its sound and of its picture.
LEMMA ReferenceRows ==
  ASSUME NEW x \in References, Plannable(x)
  PROVE  /\ PictureRows(x) \in Nat /\ SoundRows(x) \in Nat
         /\ x.kind # "audio" => PictureRows(x) = ReferenceLatents(x).t * frame_rows(ReferenceLatents(x).canvas)
         /\ x.kind = "audio" => PictureRows(x) = 0
         /\ SoundRows(x) = 2 * ReferenceLatents(x).audio_t
<1> DEFINE latents == ReferenceLatents(x)
           rows == latents.t * frame_rows(latents.canvas)
<1>1. /\ latents.audio_t \in Nat /\ rows \in Nat
      /\ (latents.t * latents.canvas[1] * latents.canvas[2]) \div 4 = rows
  BY ReferenceFacts
<1>2. PictureRows(x) = IF x.kind = "audio" THEN 0 ELSE (latents.t * latents.canvas[1] * latents.canvas[2]) \div 4
  BY DEF PictureRows
<1>3. SoundRows(x) = 2 * latents.audio_t
  BY DEF SoundRows
<1> HIDE DEF latents, rows
<1>4. SoundRows(x) \in Nat
  BY <1>1, <1>3
<1> QED BY <1>1, <1>2, <1>3, <1>4 DEF rows, latents

\* The rows of conditions are added up, one reference after the other.
LEMMA PackedFolds ==
  ASSUME NEW r, NEW n \in Nat, NEW refs \in [1..n -> References], r.references = refs,
         \A i \in 1..n : Plannable(refs[i])
  PROVE  \E pictures, sounds : Packed(pictures, sounds, r, n, refs)
<1> DEFINE D == 1..n
           P == [i \in 1..n |-> PictureRows(refs[i])]
           Q == [i \in 1..n |-> SoundRows(refs[i])]
           FoldsP(it) == it = [s \in SUBSET D |-> IF s = {} THEN 0 ELSE it[s \ {Max(s)}] + PictureRows(refs[Max(s)])]
           FoldsQ(it) == it = [s \in SUBSET D |-> IF s = {} THEN 0 ELSE it[s \ {Max(s)}] + SoundRows(refs[Max(s)])]
           iterP == CHOOSE it : FoldsP(it)
           iterQ == CHOOSE it : FoldsQ(it)
<1>1. DOMAIN r.references = D
  OBVIOUS
<1>2. PackedRows(r) = [videoCondition |-> AnchorRows(r) + iterP[D], audioCondition |-> iterQ[D]]
  BY <1>1 DEF PackedRows, FoldLeft, MapThenFoldSet, AnchorRows, PictureRows, SoundRows
<1>3. P \in [1..n -> Nat] /\ Q \in [1..n -> Nat]
  BY ReferenceRows
<1>4. \A s \in SUBSET D : s # {} => Max(s) \in 1..n
  <2> SUFFICES ASSUME NEW s \in SUBSET D, s # {} PROVE Max(s) \in 1..n
    OBVIOUS
  <2>1. s \in SUBSET (0..n)
    OBVIOUS
  <2>2. Max(s) \in s
    BY <2>1, MaxFacts
  <2> QED BY <2>2
<1>5. \A s \in SUBSET D : s # {} => P[Max(s)] = PictureRows(refs[Max(s)]) /\ Q[Max(s)] = SoundRows(refs[Max(s)])
  BY <1>4
<1> HIDE DEF P, Q
<1>6. ASSUME NEW it PROVE (Sums(it, n, P) <=> FoldsP(it)) /\ (Sums(it, n, Q) <=> FoldsQ(it))
  <2>1. [s \in SUBSET D |-> IF s = {} THEN 0 ELSE it[s \ {Max(s)}] + PictureRows(refs[Max(s)])]
        = [s \in SUBSET D |-> IF s = {} THEN 0 ELSE it[s \ {Max(s)}] + P[Max(s)]]
    BY <1>5
  <2>2. [s \in SUBSET D |-> IF s = {} THEN 0 ELSE it[s \ {Max(s)}] + SoundRows(refs[Max(s)])]
        = [s \in SUBSET D |-> IF s = {} THEN 0 ELSE it[s \ {Max(s)}] + Q[Max(s)]]
    BY <1>5
  <2> QED BY <2>1, <2>2 DEF Sums
<1>7. (\E it : Sums(it, n, P)) /\ (\E it : Sums(it, n, Q))
  BY <1>3, SumsExist
<1> HIDE DEF FoldsP, FoldsQ
<1>8. (\E it : FoldsP(it)) /\ (\E it : FoldsQ(it))
  BY <1>6, <1>7
<1>9. FoldsP(iterP) /\ FoldsQ(iterQ)
  BY <1>8
<1> HIDE DEF iterP, iterQ
<1>10. Sums(iterP, n, P) /\ Sums(iterQ, n, Q)
  BY <1>6, <1>9
<1>11. PICK pictures : Summed(pictures, n, P, iterP[1..n])
  BY <1>3, <1>10, SumTakes
<1>12. PICK sounds : Summed(sounds, n, Q, iterQ[1..n])
  BY <1>3, <1>10, SumTakes
<1>13. Summed(pictures, n, P, pictures[n]) /\ pictures[n] = iterP[D]
  BY <1>11 DEF Summed
<1>14. Summed(sounds, n, Q, sounds[n]) /\ sounds[n] = iterQ[D]
  BY <1>12 DEF Summed
<1>15. Packed(pictures, sounds, r, n, refs)
  BY <1>2, <1>13, <1>14 DEF Packed, P, Q
<1> QED BY <1>15

(***************************************************************************)
(* What holds of the segments laid so far.                                 *)
(***************************************************************************)
Conditions == {"cond", "ref_audio", "ref_image"}

\* The text first, then conditions with the rows that were packed of them; none reaches
\* into the next, and all but the keyframes are over at the cursor.
Held(laid, r, pictures, sounds) ==
  LET S == laid.segments
  IN /\ S \in Seq(Segments) /\ laid.cursor \in Nat /\ pictures \in Nat /\ sounds \in Nat
     /\ Len(S) >= 1 /\ S[1].kind = "text" /\ \A i \in 2..Len(S) : S[i].kind \in Conditions
     /\ Rows!RowsOf(laid, {"text"}) = r.tokens
     /\ Rows!RowsOf(laid, {"cond", "ref_image"}) = pictures
     /\ Rows!RowsOf(laid, {"ref_audio"}) = sounds
     /\ Rows!RowsOf(laid, {"video"}) = 0 /\ Rows!RowsOf(laid, {"audio"}) = 0
     /\ InTurn(S)
     /\ \A i \in 1..Len(S) : S[i].kind = "cond" \/ S[i].until <= laid.cursor
     /\ \A i \in 1..Len(S) : S[i].kind = "cond" =>
          /\ r.anchors # {}
          /\ S[i].from - 3 * r.tokens \in {0, 5 * (h3_temporal(r.frames).frame_count - 1)}

\* One condition more, in its place.
Continues(laid, next, r, s) ==
  /\ s \in Segments /\ s.kind \in Conditions /\ next.segments = Append(laid.segments, s)
  /\ next.cursor \in Nat /\ next.cursor >= laid.cursor
  /\ \A i \in 1..Len(laid.segments) :
       \/ laid.segments[i].kind = "cond" \/ laid.segments[i].until <= s.from
       \/ Together(laid.segments[i], s)
  /\ s.kind = "cond" \/ s.until <= next.cursor
  /\ s.kind = "cond" =>
       /\ r.anchors # {} /\ s.from - 3 * r.tokens \in {0, 5 * (h3_temporal(r.frames).frame_count - 1)}

\* It goes on to hold with one condition more.
LEMMA HeldGrows ==
  ASSUME NEW r, NEW laid, NEW next, NEW pictures, NEW sounds, Held(laid, r, pictures, sounds),
         NEW s, Continues(laid, next, r, s)
  PROVE  Held(next, r, pictures + Counted(s, {"cond", "ref_image"}), sounds + Counted(s, {"ref_audio"}))
<1> SUFFICES ASSUME s \in Segments, s.kind \in Conditions, next.segments = Append(laid.segments, s),
                    next.cursor \in Nat, next.cursor >= laid.cursor,
                    \A i \in 1..Len(laid.segments) :
                      \/ laid.segments[i].kind = "cond" \/ laid.segments[i].until <= s.from
                      \/ Together(laid.segments[i], s),
                    s.kind = "cond" \/ s.until <= next.cursor,
                    s.kind = "cond" =>
                      /\ r.anchors # {}
                      /\ s.from - 3 * r.tokens \in {0, 5 * (h3_temporal(r.frames).frame_count - 1)}
             PROVE  Held(next, r, pictures + Counted(s, {"cond", "ref_image"}), sounds + Counted(s, {"ref_audio"}))
  BY DEF Continues
<1> DEFINE S == laid.segments
           T == next.segments
           n == Len(S)
<1>1. /\ S \in Seq(Segments) /\ laid.cursor \in Nat /\ pictures \in Nat /\ sounds \in Nat
      /\ Len(S) >= 1 /\ S[1].kind = "text" /\ \A i \in 2..Len(S) : S[i].kind \in Conditions
      /\ Rows!RowsOf(laid, {"text"}) = r.tokens
      /\ Rows!RowsOf(laid, {"cond", "ref_image"}) = pictures
      /\ Rows!RowsOf(laid, {"ref_audio"}) = sounds
      /\ Rows!RowsOf(laid, {"video"}) = 0 /\ Rows!RowsOf(laid, {"audio"}) = 0
      /\ InTurn(S)
  BY DEF Held
<1>2. \A i \in 1..Len(S) : S[i].kind = "cond" \/ S[i].until <= laid.cursor
  BY DEF Held
<1>3. \A i \in 1..Len(S) : S[i].kind = "cond" =>
        /\ r.anchors # {} /\ S[i].from - 3 * r.tokens \in {0, 5 * (h3_temporal(r.frames).frame_count - 1)}
  BY DEF Held
<1>4. /\ T \in Seq(Segments) /\ Len(T) = Len(S) + 1
      /\ \A i \in 1..Len(S) : T[i] = S[i]
      /\ T[Len(S) + 1] = s
      /\ \A kinds : Rows!RowsOf(next, kinds) = Rows!RowsOf(laid, kinds) + Counted(s, kinds)
  <2>1. Lengthens(laid, next, s)
    BY <1>1 DEF Lengthens
  <2>2. Longer(laid, next, s)
    BY <2>1, AppendCounts
  <2> QED BY <2>2 DEF Longer
<1>5. InTurn(T)
  BY <1>1, AppendInTurn
<1>6. n \in Nat /\ n >= 1 /\ \A i \in 1..n : S[i] \in Segments
  BY <1>1, LenProperties, ElementOfSeq
<1>7. s.rows \in Nat /\ \A i \in 1..n : S[i].until \in Nat
  BY <1>6 DEF Segments
<1>8. Counted(s, {"cond", "ref_image"}) \in Nat /\ Counted(s, {"ref_audio"}) \in Nat
  BY <1>7 DEF Counted
<1>9. Counted(s, {"text"}) = 0 /\ Counted(s, {"video"}) = 0 /\ Counted(s, {"audio"}) = 0
  BY DEF Counted, Conditions
<1>10. Len(T) = n + 1 /\ T[n + 1] = s /\ \A i \in 1..n : T[i] = S[i]
  BY <1>4
<1>0. \A i \in 1..n + 1 : i \in 1..n \/ i = n + 1
  BY <1>6
<1>11. /\ Rows!RowsOf(next, {"text"}) = r.tokens
       /\ Rows!RowsOf(next, {"cond", "ref_image"}) = pictures + Counted(s, {"cond", "ref_image"})
       /\ Rows!RowsOf(next, {"ref_audio"}) = sounds + Counted(s, {"ref_audio"})
       /\ Rows!RowsOf(next, {"video"}) = 0 /\ Rows!RowsOf(next, {"audio"}) = 0
  <2>1. Rows!RowsOf(laid, {"text"}) \in Nat
    <3>1. Lengthens(laid, next, s)
      BY <1>1 DEF Lengthens
    <3>2. Longer(laid, next, s)
      BY <3>1, AppendCounts
    <3> QED BY <3>2 DEF Longer
  <2> HIDE DEF S, T, n
  <2>2. /\ Rows!RowsOf(next, {"text"}) = Rows!RowsOf(laid, {"text"}) + 0
        /\ Rows!RowsOf(next, {"cond", "ref_image"}) = pictures + Counted(s, {"cond", "ref_image"})
        /\ Rows!RowsOf(next, {"ref_audio"}) = sounds + Counted(s, {"ref_audio"})
        /\ Rows!RowsOf(next, {"video"}) = 0 + 0 /\ Rows!RowsOf(next, {"audio"}) = 0 + 0
    BY <1>1, <1>4, <1>9
  <2> QED BY <1>1, <2>1, <2>2
<1>12. T[1].kind = "text" /\ \A i \in 2..Len(T) : T[i].kind \in Conditions
  <2> HIDE DEF S, T, n
  <2>1. 1 \in 1..n
    BY <1>6
  <2>2. \A i \in 2..n + 1 : i \in 2..n \/ i = n + 1
    BY <1>6
  <2>3. \A i \in 2..n : i \in 1..n /\ S[i].kind \in Conditions
    BY <1>1, <1>6 DEF n
  <2> QED BY <1>1, <1>10, <2>1, <2>2, <2>3
<1>13. \A i \in 1..Len(T) : T[i].kind = "cond" \/ T[i].until <= next.cursor
  <2> SUFFICES ASSUME NEW i \in 1..n + 1 PROVE T[i].kind = "cond" \/ T[i].until <= next.cursor
    BY <1>10
  <2>1. CASE i = n + 1
    BY <1>10, <2>1
  <2>2. CASE i # n + 1
    <3>1. i \in 1..n /\ T[i] = S[i] /\ S[i].until \in Nat /\ (S[i].kind = "cond" \/ S[i].until <= laid.cursor)
      BY <1>0, <1>2, <1>7, <1>10, <2>2
    <3> HIDE DEF S, T, n
    <3> QED BY <1>1, <3>1
  <2> QED BY <2>1, <2>2
<1>14. \A i \in 1..Len(T) : T[i].kind = "cond" =>
         /\ r.anchors # {} /\ T[i].from - 3 * r.tokens \in {0, 5 * (h3_temporal(r.frames).frame_count - 1)}
  <2> SUFFICES ASSUME NEW i \in 1..n + 1, T[i].kind = "cond"
               PROVE  r.anchors # {} /\ T[i].from - 3 * r.tokens \in {0, 5 * (h3_temporal(r.frames).frame_count - 1)}
    BY <1>10
  <2>1. CASE i = n + 1
    BY <1>10, <2>1
  <2>2. CASE i # n + 1
    <3>1. i \in 1..n /\ T[i] = S[i]
      BY <1>0, <1>10, <2>2
    <3> HIDE DEF T
    <3> QED BY <1>3, <3>1
  <2> QED BY <2>1, <2>2
<1>15. Len(T) >= 1 /\ pictures + Counted(s, {"cond", "ref_image"}) \in Nat /\ sounds + Counted(s, {"ref_audio"}) \in Nat
  <2> HIDE DEF S, T, n
  <2> QED BY <1>1, <1>6, <1>8, <1>10
<1> QED BY <1>4, <1>5, <1>11, <1>12, <1>13, <1>14, <1>15 DEF Held

\* The sound of a reference comes at the cursor, and its picture at the same time.
LEMMA HeldFollows ==
  ASSUME NEW r, NEW laid, NEW pictures, NEW sounds, Held(laid, r, pictures, sounds),
         NEW x \in References, Plannable(x)
  PROVE  Held(Follow(laid, x), r, pictures + PictureRows(x), sounds + SoundRows(x))
<1> DEFINE next == Follow(laid, x)
           S == laid.segments
           latents == ReferenceLatents(x)
<1>1. /\ S \in Seq(Segments) /\ laid.cursor \in Nat /\ pictures \in Nat /\ sounds \in Nat
      /\ \A i \in 1..Len(S) : S[i].kind = "cond" \/ S[i].until <= laid.cursor
  BY DEF Held
<1> DEFINE now == [segments |-> S, cursor |-> laid.cursor]
<1>2. now \in Layouts /\ Follow(now, x) = next
  BY <1>1 DEF Layouts, Follow
<1>3. /\ next \in Layouts /\ next.cursor >= laid.cursor
      /\ \E sound \in Segments, picture \in Segments :
           /\ sound.kind = "ref_audio" /\ sound.rows = 2 * latents.audio_t /\ sound.from = laid.cursor
           /\ picture.kind = "ref_image" /\ picture.rows = latents.t * frame_rows(latents.canvas)
           /\ picture.from = laid.cursor
           /\ \/ next.segments = S /\ latents.audio_t = 0 /\ x.kind = "audio"
              \/ next.segments = Append(S, sound) /\ x.kind = "audio" /\ sound.until <= next.cursor
              \/ /\ next.segments = Append(S, picture) /\ latents.audio_t = 0
                 /\ x.kind # "audio" /\ picture.until <= next.cursor
              \/ /\ next.segments = Append(Append(S, sound), picture) /\ x.kind # "audio"
                 /\ sound.until <= next.cursor /\ picture.until <= next.cursor
  <2>1. now.segments = S /\ now.cursor = laid.cursor
    OBVIOUS
  <2> HIDE DEF now, next, S, latents
  <2> QED BY <1>2, <2>1, FollowIs DEF next, latents
<1>4. PICK sound \in Segments, picture \in Segments :
           /\ sound.kind = "ref_audio" /\ sound.rows = 2 * latents.audio_t /\ sound.from = laid.cursor
           /\ picture.kind = "ref_image" /\ picture.rows = latents.t * frame_rows(latents.canvas)
           /\ picture.from = laid.cursor
           /\ \/ next.segments = S /\ latents.audio_t = 0 /\ x.kind = "audio"
              \/ next.segments = Append(S, sound) /\ x.kind = "audio" /\ sound.until <= next.cursor
              \/ /\ next.segments = Append(S, picture) /\ latents.audio_t = 0
                 /\ x.kind # "audio" /\ picture.until <= next.cursor
              \/ /\ next.segments = Append(Append(S, sound), picture) /\ x.kind # "audio"
                 /\ sound.until <= next.cursor /\ picture.until <= next.cursor
  BY <1>3
<1>5. next.cursor \in Nat
  BY <1>3 DEF Layouts
<1>6. /\ PictureRows(x) \in Nat /\ SoundRows(x) \in Nat
      /\ x.kind # "audio" => PictureRows(x) = picture.rows
      /\ x.kind = "audio" => PictureRows(x) = 0
      /\ SoundRows(x) = sound.rows
      /\ latents.audio_t = 0 => SoundRows(x) = 0
  BY <1>4, ReferenceRows
<1>7. /\ Counted(sound, {"cond", "ref_image"}) = 0 /\ Counted(sound, {"ref_audio"}) = sound.rows
      /\ Counted(picture, {"cond", "ref_image"}) = picture.rows /\ Counted(picture, {"ref_audio"}) = 0
  BY <1>4 DEF Counted
<1> HIDE DEF next, now, latents, S
<1>8. sound.kind \in Conditions /\ picture.kind \in Conditions /\ sound.kind # "cond" /\ picture.kind # "cond"
  BY <1>4 DEF Conditions
<1>9. CASE next.segments = S /\ latents.audio_t = 0 /\ x.kind = "audio"
  <2>1. pictures + PictureRows(x) = pictures /\ sounds + SoundRows(x) = sounds
    BY <1>1, <1>6, <1>9
  <2>2. \A kinds : Rows!RowsOf(next, kinds) = Rows!RowsOf(laid, kinds)
    BY <1>9 DEF Rows!RowsOf, Rows!RowsAmong, S
  <2>3. \A i \in 1..Len(S) : S[i].kind = "cond" \/ S[i].until <= next.cursor
    <3> SUFFICES ASSUME NEW i \in 1..Len(S), S[i].kind # "cond" PROVE S[i].until <= next.cursor
      OBVIOUS
    <3>1. S[i] \in Segments
      BY <1>1, ElementOfSeq
    <3>2. S[i].until \in Nat /\ S[i].until <= laid.cursor
      BY <1>1, <3>1 DEF Segments
    <3> QED BY <1>1, <1>3, <1>5, <3>2
  <2>4. Held(next, r, pictures, sounds)
    BY <1>5, <1>9, <2>2, <2>3 DEF Held, S
  <2> QED BY <2>1, <2>4 DEF next
<1>10. CASE next.segments = Append(S, sound) /\ x.kind = "audio" /\ sound.until <= next.cursor
  <2>1. Continues(laid, next, r, sound)
    BY <1>1, <1>3, <1>4, <1>5, <1>8, <1>10 DEF Continues, S
  <2>2. Held(next, r, pictures + Counted(sound, {"cond", "ref_image"}), sounds + Counted(sound, {"ref_audio"}))
    BY <2>1, HeldGrows
  <2> QED BY <1>6, <1>7, <1>10, <2>2 DEF next
<1>11. CASE /\ next.segments = Append(S, picture) /\ latents.audio_t = 0
            /\ x.kind # "audio" /\ picture.until <= next.cursor
  <2>1. Continues(laid, next, r, picture)
    BY <1>1, <1>3, <1>4, <1>5, <1>8, <1>11 DEF Continues, S
  <2>2. Held(next, r, pictures + Counted(picture, {"cond", "ref_image"}), sounds + Counted(picture, {"ref_audio"}))
    BY <2>1, HeldGrows
  <2> QED BY <1>6, <1>7, <1>11, <2>2 DEF next
<1>12. CASE /\ next.segments = Append(Append(S, sound), picture) /\ x.kind # "audio"
            /\ sound.until <= next.cursor /\ picture.until <= next.cursor
  <2> DEFINE T == Append(S, sound)
             heard == [segments |-> T, cursor |-> next.cursor]
  <2>1. heard.segments = T /\ heard.cursor = next.cursor
    OBVIOUS
  <2>2. /\ Len(T) = Len(S) + 1 /\ T[Len(S) + 1] = sound /\ Len(S) \in Nat
        /\ \A i \in 1..Len(S) : T[i] = S[i]
    BY <1>1, AppendProperties, LenProperties
  <2> HIDE DEF heard
  <2>3. Continues(laid, heard, r, sound)
    BY <1>1, <1>3, <1>4, <1>5, <1>8, <1>12, <2>1 DEF Continues, S
  <2>4. Held(heard, r, pictures + Counted(sound, {"cond", "ref_image"}), sounds + Counted(sound, {"ref_audio"}))
    BY <2>3, HeldGrows
  <2>5. Held(heard, r, pictures, sounds + SoundRows(x))
    <3>1. pictures + Counted(sound, {"cond", "ref_image"}) = pictures
      BY <1>1, <1>7
    <3> QED BY <1>6, <1>7, <2>4, <3>1
  <2>6. Together(sound, picture)
    BY <1>4 DEF Together
  <2> HIDE DEF T
  <2>7. \A i \in 1..Len(T) : T[i].kind = "cond" \/ T[i].until <= picture.from \/ Together(T[i], picture)
    <3> SUFFICES ASSUME NEW i \in 1..Len(S) + 1
                 PROVE  T[i].kind = "cond" \/ T[i].until <= picture.from \/ Together(T[i], picture)
      BY <2>2
    <3>1. CASE i = Len(S) + 1
      BY <2>2, <2>6, <3>1
    <3>2. CASE i # Len(S) + 1
      <4>1. i \in 1..Len(S)
        BY <2>2, <3>2
      <4> QED BY <1>1, <1>4, <2>2, <4>1
    <3> QED BY <3>1, <3>2
  <2>8. next.cursor >= heard.cursor
    BY <1>5, <2>1
  <2>9. Continues(heard, next, r, picture)
    BY <1>4, <1>5, <1>8, <1>12, <2>1, <2>7, <2>8 DEF Continues, T
  <2>10. Held(next, r, pictures + Counted(picture, {"cond", "ref_image"}),
              (sounds + SoundRows(x)) + Counted(picture, {"ref_audio"}))
    BY <2>5, <2>9, HeldGrows
  <2>11. (sounds + SoundRows(x)) + Counted(picture, {"ref_audio"}) = sounds + SoundRows(x)
    BY <1>1, <1>6, <1>7
  <2> QED BY <1>6, <1>7, <1>12, <2>10, <2>11 DEF next
<1> QED BY <1>4, <1>9, <1>10, <1>11, <1>12

\* The canvas of an accepted request gives latents of whole patches.
LEMMA RenderedLatents ==
  ASSUME NEW r \in Requests, ValidCanvas(r)
  PROVE  LET latent == Latent(Rendered(r)[1], Rendered(r)[2])
         IN /\ \A i \in 1..2 : latent[i] \in Nat /\ latent[i] >= 2 /\ latent[i] % 2 = 0
            /\ frame_rows(latent) \in Nat
            /\ \A t \in Nat : t * frame_rows(latent) \in Nat
            /\ (latent[1] * latent[2]) \div 4 = frame_rows(latent)
<1> DEFINE w == Rendered(r)[1]
           h == Rendered(r)[2]
<1>1. /\ r.width \in Int /\ r.height \in Int /\ r.render \in Int \X Int
  BY DEF Requests
<1>2. Canvas(r.width, r.height) /\ (r.render # << 0, 0 >> => Canvas(r.render[1], r.render[2]))
  BY DEF ValidCanvas
<1>3. w \in Int /\ h \in Int /\ Canvas(w, h)
  BY <1>1, <1>2 DEF Rendered
<1> HIDE DEF w, h
<1>4. w > 0 /\ w % 32 = 0 /\ h > 0 /\ h % 32 = 0
  BY <1>3 DEF Canvas, H3_CANVAS_MULTIPLE
<1>5. LET latent == Latent(w, h)
      IN /\ latent = << latent[1], latent[2] >>
         /\ \A i \in 1..2 : latent[i] \in Nat /\ latent[i] >= 2 /\ latent[i] % 2 = 0
         /\ frame_rows(latent) \in Nat
         /\ \A t \in Nat : /\ (t * latent[1] * latent[2]) \div 4 = t * frame_rows(latent)
                           /\ t * frame_rows(latent) \in Nat
         /\ (latent[1] * latent[2]) \div 4 = frame_rows(latent)
  BY <1>3, <1>4, CanvasLatents
<1> QED BY <1>5 DEF w, h

\* A keyframe is laid behind the text.
LEMMA KeyframeHeld ==
  ASSUME NEW r \in Requests, ValidCanvas(r), NEW anchor \in {"first", "last"},
         NEW S, NEW pictures,
         Held([segments |-> S, cursor |-> 3 * r.tokens], r, pictures, 0)
  PROVE  LET latent == Latent(Rendered(r)[1], Rendered(r)[2])
         IN Held([segments |-> S \o Keyframe(r, anchor), cursor |-> 3 * r.tokens], r,
                 pictures + (IF anchor \in r.anchors THEN frame_rows(latent) ELSE 0), 0)
<1> DEFINE rows == frame_rows(Latent(Rendered(r)[1], Rendered(r)[2]))
           laid == [segments |-> S, cursor |-> 3 * r.tokens]
           next == [segments |-> S \o Keyframe(r, anchor), cursor |-> 3 * r.tokens]
           frames == h3_temporal(r.frames).frame_count
           time == KeyframeTime(anchor, r.tokens, h3_temporal(r.frames).video_t)
           s == Segment("cond", rows, time, time + 5)
<1>1. r.tokens \in Nat /\ r.frames \in Int
  BY DEF Requests
<1>2. rows \in Nat
  BY RenderedLatents
<1>3. laid.segments = S /\ laid.cursor = 3 * r.tokens /\ next.segments = S \o Keyframe(r, anchor)
      /\ next.cursor = 3 * r.tokens
  OBVIOUS
<1>4. S \in Seq(Segments) /\ pictures \in Nat
  BY DEF Held
<1>5. \E k \in Nat :
        /\ h3_align_frame_count(r.frames) = 17 * k + 5 /\ frames = h3_align_frame_count(r.frames)
        /\ h3_temporal(r.frames).video_t = 5 * k + 2
        /\ h3_video_span_sum(h3_temporal(r.frames).video_t) = 5 * h3_align_frame_count(r.frames)
        /\ h3_temporal(r.frames).audio_t \in Nat \ {0}
        /\ 3 * h3_temporal(r.frames).audio_t - 5 * h3_align_frame_count(r.frames) \in -1..1
  BY <1>1, ClipTimes
<1>6. frames \in Nat /\ frames >= 5 /\ h3_video_span_sum(h3_temporal(r.frames).video_t) = 5 * frames
  BY <1>5
<1>7. time = IF anchor = "first" THEN 3 * r.tokens ELSE 3 * r.tokens + 5 * frames - 5
  BY <1>6 DEF KeyframeTime
<1> HIDE DEF frames, time
<1>8. time \in Nat /\ time >= 3 * r.tokens /\ time - 3 * r.tokens \in {0, 5 * (frames - 1)} /\ time + 5 \in Nat
  BY <1>1, <1>6, <1>7
<1> HIDE DEF rows
<1>9. CASE anchor \notin r.anchors
  <2>1. Keyframe(r, anchor) = << >>
    BY <1>9 DEF Keyframe
  <2>2. S \o << >> = S
    BY <1>4, ConcatEmptySeq
  <2>3. next = laid
    BY <2>1, <2>2
  <2>4. pictures + 0 = pictures
    BY <1>4
  <2>5. Held(next, r, pictures, 0)
    BY <2>3
  <2> HIDE DEF next
  <2> QED BY <1>9, <2>4, <2>5 DEF next
<1>10. CASE anchor \in r.anchors
  <2>1. Keyframe(r, anchor) = << s >>
    BY <1>10 DEF Keyframe, rows, time
  <2>2. /\ s \in Segments /\ s.kind = "cond" /\ s.from = time /\ s.rows = rows
    BY <1>2, <1>8 DEF Segment, Segments, Kinds
  <2> HIDE DEF s
  <2>3. next.segments = Append(laid.segments, s)
    BY <1>3, <1>4, <2>1, <2>2, AppendIsConcat
  <2>4. \A i \in 1..Len(S) : S[i].kind = "cond" \/ S[i].until <= time
    <3> SUFFICES ASSUME NEW i \in 1..Len(S), S[i].kind # "cond" PROVE S[i].until <= time
      OBVIOUS
    <3>1. S[i].until <= 3 * r.tokens
      <4>1. \A j \in 1..Len(laid.segments) : laid.segments[j].kind = "cond" \/ laid.segments[j].until <= laid.cursor
        BY DEF Held
      <4> HIDE DEF laid
      <4> QED BY <1>3, <4>1
    <3>2. S[i] \in Segments
      BY <1>4, ElementOfSeq
    <3>3. S[i].until \in Nat
      BY <3>2 DEF Segments
    <3> QED BY <1>1, <1>8, <3>1, <3>3
  <2>5. Continues(laid, next, r, s)
    <3>1. s.kind \in Conditions /\ r.anchors # {} /\ next.cursor \in Nat /\ next.cursor >= laid.cursor
      BY <1>1, <1>3, <1>10, <2>2 DEF Conditions
    <3> HIDE DEF laid, next
    <3> QED BY <1>3, <1>8, <2>2, <2>3, <2>4, <3>1 DEF Continues, frames
  <2>6. Held(next, r, pictures + Counted(s, {"cond", "ref_image"}), 0 + Counted(s, {"ref_audio"}))
    <3> HIDE DEF next
    <3>1. Held(laid, r, pictures, 0)
      OBVIOUS
    <3> HIDE DEF laid
    <3> QED BY <2>5, <3>1, HeldGrows
  <2>7. Counted(s, {"cond", "ref_image"}) = rows /\ 0 + Counted(s, {"ref_audio"}) = 0
    BY <2>2 DEF Counted
  <2>8. Held(next, r, pictures + rows, 0)
    BY <2>6, <2>7
  <2> HIDE DEF next
  <2> QED BY <1>10, <2>8 DEF next, rows
<1> QED BY <1>9, <1>10

\* What holds of the text and the keyframes.
LEMMA OpeningHeld ==
  ASSUME NEW r \in Requests, ValidCanvas(r)
  PROVE  Opening(r) \in Layouts /\ Held(Opening(r), r, AnchorRows(r), 0)
<1> DEFINE rows == frame_rows(Latent(Rendered(r)[1], Rendered(r)[2]))
           text == Segment("text", r.tokens, 0, 3 * r.tokens)
           none == [segments |-> << >>, cursor |-> 0]
           begun == [segments |-> << text >>, cursor |-> 3 * r.tokens]
           sum(anchor) == IF anchor \in r.anchors THEN rows ELSE 0
<1>1. r.tokens \in Nat /\ r.anchors \in SUBSET {"first", "last"}
  BY DEF Requests
<1>2. rows \in Nat /\ AnchorRows(r) = Cardinality(r.anchors) * rows
  BY RenderedLatents DEF AnchorRows
<1>3. text \in Segments /\ text.kind = "text" /\ text.rows = r.tokens /\ text.until = 3 * r.tokens
  BY <1>1 DEF Segment, Segments, Kinds
<1> HIDE DEF text, rows
<1>4. Lengthens(none, begun, text)
  <2>1. << >> \in Seq(Segments) /\ Append(<< >>, text) = << text >>
    BY <1>3
  <2> QED BY <1>3, <2>1 DEF Lengthens
<1>5. Longer(none, begun, text)
  <2> HIDE DEF none, begun
  <2> QED BY <1>4, AppendCounts
<1>6. \A kinds : Rows!RowsOf(none, kinds) = 0
  <2>1. Alike(none, none, 0) /\ 0 \in Nat
    BY DEF Alike
  <2>2. Len(none.segments) = 0
    OBVIOUS
  <2> HIDE DEF none
  <2>3. ASSUME NEW kinds PROVE Rows!RowsOf(none, kinds) = 0
    BY <2>1, <2>2, RowsGrow DEF Rows!RowsOf
  <2> QED BY <2>3
<1>7. \A kinds : Rows!RowsOf(begun, kinds) = 0 + Counted(text, kinds)
  <2> HIDE DEF none, begun
  <2> QED BY <1>5, <1>6 DEF Longer
<1>8. begun.segments = << text >> /\ Len(begun.segments) = 1 /\ begun.segments[1] = text
      /\ begun.cursor = 3 * r.tokens /\ begun.segments \in Seq(Segments)
  BY <1>3
<1>9. Held(begun, r, 0, 0)
  <2> HIDE DEF begun
  <2>1. /\ Rows!RowsOf(begun, {"text"}) = r.tokens /\ Rows!RowsOf(begun, {"cond", "ref_image"}) = 0
        /\ Rows!RowsOf(begun, {"ref_audio"}) = 0
        /\ Rows!RowsOf(begun, {"video"}) = 0 /\ Rows!RowsOf(begun, {"audio"}) = 0
    <3>1. /\ Counted(text, {"text"}) = r.tokens /\ Counted(text, {"cond", "ref_image"}) = 0
          /\ Counted(text, {"ref_audio"}) = 0 /\ Counted(text, {"video"}) = 0 /\ Counted(text, {"audio"}) = 0
      BY <1>3 DEF Counted
    <3> QED BY <1>1, <1>7, <3>1
  <2>2. InTurn(begun.segments)
    BY <1>8 DEF InTurn
  <2>3. \A i \in 1..Len(begun.segments) : i = 1
    BY <1>8
  <2>4. \A i \in 1..Len(begun.segments) : begun.segments[i].kind = "cond" \/ begun.segments[i].until <= begun.cursor
    BY <1>1, <1>3, <1>8, <2>3
  <2>5. \A i \in 1..Len(begun.segments) : begun.segments[i].kind # "cond"
    BY <1>3, <1>8, <2>3
  <2>6. \A i \in 2..Len(begun.segments) : begun.segments[i].kind \in Conditions
    BY <1>8
  <2>7. begun.cursor \in Nat
    BY <1>1, <1>8
  <2> QED BY <1>3, <1>8, <2>1, <2>2, <2>4, <2>5, <2>6, <2>7 DEF Held
<1> DEFINE S == << text >> \o Keyframe(r, "first")
           T == S \o Keyframe(r, "last")
<1>10. Held([segments |-> S, cursor |-> 3 * r.tokens], r, 0 + sum("first"), 0)
  BY <1>9, KeyframeHeld DEF rows
<1>11. Held([segments |-> T, cursor |-> 3 * r.tokens], r, 0 + sum("first") + sum("last"), 0)
  <2> DEFINE before == 0 + sum("first")
  <2>1. Held([segments |-> S, cursor |-> 3 * r.tokens], r, before, 0)
    BY <1>10
  <2> HIDE DEF S, before
  <2>2. Held([segments |-> T, cursor |-> 3 * r.tokens], r, before + sum("last"), 0)
    BY <2>1, KeyframeHeld DEF rows
  <2> QED BY <2>2 DEF before
<1>12. 0 + sum("first") + sum("last") = Cardinality(r.anchors) * rows
  <2>1. r.anchors = {} \/ r.anchors = {"first"} \/ r.anchors = {"last"} \/ r.anchors = {"first", "last"}
    BY <1>1
  <2>2. CASE r.anchors = {}
    BY <1>2, <2>2, FS_EmptySet
  <2>3. CASE r.anchors = {"first"}
    <3>1. Cardinality(r.anchors) = 1
      BY <2>3, FS_Singleton
    <3> QED BY <1>2, <2>3, <3>1
  <2>4. CASE r.anchors = {"last"}
    <3>1. Cardinality(r.anchors) = 1
      BY <2>4, FS_Singleton
    <3> QED BY <1>2, <2>4, <3>1
  <2>5. CASE r.anchors = {"first", "last"}
    <3>1. Cardinality({"first"}) = 1 /\ IsFiniteSet({"first"})
      BY FS_Singleton
    <3>2. r.anchors = {"first"} \cup {"last"} /\ "last" \notin {"first"}
      BY <2>5
    <3>3. Cardinality(r.anchors) = 2
      BY <3>1, <3>2, FS_AddElement
    <3> QED BY <1>2, <2>5, <3>3
  <2> QED BY <2>1, <2>2, <2>3, <2>4, <2>5
<1>13. Opening(r) = [segments |-> T, cursor |-> 3 * r.tokens]
  BY DEF Opening, text
<1>14. Held(Opening(r), r, AnchorRows(r), 0)
  BY <1>2, <1>11, <1>12, <1>13
<1>15. Opening(r) \in Layouts
  <2>1. Opening(r).segments \in Seq(Segments) /\ Opening(r).cursor \in Nat
    BY <1>14 DEF Held
  <2>2. Opening(r) = [segments |-> Opening(r).segments, cursor |-> Opening(r).cursor]
    BY <1>13
  <2> QED BY <2>1, <2>2 DEF Layouts
<1> QED BY <1>14, <1>15

\* The layout of an accepted request: what is laid before the clip, and the clip.
LEMMA LayoutHeld ==
  ASSUME NEW r \in Requests, AcceptedRequest(r)
  PROVE  \E laid \in Layouts :
           /\ Held(laid, r, PackedRows(r).videoCondition, PackedRows(r).audioCondition)
           /\ h3_layout_build(r) = Closing(r, laid)
           /\ r.references = << >> => laid.cursor = 3 * r.tokens
<1> DEFINE refs == r.references
           n == Len(refs)
<1>1. refs \in Seq(References)
  BY DEF Requests
<1>2. n \in Nat /\ refs \in [1..n -> References] /\ DOMAIN refs = 1..n
  BY <1>1, LenProperties
<1>3. ValidCanvas(r) /\ \A i \in DOMAIN refs : Plannable(refs[i])
  BY DEF AcceptedRequest, h3_valid_params, Plannable
<1>4. Opening(r) \in Layouts /\ Held(Opening(r), r, AnchorRows(r), 0)
  BY <1>3, OpeningHeld
<1> HIDE DEF n
<1>5. \A i \in 1..n : Plannable(refs[i])
  BY <1>2, <1>3
<1> DEFINE f == refs
<1>0. r.references = f /\ f \in [1..n -> References] /\ \A i \in 1..n : Plannable(f[i])
  BY <1>2, <1>5
<1> HIDE DEF f
<1>6. PICK laid : LaidOut(laid, r, n, f)
  BY <1>0, <1>2, <1>4, LayoutFolds
<1>7. PICK pictures, sounds : Packed(pictures, sounds, r, n, f)
  BY <1>0, <1>2, PackedFolds
<1>8. /\ laid \in [0..n -> Layouts] /\ laid[0] = Opening(r) /\ h3_layout_build(r) = Closing(r, laid[n])
      /\ \A i \in 0..n - 1 : laid[i + 1] = Follow(laid[i], f[i + 1])
  BY <1>6 DEF LaidOut
<1>9. /\ pictures \in [0..n -> Nat] /\ pictures[0] = 0
      /\ \A i \in 0..n - 1 : pictures[i + 1] = pictures[i] + [j \in 1..n |-> PictureRows(f[j])][i + 1]
  BY <1>7 DEF Packed, Summed
<1>10. /\ sounds \in [0..n -> Nat] /\ sounds[0] = 0
       /\ \A i \in 0..n - 1 : sounds[i + 1] = sounds[i] + [j \in 1..n |-> SoundRows(f[j])][i + 1]
  BY <1>7 DEF Packed, Summed
<1>11. PackedRows(r).videoCondition = AnchorRows(r) + pictures[n] /\ PackedRows(r).audioCondition = sounds[n]
  BY <1>7 DEF Packed
<1>12. AnchorRows(r) \in Nat
  BY <1>4 DEF Held
<1> DEFINE Good == {i \in 0..n : Held(laid[i], r, AnchorRows(r) + pictures[i], sounds[i])}
<1>13. 0 \in Good
  <2>1. AnchorRows(r) + 0 = AnchorRows(r) /\ 0 \in 0..n
    BY <1>2, <1>12
  <2> QED BY <1>4, <1>8, <1>9, <1>10, <2>1
<1>14. ASSUME NEW i \in 0..n, i \in Good, i < n PROVE i + 1 \in Good
  <2>1. Held(laid[i], r, AnchorRows(r) + pictures[i], sounds[i])
    BY <1>14
  <2>2. i \in 0..n - 1 /\ i + 1 \in 1..n /\ i + 1 \in 0..n
    BY <1>2, <1>14
  <2>3. f[i + 1] \in References /\ Plannable(f[i + 1])
    BY <1>0, <2>2
  <2>4. PictureRows(f[i + 1]) \in Nat /\ SoundRows(f[i + 1]) \in Nat
    BY <2>3, ReferenceRows
  <2>5. pictures[i + 1] = pictures[i] + PictureRows(f[i + 1]) /\ sounds[i + 1] = sounds[i] + SoundRows(f[i + 1])
    BY <1>9, <1>10, <2>2
  <2>6. laid[i + 1] = Follow(laid[i], f[i + 1])
    BY <1>8, <2>2
  <2>7. Held(laid[i + 1], r, (AnchorRows(r) + pictures[i]) + PictureRows(f[i + 1]), sounds[i] + SoundRows(f[i + 1]))
    BY <2>1, <2>3, <2>6, HeldFollows
  <2>8. (AnchorRows(r) + pictures[i]) + PictureRows(f[i + 1]) = AnchorRows(r) + pictures[i + 1]
    <3>1. pictures[i] \in Nat
      BY <1>9
    <3> QED BY <1>12, <2>4, <2>5, <3>1
  <2> QED BY <2>2, <2>5, <2>7, <2>8
<1>15. n \in Good
  <2>1. n \in 0..n /\ 0 \in Nat
    BY <1>2
  <2> HIDE DEF Good
  <2> QED BY <1>2, <1>13, <1>14, <2>1, Ascends
<1>16. laid[n] \in Layouts
  BY <1>2, <1>8
<1>17. Held(laid[n], r, PackedRows(r).videoCondition, PackedRows(r).audioCondition)
  BY <1>11, <1>15
<1>18. r.references = << >> => laid[n].cursor = 3 * r.tokens
  <2>1. r.references = << >> => n = 0
    BY DEF n
  <2>2. Opening(r).cursor = 3 * r.tokens
    BY DEF Opening
  <2> QED BY <1>8, <2>1, <2>2
<1> QED BY <1>8, <1>16, <1>17, <1>18

\* Two segments, one after the other.
LEMMA PairIs ==
  ASSUME NEW a \in Segments, NEW b \in Segments
  PROVE  << a >> \o << b >> = << a, b >>
<1> DEFINE S == << a >>
           T == << b >>
           pair == << a, b >>
           both == S \o T
<1>1. /\ S \in Seq(Segments) /\ T \in Seq(Segments) /\ pair \in Seq(Segments)
      /\ Len(S) = 1 /\ Len(T) = 1 /\ Len(pair) = 2
      /\ S[1] = a /\ T[1] = b /\ pair[1] = a /\ pair[2] = b
  OBVIOUS
<1> HIDE DEF S, T, pair
<1>2. /\ both \in Seq(Segments) /\ Len(both) = 1 + 1 /\ both[1] = a /\ both[2] = b
  BY <1>1, ConcatProperties
<1> HIDE DEF both
<1>3. \A i \in 1..Len(both) : both[i] = pair[i]
  BY <1>1, <1>2
<1>4. Len(both) = Len(pair)
  BY <1>1, <1>2
<1>5. both = pair
  BY <1>1, <1>2, <1>3, <1>4, SeqEqual
<1> QED BY <1>5 DEF both, pair, S, T

\* The layout of an accepted request, with its two last segments told apart.
LEMMA LayoutEnds ==
  ASSUME NEW r \in Requests, AcceptedRequest(r)
  PROVE  \E laid \in Layouts, heard \in Layouts, audio \in Segments, video \in Segments :
           /\ Held(laid, r, PackedRows(r).videoCondition, PackedRows(r).audioCondition)
           /\ r.references = << >> => laid.cursor = 3 * r.tokens
           /\ Lengthens(laid, heard, audio) /\ Lengthens(heard, h3_layout_build(r), video)
           /\ audio.kind = "audio" /\ video.kind = "video"
           /\ audio.from = laid.cursor /\ video.from = laid.cursor
           /\ LET latent == Latent(Rendered(r)[1], Rendered(r)[2])
                  temporal == h3_temporal(r.frames)
              IN /\ audio.until = laid.cursor + 3 * temporal.audio_t
                 /\ video.until = laid.cursor + 5 * temporal.frame_count
                 /\ video.rows = temporal.video_t * frame_rows(latent)
                 /\ h3_layout_build(r).latent = << temporal.video_t, latent[1], latent[2] >>
                 /\ h3_layout_build(r).audio = temporal.audio_t
<1> DEFINE temporal == h3_temporal(r.frames)
           latent == Latent(Rendered(r)[1], Rendered(r)[2])
           span == h3_video_span_sum(temporal.video_t)
<1>1. PICK laid \in Layouts :
        /\ Held(laid, r, PackedRows(r).videoCondition, PackedRows(r).audioCondition)
        /\ h3_layout_build(r) = Closing(r, laid)
        /\ r.references = << >> => laid.cursor = 3 * r.tokens
  BY LayoutHeld
<1>2. r.frames \in Int
  BY DEF Requests
<1>3. \E k \in Nat :
        /\ h3_align_frame_count(r.frames) = 17 * k + 5 /\ temporal.frame_count = h3_align_frame_count(r.frames)
        /\ temporal.video_t = 5 * k + 2
        /\ span = 5 * h3_align_frame_count(r.frames)
        /\ temporal.audio_t \in Nat \ {0}
        /\ 3 * temporal.audio_t - 5 * h3_align_frame_count(r.frames) \in -1..1
  BY <1>2, ClipTimes
<1>4. temporal.video_t \in Nat /\ temporal.audio_t \in Nat /\ temporal.frame_count \in Nat /\ span = 5 * temporal.frame_count
  BY <1>3
<1>5. temporal.video_t * frame_rows(latent) \in Nat
  <2>1. ValidCanvas(r)
    BY DEF AcceptedRequest, h3_valid_params
  <2> HIDE DEF temporal
  <2> QED BY <1>4, <2>1, RenderedLatents
<1> DEFINE rows == temporal.video_t * frame_rows(latent)
           S == laid.segments
           cursor == laid.cursor
           audio == Segment("audio", 2 * temporal.audio_t, cursor, cursor + 3 * temporal.audio_t)
           video == Segment("video", rows, cursor, cursor + span)
           heard == [segments |-> Append(S, audio), cursor |-> cursor]
           layout == h3_layout_build(r)
<1>6. /\ layout.segments = S \o << audio, video >>
      /\ layout.latent = << temporal.video_t, latent[1], latent[2] >> /\ layout.audio = temporal.audio_t
  BY <1>1 DEF Closing
<1>7. S \in Seq(Segments) /\ cursor \in Nat
  BY DEF Layouts
<1>8. heard.segments = Append(S, audio) /\ heard.cursor = cursor
  OBVIOUS
<1>9. /\ audio.kind = "audio" /\ audio.from = cursor /\ audio.until = cursor + 3 * temporal.audio_t
      /\ video.kind = "video" /\ video.from = cursor /\ video.until = cursor + span /\ video.rows = rows
  BY DEF Segment
<1> HIDE DEF rows, span, layout, temporal, S, cursor
<1>10. audio \in Segments /\ video \in Segments
  <2> DEFINE twice == 2 * temporal.audio_t
             over == cursor + 3 * temporal.audio_t
             seen == cursor + span
  <2>1. twice \in Nat /\ over \in Nat /\ seen \in Nat /\ rows \in Nat /\ cursor \in Nat
    BY SMTT(30), <1>4, <1>5, <1>7 DEF rows
  <2>2. audio = Segment("audio", twice, cursor, over) /\ video = Segment("video", rows, cursor, seen)
    BY DEF audio, video
  <2> HIDE DEF twice, over, seen, audio, video
  <2> QED BY <2>1, <2>2 DEF Segment, Segments, Kinds
<1> HIDE DEF audio, video
<1>11. Append(S, audio) \in Seq(Segments)
  BY <1>7, <1>10, AppendProperties
<1>12. layout.segments = Append(Append(S, audio), video)
  <2>1. Append(S, audio) = S \o << audio >> /\ Append(Append(S, audio), video) = Append(S, audio) \o << video >>
    BY <1>7, <1>10, <1>11, AppendIsConcat
  <2>2. /\ << audio >> \in Seq(Segments) /\ << video >> \in Seq(Segments)
        /\ << audio >> \o << video >> = << audio, video >>
    <3>1. << audio >> \in Seq(Segments) /\ << video >> \in Seq(Segments)
      BY <1>10
    <3>2. << audio >> \o << video >> = << audio, video >>
      BY <1>10, PairIs
    <3> QED BY <3>1, <3>2
  <2>3. (S \o << audio >>) \o << video >> = S \o (<< audio >> \o << video >>)
    BY <1>7, <2>2, ConcatAssociative
  <2> QED BY <1>6, <2>1, <2>2, <2>3
<1>13. heard \in Layouts
  BY <1>7, <1>11 DEF Layouts
<1> HIDE DEF heard
<1>14. Lengthens(laid, heard, audio) /\ Lengthens(heard, layout, video)
  BY <1>7, <1>8, <1>10, <1>11, <1>12 DEF Lengthens, S
<1> QED BY <1>1, <1>4, <1>6, <1>9, <1>10, <1>13, <1>14 DEF layout, temporal, cursor, rows

(***************************************************************************)
(* The plan of a request.                                                  *)
(***************************************************************************)
PlanInv ==
  /\ request \in Requests
  /\ Planned => /\ AcceptedRequest(request)
                /\ planned = h3_layout_build(request) /\ encoded = PackedRows(request)

\* What is known of a layout that is planned: laid are the segments before the clip, heard
\* those with its sound.
Ends(laid, heard, audio, video) ==
  LET latent == Latent(Rendered(request)[1], Rendered(request)[2])
      temporal == h3_temporal(request.frames)
  IN /\ Held(laid, request, encoded.videoCondition, encoded.audioCondition)
     /\ request.references = << >> => laid.cursor = 3 * request.tokens
     /\ Longer(laid, heard, audio) /\ Longer(heard, planned, video)
     /\ InTurn(planned.segments)
     /\ audio.kind = "audio" /\ video.kind = "video" /\ video.rows \in Nat
     /\ audio.from = laid.cursor /\ video.from = laid.cursor
     /\ audio.until = laid.cursor + 3 * temporal.audio_t
     /\ video.until = laid.cursor + 5 * temporal.frame_count
     /\ video.rows = temporal.video_t * frame_rows(latent)
     /\ planned.latent = << temporal.video_t, latent[1], latent[2] >>
     /\ planned.audio = temporal.audio_t

\* The layout of a planned request ends with sound and picture of the clip, and all its
\* segments are in turn.
LEMMA PlannedEnds ==
  ASSUME PlanInv, Planned
  PROVE  \E laid, heard, audio, video : Ends(laid, heard, audio, video)
<1> DEFINE r == request
<1>1. r \in Requests /\ AcceptedRequest(r) /\ planned = h3_layout_build(r) /\ encoded = PackedRows(r)
  BY DEF PlanInv
<1>2. PICK laid \in Layouts, heard \in Layouts, audio \in Segments, video \in Segments :
           /\ Held(laid, r, PackedRows(r).videoCondition, PackedRows(r).audioCondition)
           /\ r.references = << >> => laid.cursor = 3 * r.tokens
           /\ Lengthens(laid, heard, audio) /\ Lengthens(heard, h3_layout_build(r), video)
           /\ audio.kind = "audio" /\ video.kind = "video"
           /\ audio.from = laid.cursor /\ video.from = laid.cursor
           /\ LET latent == Latent(Rendered(r)[1], Rendered(r)[2])
                  temporal == h3_temporal(r.frames)
              IN /\ audio.until = laid.cursor + 3 * temporal.audio_t
                 /\ video.until = laid.cursor + 5 * temporal.frame_count
                 /\ video.rows = temporal.video_t * frame_rows(latent)
                 /\ h3_layout_build(r).latent = << temporal.video_t, latent[1], latent[2] >>
                 /\ h3_layout_build(r).audio = temporal.audio_t
  BY <1>1, LayoutEnds
<1> HIDE DEF r
<1>3. Longer(laid, heard, audio) /\ Longer(heard, planned, video)
  BY <1>1, <1>2, AppendCounts
<1>4. /\ laid.segments \in Seq(Segments) /\ heard.segments = Append(laid.segments, audio)
      /\ heard.segments \in Seq(Segments) /\ planned.segments = Append(heard.segments, video)
  BY <1>1, <1>2 DEF Lengthens
<1>5. InTurn(laid.segments) /\ \A i \in 1..Len(laid.segments) :
        laid.segments[i].kind = "cond" \/ laid.segments[i].until <= laid.cursor
  BY <1>2 DEF Held
<1>6. InTurn(heard.segments)
  <2>1. InTurn(Append(laid.segments, audio))
    BY <1>2, <1>4, <1>5, AppendInTurn
  <2> QED BY <1>4, <2>1
<1>7. InTurn(planned.segments)
  <2> DEFINE T == heard.segments
             n == Len(laid.segments)
  <2>1. n \in Nat /\ Len(T) = n + 1 /\ T[n + 1] = audio /\ \A i \in 1..n : T[i] = laid.segments[i]
    BY <1>3, <1>4, LenProperties DEF Longer
  <2>2. Together(audio, video)
    BY <1>2 DEF Together
  <2>3. \A i \in 1..n + 1 : T[i].kind = "cond" \/ T[i].until <= video.from \/ Together(T[i], video)
    <3> SUFFICES ASSUME NEW i \in 1..n + 1
                 PROVE  T[i].kind = "cond" \/ T[i].until <= video.from \/ Together(T[i], video)
      OBVIOUS
    <3>1. CASE i = n + 1
      BY <2>1, <2>2, <3>1
    <3>2. CASE i # n + 1
      <4>1. i \in 1..n
        BY <2>1, <3>2
      <4>2. T[i] = laid.segments[i]
        BY <2>1, <4>1
      <4>3. laid.segments[i].kind = "cond" \/ laid.segments[i].until <= video.from
        BY <1>2, <1>5, <4>1
      <4> HIDE DEF T
      <4> QED BY <4>2, <4>3
    <3> QED BY <3>1, <3>2
  <2> HIDE DEF n
  <2>4. InTurn(Append(T, video))
    BY <1>2, <1>4, <1>6, <2>1, <2>3, AppendInTurn
  <2> QED BY <1>4, <2>4
<1>8. video.rows \in Nat
  BY <1>2 DEF Segments
<1>9. Ends(laid, heard, audio, video)
  BY <1>1, <1>2, <1>3, <1>7, <1>8 DEF Ends, r
<1> QED BY <1>9

\* The segments of a planned layout by their places.
LEMMA PlacesOf ==
  ASSUME NEW laid, NEW heard, NEW audio, NEW video, Ends(laid, heard, audio, video)
  PROVE  LET S == planned.segments
             n == Len(laid.segments)
         IN /\ n \in Nat /\ n >= 1 /\ Len(S) = n + 2 /\ S[n + 1] = audio /\ S[n + 2] = video
            /\ \A i \in 1..n : S[i] = laid.segments[i]
            /\ DOMAIN S = 1..(n + 2)
<1> DEFINE S == planned.segments
           T == heard.segments
           n == Len(laid.segments)
<1>1. Longer(laid, heard, audio) /\ Longer(heard, planned, video)
      /\ laid.segments \in Seq(Segments) /\ n >= 1
  BY DEF Ends, Held
<1>2. n \in Nat
  BY <1>1, LenProperties
<1>3. Len(T) = n + 1 /\ T[n + 1] = audio /\ \A i \in 1..n : T[i] = laid.segments[i]
  BY <1>1 DEF Longer
<1>4. Len(S) = Len(T) + 1 /\ S[Len(T) + 1] = video /\ S \in Seq(Segments) /\ \A i \in 1..Len(T) : S[i] = T[i]
  BY <1>1 DEF Longer
<1> HIDE DEF S, T, n
<1>5. DOMAIN S = 1..Len(S)
  BY <1>4, LenProperties
<1>6. n + 1 + 1 = n + 2 /\ n + 1 \in 1..n + 1 /\ \A i \in 1..n : i \in 1..n + 1
  BY <1>2
<1> QED BY <1>1, <1>2, <1>3, <1>4, <1>5, <1>6 DEF S, n

\* The items of a plan follow each other in time.
LEMMA PlanTimeline ==
  ASSUME PlanInv
  PROVE  TimelineHolds
<1> SUFFICES ASSUME Planned PROVE TimelineHolds
  BY DEF TimelineHolds
<1> DEFINE S == planned.segments
           last == Len(S)
           frames == h3_temporal(request.frames).frame_count
<1>1. PICK laid, heard, audio, video : Ends(laid, heard, audio, video)
  BY PlannedEnds
<1> DEFINE n == Len(laid.segments)
<1>2. /\ n \in Nat /\ n >= 1 /\ last = n + 2 /\ S[n + 1] = audio /\ S[n + 2] = video
      /\ \A i \in 1..n : S[i] = laid.segments[i]
  BY <1>1, PlacesOf
<1>3. request \in Requests /\ AcceptedRequest(request)
  BY DEF PlanInv
<1>4. request.frames \in Int /\ request.tokens \in Nat
  BY <1>3 DEF Requests
<1>5. \E k \in Nat :
        /\ h3_align_frame_count(request.frames) = 17 * k + 5
        /\ frames = h3_align_frame_count(request.frames)
        /\ h3_temporal(request.frames).video_t = 5 * k + 2
        /\ h3_video_span_sum(h3_temporal(request.frames).video_t) = 5 * h3_align_frame_count(request.frames)
        /\ h3_temporal(request.frames).audio_t \in Nat \ {0}
        /\ 3 * h3_temporal(request.frames).audio_t - 5 * h3_align_frame_count(request.frames) \in -1..1
  BY <1>4, ClipTimes
<1> DEFINE audio_t == h3_temporal(request.frames).audio_t
<1>6. frames \in Nat /\ audio_t \in Nat /\ 3 * audio_t - 5 * frames \in -1..1
  BY <1>5
<1>7. /\ laid.cursor \in Nat /\ audio.from = laid.cursor /\ video.from = laid.cursor
      /\ audio.until = laid.cursor + 3 * audio_t /\ video.until = laid.cursor + 5 * frames
      /\ audio.kind = "audio" /\ video.kind = "video" /\ InTurn(S)
      /\ request.references = << >> => laid.cursor = 3 * request.tokens
  BY <1>1 DEF Ends, Held
<1>8. \A i \in 1..n : laid.segments[i].kind = "cond" =>
        /\ request.anchors # {}
        /\ laid.segments[i].from - 3 * request.tokens \in {0, 5 * (frames - 1)}
  BY <1>1 DEF Ends, Held
<1>9. request.anchors # {} => request.references = << >>
  BY <1>3 DEF AcceptedRequest, h3_valid_params, ValidReferences
<1> HIDE DEF frames, audio_t, S, n, last
<1>10. \A i \in 1..last : S[i].kind = "cond" => (S[i].from - S[last].from) \in {0, 5 * (frames - 1)}
  <2> SUFFICES ASSUME NEW i \in 1..last, S[i].kind = "cond"
               PROVE  (S[i].from - S[last].from) \in {0, 5 * (frames - 1)}
    OBVIOUS
  <2>1. i \in 1..n
    BY <1>2, <1>7
  <2>2. S[i] = laid.segments[i] /\ laid.segments[i].kind = "cond"
    BY <1>2, <2>1
  <2>3. laid.segments[i].from - 3 * request.tokens \in {0, 5 * (frames - 1)} /\ laid.cursor = 3 * request.tokens
    BY <1>7, <1>8, <1>9, <2>1, <2>2
  <2> QED BY <1>2, <1>7, <2>2, <2>3
<1>11. S[last].until - S[last - 1].until \in -1..1
  <2>1. last - 1 = n + 1
    BY <1>2
  <2>2. S[last].until = laid.cursor + 5 * frames /\ S[last - 1].until = laid.cursor + 3 * audio_t
    BY <1>2, <1>7, <2>1
  <2> QED BY <1>6, <1>7, <2>2
<1>12. \A i \in 1..last, j \in 1..last :
         i < j => \/ S[i].kind = "cond"
                  \/ S[i].until <= S[j].from \/ S[j].until <= S[i].from
                  \/ S[i].from = S[j].from /\ {S[i].kind, S[j].kind} \in {{"audio", "video"}, {"ref_audio", "ref_image"}}
  BY <1>7 DEF InTurn, Together, last
<1> QED BY <1>10, <1>11, <1>12 DEF TimelineHolds, S, last, frames

\* The rows of a planned layout, by kind: those of what is laid before the clip, and the clip's.
LEMMA RowsOfPlan ==
  ASSUME NEW laid, NEW heard, NEW audio, NEW video, Ends(laid, heard, audio, video)
  PROVE  /\ Rows!RowsOf(planned, {"text"}) = request.tokens
         /\ Rows!RowsOf(planned, {"cond", "ref_image"}) = encoded.videoCondition
         /\ Rows!RowsOf(planned, {"ref_audio"}) = encoded.audioCondition
         /\ Rows!RowsOf(planned, {"video"}) = video.rows
         /\ \A kinds : /\ Rows!RowsAmong(planned, Len(planned.segments) - 1, kinds) \in Nat
                       /\ Rows!RowsOf(planned, kinds) =
                            Rows!RowsAmong(planned, Len(planned.segments) - 1, kinds) + Counted(video, kinds)
<1>1. /\ Longer(laid, heard, audio) /\ Longer(heard, planned, video)
      /\ audio.kind = "audio" /\ video.kind = "video" /\ video.rows \in Nat
  BY DEF Ends
<1>2. /\ Rows!RowsOf(laid, {"text"}) = request.tokens
      /\ Rows!RowsOf(laid, {"cond", "ref_image"}) = encoded.videoCondition
      /\ Rows!RowsOf(laid, {"ref_audio"}) = encoded.audioCondition
      /\ Rows!RowsOf(laid, {"video"}) = 0
  BY DEF Ends, Held
<1>3. \A kinds : /\ Rows!RowsOf(laid, kinds) \in Nat
                 /\ Rows!RowsOf(heard, kinds) = Rows!RowsOf(laid, kinds) + Counted(audio, kinds)
  BY <1>1 DEF Longer
<1>4. \A kinds : /\ Rows!RowsOf(heard, kinds) \in Nat
                 /\ Rows!RowsOf(planned, kinds) = Rows!RowsOf(heard, kinds) + Counted(video, kinds)
                 /\ Rows!RowsAmong(planned, Len(planned.segments) - 1, kinds) = Rows!RowsOf(heard, kinds)
  BY <1>1 DEF Longer
<1>5. /\ Counted(audio, {"text"}) = 0 /\ Counted(audio, {"cond", "ref_image"}) = 0
      /\ Counted(audio, {"ref_audio"}) = 0 /\ Counted(audio, {"video"}) = 0
      /\ Counted(video, {"text"}) = 0 /\ Counted(video, {"cond", "ref_image"}) = 0
      /\ Counted(video, {"ref_audio"}) = 0 /\ Counted(video, {"video"}) = video.rows
  BY <1>1 DEF Counted
<1>6. ASSUME NEW kinds, Counted(audio, kinds) = 0, Counted(video, kinds) = 0
      PROVE  Rows!RowsOf(planned, kinds) = Rows!RowsOf(laid, kinds)
  <2> DEFINE a == Rows!RowsOf(laid, kinds)
             b == Rows!RowsOf(heard, kinds)
             c == Rows!RowsOf(planned, kinds)
  <2>1. a \in Nat /\ b = a + 0 /\ b \in Nat /\ c = b + 0
    BY <1>3, <1>4, <1>6
  <2> HIDE DEF a, b, c
  <2>2. c = a
    BY <2>1
  <2> QED BY <2>2 DEF a, c
<1>7. Rows!RowsOf(planned, {"video"}) = video.rows
  <2>1. Rows!RowsOf(heard, {"video"}) = 0 + 0
    BY <1>2, <1>3, <1>5
  <2>2. Rows!RowsOf(planned, {"video"}) = Rows!RowsOf(heard, {"video"}) + video.rows
    BY <1>4, <1>5
  <2> QED BY <1>1, <2>1, <2>2
<1> QED BY <1>2, <1>4, <1>5, <1>6, <1>7

\* One segment of a plan is the clip's picture, the last one, and one its sound.
LEMMA OneOfEach ==
  ASSUME NEW laid, NEW heard, NEW audio, NEW video, Ends(laid, heard, audio, video)
  PROVE  LET S == planned.segments
         IN /\ S[1].kind = "text" /\ S[Len(S)] = video /\ Len(S) >= 3 /\ Len(S) \in Nat
            /\ {i \in DOMAIN S : S[i].kind = "video"} = {Len(S)}
            /\ {i \in DOMAIN S : S[i].kind = "audio"} = {Len(S) - 1}
            /\ (CHOOSE i \in DOMAIN S : S[i].kind = "video") = Len(S)
<1> DEFINE S == planned.segments
           n == Len(laid.segments)
<1>1. /\ n \in Nat /\ n >= 1 /\ Len(S) = n + 2 /\ S[n + 1] = audio /\ S[n + 2] = video
      /\ \A i \in 1..n : S[i] = laid.segments[i]
      /\ DOMAIN S = 1..(n + 2)
  BY PlacesOf
<1>2. /\ audio.kind = "audio" /\ video.kind = "video"
      /\ laid.segments[1].kind = "text" /\ \A i \in 2..n : laid.segments[i].kind \in Conditions
  BY DEF Ends, Held
<1> HIDE DEF S, n
<1>3. S[1].kind = "text"
  <2>1. 1 \in 1..n
    BY <1>1
  <2> QED BY <1>1, <1>2, <2>1
<1>4. \A i \in 1..n : S[i].kind # "video" /\ S[i].kind # "audio"
  <2> SUFFICES ASSUME NEW i \in 1..n PROVE S[i].kind # "video" /\ S[i].kind # "audio"
    OBVIOUS
  <2>1. CASE i = 1
    BY <1>3, <2>1
  <2>2. CASE i # 1
    <3>1. i \in 2..n
      BY <1>1, <2>2
    <3>2. S[i].kind \in Conditions
      BY <1>1, <1>2, <3>1
    <3> QED BY <3>2 DEF Conditions
  <2> QED BY <2>1, <2>2
<1>5. \A i \in DOMAIN S : i \in 1..n \/ i = n + 1 \/ i = n + 2
  BY <1>1
<1>6. n + 1 \in DOMAIN S /\ n + 2 \in DOMAIN S /\ n + 1 # n + 2
  BY <1>1
<1>7. \A i \in DOMAIN S : S[i].kind = "video" <=> i = n + 2
  BY <1>1, <1>2, <1>4, <1>5, <1>6
<1>8. \A i \in DOMAIN S : S[i].kind = "audio" <=> i = n + 1
  BY <1>1, <1>2, <1>4, <1>5, <1>6
<1>9. (CHOOSE i \in DOMAIN S : S[i].kind = "video") = n + 2
  BY <1>6, <1>7
<1>10. {i \in DOMAIN S : S[i].kind = "video"} = {n + 2} /\ {i \in DOMAIN S : S[i].kind = "audio"} = {n + 1}
  BY <1>6, <1>7, <1>8
<1>11. Len(S) \in Nat /\ Len(S) >= 3 /\ Len(S) - 1 = n + 1
  BY <1>1
<1> QED BY <1>1, <1>3, <1>9, <1>10, <1>11 DEF S

\* The layout of a plan is one the DiT takes, and its clip whole chunks.
LEMMA PlanFits ==
  ASSUME PlanInv
  PROVE  LayoutFits
<1> SUFFICES ASSUME Planned PROVE LayoutFits
  BY DEF LayoutFits
<1> DEFINE S == planned.segments
           temporal == h3_temporal(request.frames)
           latent == Latent(Rendered(request)[1], Rendered(request)[2])
           rows == [videoCondition |-> encoded.videoCondition, audioCondition |-> encoded.audioCondition,
                    video |-> Rows!RowsOf(planned, {"video"}), audio |-> Rows!RowsOf(planned, {"audio"})]
<1>1. PICK laid, heard, audio, video : Ends(laid, heard, audio, video)
  BY PlannedEnds
<1>2. request \in Requests /\ AcceptedRequest(request)
  BY DEF PlanInv
<1>3. request.frames \in Int /\ request.tokens \in Nat \ {0}
  BY <1>2 DEF Requests
<1>4. ValidCanvas(request) /\ h3_align_frame_count(request.frames) >= 22
  BY <1>2 DEF AcceptedRequest, h3_valid_params
<1>5. PICK k \in Nat :
        /\ h3_align_frame_count(request.frames) = 17 * k + 5
        /\ temporal.frame_count = h3_align_frame_count(request.frames)
        /\ temporal.video_t = 5 * k + 2
        /\ h3_video_span_sum(temporal.video_t) = 5 * h3_align_frame_count(request.frames)
        /\ temporal.audio_t \in Nat \ {0}
        /\ 3 * temporal.audio_t - 5 * h3_align_frame_count(request.frames) \in -1..1
  BY <1>3, ClipTimes
<1>6. /\ \A i \in 1..2 : latent[i] \in Nat /\ latent[i] >= 2 /\ latent[i] % 2 = 0
      /\ frame_rows(latent) \in Nat
  BY <1>2, <1>4, RenderedLatents
<1>7. /\ video.kind = "video" /\ video.rows \in Nat /\ video.rows = temporal.video_t * frame_rows(latent)
      /\ planned.latent = << temporal.video_t, latent[1], latent[2] >> /\ planned.audio = temporal.audio_t
  BY <1>1 DEF Ends
<1>8. /\ Rows!RowsOf(planned, {"text"}) = request.tokens
      /\ Rows!RowsOf(planned, {"cond", "ref_image"}) = encoded.videoCondition
      /\ Rows!RowsOf(planned, {"ref_audio"}) = encoded.audioCondition
      /\ Rows!RowsOf(planned, {"video"}) = video.rows
      /\ \A kinds : /\ Rows!RowsAmong(planned, Len(S) - 1, kinds) \in Nat
                    /\ Rows!RowsOf(planned, kinds) = Rows!RowsAmong(planned, Len(S) - 1, kinds) + Counted(video, kinds)
  BY <1>1, RowsOfPlan
<1>9. /\ S[1].kind = "text" /\ S[Len(S)] = video /\ Len(S) >= 3 /\ Len(S) \in Nat
      /\ {i \in DOMAIN S : S[i].kind = "video"} = {Len(S)}
      /\ {i \in DOMAIN S : S[i].kind = "audio"} = {Len(S) - 1}
      /\ (CHOOSE i \in DOMAIN S : S[i].kind = "video") = Len(S)
  BY <1>1, OneOfEach
<1> HIDE DEF S, temporal, latent
<1>10. k >= 1
  BY <1>4, <1>5
<1>11. planned.latent[1] = temporal.video_t /\ planned.latent[2] = latent[1] /\ planned.latent[3] = latent[2]
  BY <1>7
<1>12. /\ planned.latent[1] \in Nat /\ planned.latent[1] >= 7 /\ (planned.latent[1] - 2) % 5 = 0
       /\ 17 * ((planned.latent[1] - 2) \div 5) + 5 = temporal.frame_count
  <2>1. planned.latent[1] = 5 * k + 2 /\ temporal.frame_count = 17 * k + 5
    BY <1>5, <1>11
  <2> QED BY <1>10, <2>1
<1>13. \A i \in 2..3 : planned.latent[i] >= 2 /\ planned.latent[i] % 2 = 0
  <2>1. planned.latent[2] >= 2 /\ planned.latent[2] % 2 = 0 /\ planned.latent[3] >= 2 /\ planned.latent[3] % 2 = 0
    BY <1>6, <1>11
  <2>2. \A i \in 2..3 : i = 2 \/ i = 3
    OBVIOUS
  <2> QED BY <2>1, <2>2
<1>14. planned.audio >= 1
  BY <1>5, <1>7
<1>15. Cardinality({i \in DOMAIN S : S[i].kind = "video"}) = 1 /\ Cardinality({i \in DOMAIN S : S[i].kind = "audio"}) = 1
  BY <1>9, FS_Singleton
<1>0. \A T : Rows!Cardinality(T) = Cardinality(T)
  BY DEF Rows!Cardinality, Cardinality
<1>16. Rows!validate_layout(planned, request.tokens, rows)
  <2>1. rows.videoCondition = encoded.videoCondition /\ rows.audioCondition = encoded.audioCondition
        /\ rows.video = Rows!RowsOf(planned, {"video"}) /\ rows.audio = Rows!RowsOf(planned, {"audio"})
    OBVIOUS
  <2>2. request.tokens > 0 /\ planned.latent[1] >= 1
    BY <1>3, <1>12
  <2> HIDE DEF rows
  <2> QED BY <1>0, <1>7, <1>8, <1>9, <1>13, <1>14, <1>15, <2>1, <2>2 DEF Rows!validate_layout, S
<1>17. Rows!CanReduce(planned)
  <2> DEFINE p == latent[1] \div 2
             q == latent[2] \div 2
             all == {"text"} \cup Rows!VideoKinds \cup Rows!AudioKinds
             last == Len(S)
  <2>1. p \in Nat /\ q \in Nat /\ temporal.video_t \in Nat
    BY <1>5, <1>6
  <2>2. frame_rows(latent) = p * q
    BY DEF frame_rows
  <2>3. temporal.video_t * p * q = video.rows
    <3> HIDE DEF p, q
    <3>1. temporal.video_t * p * q = temporal.video_t * (p * q)
      BY <2>1
    <3> QED BY <1>7, <2>2, <3>1
  <2>4. planned.latent[1] * (planned.latent[2] \div 2) * (planned.latent[3] \div 2) = Rows!RowsOf(planned, {"video"})
    BY <1>8, <1>11, <2>3
  <2> HIDE DEF all, p, q
  <2>5. Rows!target_start(planned, "video") = Rows!RowsAmong(planned, last - 1, all)
    BY <1>9 DEF Rows!target_start, Rows!start, all, S
  <2>6. Rows!sequence(planned) = Rows!RowsOf(planned, all)
    <3>1. last + 1 - 1 = last
      BY <1>9
    <3>2. Rows!sequence(planned) = Rows!RowsAmong(planned, last + 1 - 1, all)
      BY DEF Rows!sequence, Rows!start, all, S
    <3> QED BY <3>1, <3>2 DEF Rows!RowsOf, S
  <2>7. Counted(video, all) = video.rows
    BY <1>7 DEF Counted, all, Rows!VideoKinds
  <2>8. Rows!RowsOf(planned, all) = Rows!RowsAmong(planned, last - 1, all) + video.rows
    BY <1>8, <2>7
  <2> QED BY <1>8, <2>4, <2>5, <2>6, <2>8 DEF Rows!CanReduce
<1> HIDE DEF rows
<1> QED BY <1>12, <1>16, <1>17 DEF LayoutFits, rows, temporal

(***************************************************************************)
(* The theorems.                                                           *)
(***************************************************************************)

\* A plan is that of an accepted request: h3_generate stops with any other.
THEOREM PlanInvariance == PlanSpec => []PlanInv
<1>1. PlanInit => PlanInv
  BY DEF PlanInit, PlanInv, Planned
<1>2. PlanInv /\ [BuildLayout]_planVars => PlanInv'
  <2> SUFFICES ASSUME PlanInv, [BuildLayout]_planVars PROVE PlanInv'
    OBVIOUS
  <2>1. CASE BuildLayout
    <3>1. /\ AcceptedRequest(request) /\ planned' = h3_layout_build(request)
          /\ encoded' = PackedRows(request) /\ request' = request
      BY <2>1 DEF BuildLayout
    <3> QED BY <3>1 DEF PlanInv
  <2>2. CASE UNCHANGED planVars
    BY <2>2 DEF PlanInv, Planned, planVars
  <2> QED BY <2>1, <2>2
<1> QED BY <1>1, <1>2, PTL DEF PlanSpec

\* Of every request that h3_generate accepts, the layout of h3_layout_build is one that
\* the DiT's validation takes and its token reduction can work on, with as many rows of
\* conditions as were encoded, and with the latents of whole chunks of the video VAE.
THEOREM LayoutsFit == PlanSpec => []LayoutFits
<1>1. PlanSpec => []PlanInv
  BY PlanInvariance
<1>2. PlanInv => LayoutFits
  BY PlanFits
<1> QED BY <1>1, <1>2, PTL

\* In every such layout the items follow each other in time, keyframes are at the frames
\* they anchor, and picture and sound of the clip end together.
THEOREM TimelinesHold == PlanSpec => []TimelineHolds
<1>1. PlanSpec => []PlanInv
  BY PlanInvariance
<1>2. PlanInv => TimelineHolds
  BY PlanTimeline
<1> QED BY <1>1, <1>2, PTL

\* Every request that is accepted, whatever its size, length, anchors and references, is
\* planned as the encoders, the DiT and the video VAE need it (h3_layout_build).
THEOREM PlansHold == PlanSpec => []PlanHolds
<1>1. LayoutFits /\ TimelineHolds => PlanHolds
  BY DEF PlanHolds
<1> QED BY <1>1, LayoutsFit, TimelinesHold, PTL

\* Every clip that is decoded is whole: each picture is covered by its tiles, and the
\* frames come once and in their order (stitch_tiles, decode_chunked).
THEOREM ClipsHold == DecodeSpec => []ClipHolds
<1>1. TilesCover /\ FramesInOrder => ClipHolds
  BY DEF ClipHolds
<1> QED BY <1>1, TilesCoverPictures, ClipsAreInOrder, PTL
=============================================================================
