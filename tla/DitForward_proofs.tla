-------------------------- MODULE DitForward_proofs --------------------------
(***************************************************************************)
(* Proofs about the buffers of a DiT step (module DitForward), for any     *)
(* number of blocks and steps and any options: a block works on what was   *)
(* made for it, pooled tokens can be expanded again, the head reads full   *)
(* rows, and what a run computes is what the layers of module DitLayers    *)
(* compute.                                                                *)
(***************************************************************************)
EXTENDS DitForward, SequenceTheorems, WellFoundedInduction, TLAPS

(***************************************************************************)
(* Histories.                                                              *)
(***************************************************************************)
LEMMA AppendFacts ==
  ASSUME NEW S, NEW h \in Seq(S), NEW x \in S
  PROVE  /\ Append(h, x) \in Seq(S)
         /\ Len(Append(h, x)) = Len(h) + 1 /\ Len(h) \in Nat
         /\ DOMAIN h = 1..Len(h) /\ DOMAIN Append(h, x) = 1..(Len(h) + 1)
         /\ \A i \in 1..Len(h) : Append(h, x)[i] = h[i]
         /\ Append(h, x)[Len(h) + 1] = x
OBVIOUS

LEMMA PackFacts ==
  ASSUME NEW s \in Nat
  PROVE  /\ << << "pack", s >> >> \in Histories
         /\ Fresh(<< << "pack", s >> >>)
<1>1. << "pack", s >> \in Marks \X Nat
  BY DEF Marks
<1>2. << << "pack", s >> >> \in Histories
  BY <1>1 DEF Histories
<1> QED BY <1>1, <1>2 DEF Fresh

\* Only pooling makes a history pooled and only restoring ends it.
LEMMA MarkFacts ==
  ASSUME NEW h \in Histories, NEW m \in Marks, NEW b \in Nat
  PROVE  LET longer == Append(h, << m, b >>)
         IN /\ longer \in Histories
            /\ m \notin {"pool", "expand"} => (Pooled(longer) <=> Pooled(h))
            /\ m \notin {"pool", "expand"} /\ Fresh(h) => Fresh(longer)
            /\ m = "pool" /\ Fresh(h) => Pooled(longer)
            /\ m = "expand" => ~Pooled(longer)
            /\ Fresh(h) => ~Pooled(h)
<1> DEFINE longer == Append(h, << m, b >>)
<1>1. << m, b >> \in Marks \X Nat /\ << m, b >>[1] = m
  OBVIOUS
<1>2. /\ longer \in Histories /\ Len(h) \in Nat
      /\ DOMAIN h = 1..Len(h) /\ DOMAIN longer = 1..(Len(h) + 1)
      /\ \A i \in 1..Len(h) : longer[i] = h[i]
      /\ longer[Len(h) + 1] = << m, b >>
  BY <1>1, AppendFacts DEF Histories
<1> HIDE DEF longer
<1>3. /\ \A i \in DOMAIN h : i \in DOMAIN longer /\ longer[i][1] = h[i][1]
      /\ \A i \in DOMAIN longer : i \in DOMAIN h \/ i = Len(h) + 1
      /\ Len(h) + 1 \in DOMAIN longer /\ longer[Len(h) + 1][1] = m
  BY <1>1, <1>2
<1>4. m \notin {"pool", "expand"} => (Pooled(longer) <=> Pooled(h))
  BY <1>3 DEF Pooled
<1>5. m \notin {"pool", "expand"} /\ Fresh(h) => Fresh(longer)
  BY <1>3 DEF Fresh
<1>6. m = "pool" /\ Fresh(h) => Pooled(longer)
  BY <1>3 DEF Fresh, Pooled
<1>7. m = "expand" => ~Pooled(longer)
  BY <1>3 DEF Pooled
<1>8. Fresh(h) => ~Pooled(h)
  BY DEF Fresh, Pooled
<1> QED BY <1>2, <1>4, <1>5, <1>6, <1>7, <1>8 DEF longer

\* One history starts another.
Starts(s, t) == Len(s) <= Len(t) /\ \A i \in 1..Len(s) : t[i] = s[i]

LEMMA StartsIsPrefix ==
  ASSUME NEW s \in Histories, NEW t \in Histories, Starts(s, t)
  PROVE  SubSeq(s, 1, Len(s)) = SubSeq(t, 1, Len(s))
<1> DEFINE n == Len(s)
           left == SubSeq(s, 1, n)
           right == SubSeq(t, 1, n)
<1>1. /\ s \in Seq(Marks \X Nat) /\ t \in Seq(Marks \X Nat)
      /\ n \in Nat /\ Len(t) \in Nat
  BY DEF Histories
<1>2. n <= Len(t) /\ \A i \in 1..n : t[i] = s[i]
  BY DEF Starts
<1>3. \A i \in 1..n : s[i] \in Marks \X Nat /\ t[i] \in Marks \X Nat
  BY <1>1, <1>2
<1> HIDE DEF n
<1>4. /\ left \in Seq(Marks \X Nat) /\ Len(left) = (IF 1 <= n THEN n - 1 + 1 ELSE 0)
      /\ \A i \in 1..(n - 1 + 1) : left[i] = s[1 + i - 1]
  BY <1>1, <1>3, SubSeqProperties
<1>5. /\ right \in Seq(Marks \X Nat) /\ Len(right) = (IF 1 <= n THEN n - 1 + 1 ELSE 0)
      /\ \A i \in 1..(n - 1 + 1) : right[i] = t[1 + i - 1]
  BY <1>1, <1>3, SubSeqProperties
<1>6. n - 1 + 1 = n /\ \A i \in 1..n : 1 + i - 1 = i
  BY <1>1
<1> HIDE DEF left, right
<1>7. Len(left) = n /\ Len(right) = n /\ \A i \in 1..n : left[i] = right[i]
  BY <1>1, <1>2, <1>4, <1>5, <1>6
<1>8. left = right
  BY <1>4, <1>5, <1>7, SeqEqual
<1> QED BY <1>8 DEF left, right, n

LEMMA StartsAppend ==
  ASSUME NEW h \in Histories, NEW m \in Marks, NEW b \in Nat
  PROVE  Append(h, << m, b >>) \in Histories /\ Starts(h, Append(h, << m, b >>)) /\ Starts(h, h)
<1>1. << m, b >> \in Marks \X Nat /\ h \in Seq(Marks \X Nat)
  BY DEF Histories
<1> DEFINE longer == Append(h, << m, b >>)
<1>2. /\ longer \in Seq(Marks \X Nat) /\ Len(h) \in Nat /\ Len(longer) = Len(h) + 1
      /\ \A i \in 1..Len(h) : longer[i] = h[i]
  BY <1>1, AppendFacts
<1> HIDE DEF longer
<1>3. Starts(h, longer) /\ Starts(h, h) /\ longer \in Histories
  BY <1>2 DEF Starts, Histories
<1> QED BY <1>3 DEF longer

LEMMA StartsTransitive ==
  ASSUME NEW s \in Histories, NEW t \in Histories, NEW u \in Histories,
         Starts(s, t), Starts(t, u)
  PROVE  Starts(s, u)
<1>1. Len(s) \in Nat /\ Len(t) \in Nat /\ Len(u) \in Nat
  BY DEF Histories
<1>2. /\ Len(s) <= Len(t) /\ Len(t) <= Len(u)
      /\ \A i \in 1..Len(s) : t[i] = s[i]
      /\ \A i \in 1..Len(t) : u[i] = t[i]
  BY DEF Starts
<1>3. \A i \in 1..Len(s) : i \in 1..Len(t)
  BY <1>1, <1>2
<1> QED BY <1>1, <1>2, <1>3 DEF Starts

LEMMA StartsFirst ==
  ASSUME NEW s \in Histories, NEW t \in Histories, Starts(s, t), Len(s) >= 1
  PROVE  Len(t) >= 1 /\ t[1] = s[1]
<1>1. Len(s) \in Nat /\ Len(t) \in Nat
  BY DEF Histories
<1>2. 1 \in 1..Len(s) /\ Len(t) >= 1
  BY <1>1 DEF Starts
<1> QED BY <1>2 DEF Starts

(***************************************************************************)
(* Contents and buffers.                                                   *)
(***************************************************************************)
LEMMA ContentFacts ==
  /\ \A is \in Kinds, b \in Nat, h \in Histories :
       /\ Content(is, b, h) \in Contents
       /\ Content(is, b, h).is = is /\ Content(is, b, h).block = b
       /\ Content(is, b, h).history = h
       /\ Hidden(h) = Content("hidden", 0, h)
  /\ \A c \in Contents : c.is \in Kinds /\ c.block \in Nat /\ c.history \in Histories
  /\ Junk \in Contents
  /\ 0 \in Nat
<1>1. << >> \in Histories
  BY DEF Histories
<1> QED BY <1>1 DEF Content, Contents, Hidden, Junk, Kinds

LEMMA WriteOne ==
  ASSUME NEW b \in Buffers, NEW x \in Contents, TypeOK, Write(One(b, x))
  PROVE  /\ front' \in [Buffers -> Contents]
         /\ \A n \in Buffers : front'[n] = IF n = b THEN x ELSE front[n]
         /\ tail' \in [Buffers -> Contents]
         /\ grid_reduced => tail' = tail
BY ContentFacts DEF Write, One, With, TypeOK

LEMMA WriteTwo ==
  ASSUME NEW b \in Buffers, NEW x \in Contents, NEW c \in Buffers, NEW y \in Contents,
         TypeOK, Write(Two(b, x, c, y))
  PROVE  /\ front' \in [Buffers -> Contents]
         /\ \A n \in Buffers : front'[n] = IF n = b THEN x ELSE IF n = c THEN y ELSE front[n]
         /\ tail' \in [Buffers -> Contents]
         /\ grid_reduced => tail' = tail
BY ContentFacts DEF Write, Two, With, TypeOK

\* Where the activations of a block go, none of them over the hidden states or over
\* what is kept from one step to the next.
BuffersApart ==
  LET used == {attention_heads, mlp_input, mlp_output, held.attention_output,
               held.mod_attention, "q", "qkv", "int8"}
  IN /\ held.hidden \in Buffers /\ used \subseteq Buffers
     /\ held.hidden \notin used \cup {"core_input", "core_residual"}
     /\ "core_input" \in Buffers /\ "core_residual" \in Buffers
     /\ "core_input" \notin used /\ "core_residual" \notin used
     /\ token_original \in Buffers
     /\ token_original \notin {held.hidden, held.attention_output, held.mod_attention}

LEMMA BufferFacts ==
  ASSUME TypeOK
  PROVE  BuffersApart
<1>1. /\ attention_heads \in {"qkv", "heads"} /\ mod_mlp \in {"qkv", "mod_mlp"}
      /\ token_original \in {"qkv", "token_original"}
      /\ mlp_output \in {held.attention_output, "mlp_output"}
  BY DEF attention_heads, mod_mlp, token_original, mlp_output
<1>2. mlp_input \in {"int8", "qkv", "mod_mlp"}
  BY <1>1 DEF mlp_input
<1>3. /\ held.hidden \in Rotated /\ held.attention_output \in Rotated
      /\ held.mod_attention \in Rotated
      /\ held.hidden # held.attention_output /\ held.hidden # held.mod_attention
  BY DEF TypeOK
<1> QED BY <1>1, <1>2, <1>3 DEF BuffersApart, Buffers, Rotated

LEMMA BoundaryFacts ==
  ASSUME TypeOK
  PROVE  /\ options.begin \in Nat /\ token_reduction_end \in Nat
         /\ options.begin <= token_reduction_end \/ ~token_reduction
         /\ token_reduction => options.begin < token_reduction_end
         /\ token_reduction => token_reduction_end <= NBlocks
         /\ NBlocks \in Nat /\ here \in Nat /\ now \in Nat
         /\ \A b \in options.active : b \in Nat /\ b < NBlocks
         /\ options.interval \in Nat \ {0}
BY OptionsAssumption DEF TypeOK, token_reduction, token_reduction_end

\* A kernel that reads what was made for its block, over the grid in use.
LEMMA MadeFacts ==
  ASSUME NEW is \in Kinds, NEW b \in Nat, NEW from \in Kinds, NEW source \in Contents
  PROVE  /\ Made(is, b, from, source) \in Contents
         /\ source.is = from /\ source.block \in {0, b}
            /\ (Pooled(source.history) <=> grid_reduced) /\ grid_reduced \in BOOLEAN
            => Made(is, b, from, source) = Content(is, b, source.history)
BY ContentFacts DEF Made, Pooled

LEMMA GatedFacts ==
  ASSUME ForwardInv, pc \in InBlock, NEW part \in {"attention", "mlp"}, NEW from \in Contents
  PROVE  LET history == front[held.hidden].history
         IN /\ Gated(part, from) \in Contents
            /\ from = Content(part, here, history)
               => Gated(part, from) = Hidden(Append(history, << part, here >>))
<1> DEFINE history == front[held.hidden].history
<1>1. history \in Histories /\ front[held.hidden] \in Contents /\ here \in Nat /\ part \in Marks
  BY BufferFacts, BoundaryFacts, ContentFacts DEF ForwardInv, TypeOK, BuffersApart, Marks
<1>2. Append(history, << part, here >>) \in Histories
  BY <1>1, MarkFacts
<1>3. front[held.hidden].is = "hidden" /\ (Pooled(history) <=> grid_reduced)
  BY <1>1 DEF ForwardInv, HiddenInv, States, Hidden, Content
<1>4. Hidden(Append(history, << part, here >>)) \in Contents
  BY <1>2, ContentFacts DEF Kinds
<1>5. (Pooled(history) = grid_reduced)
  BY <1>3 DEF ForwardInv, TypeOK, Pooled
<1> HIDE DEF history
<1> QED BY <1>3, <1>4, <1>5, ContentFacts DEF Gated, history

LEMMA PooledFromGrows ==
  ASSUME NEW k \in Histories, NEW h \in Histories, NEW begin, NEW m \in Marks, NEW b \in Nat,
         PooledFrom(k, begin, h)
  PROVE  PooledFrom(k, begin, Append(h, << m, b >>))
<1>1. << m, b >> \in Marks \X Nat
  OBVIOUS
<1>2. k \in Seq(Marks \X Nat) /\ h \in Seq(Marks \X Nat) /\ Len(k) \in Nat
  BY DEF Histories
<1> DEFINE longer == Append(h, << m, b >>)
<1>3. /\ Len(longer) = Len(h) + 1 /\ Len(h) \in Nat
      /\ \A i \in 1..Len(h) : longer[i] = h[i]
  BY <1>1, <1>2, AppendFacts
<1> HIDE DEF longer
<1>4. /\ Len(k) + 1 <= Len(h)
      /\ \A i \in 1..Len(k) : h[i] = k[i]
      /\ h[Len(k) + 1] = << "pool", begin >>
  BY DEF PooledFrom
<1>5. /\ Len(k) + 1 \in 1..Len(h)
      /\ \A i \in 1..Len(k) : i \in 1..Len(h)
  BY <1>2, <1>3, <1>4
<1>6. PooledFrom(k, begin, longer)
  BY <1>2, <1>3, <1>4, <1>5 DEF PooledFrom
<1> QED BY <1>6 DEF longer

(***************************************************************************)
(* What a step may do to the history of the hidden states, the residual    *)
(* staying what it is.                                                     *)
(***************************************************************************)
ResidualStays == front'["core_residual"] = front["core_residual"]
HistoryIs(history) == ResidualStays /\ front'[held'.hidden].history = history
HistoryStays == HistoryIs(front[held.hidden].history)
HistoryGrows(mark) == HistoryIs(Append(front[held.hidden].history, mark))

(***************************************************************************)
(* The operations of a block.                                              *)
(***************************************************************************)
\* What a step of a block says of the rest: the hidden states stay or grow by a part
\* of the block, rows behind the grid in use stay.
LEMMA StepKept ==
  ASSUME ForwardInv, NEW from \in InBlock, NEW to \in InBlock, Step(from, to), ready' = ready,
         front' \in [Buffers -> Contents], tail' \in [Buffers -> Contents],
         grid_reduced => tail' = tail,
         front'["core_input"] = front["core_input"],
         front'["core_residual"] = front["core_residual"],
         \/ front'[held.hidden] = front[held.hidden]
         \/ front'[held.hidden] =
              Hidden(Append(front[held.hidden].history, << "attention", here >>))
  PROVE  TypeOK' /\ PositionInv' /\ HiddenInv' /\ KeptInv' /\ ResidualInv'
<1> DEFINE h == front[held.hidden].history
           grown == Append(h, << "attention", here >>)
<1>1. /\ UNCHANGED << options, now, here, held, grid_reduced, passes, residual_ready >>
      /\ pc = from /\ pc' = to /\ pc \in InBlock /\ pc' \in InBlock
  BY DEF Step
<1>2. TypeOK'
  BY <1>1 DEF ForwardInv, TypeOK, InBlock, States
<1>3. PositionInv'
  BY <1>1 DEF ForwardInv, PositionInv, InBlock, token_reduction, token_reduction_end
<1>4. h \in Histories /\ here \in Nat /\ "attention" \in Marks
  BY BufferFacts, BoundaryFacts, ContentFacts DEF ForwardInv, TypeOK, BuffersApart, Marks
<1>5. /\ grown \in Histories /\ (Pooled(grown) <=> Pooled(h))
      /\ Fresh(h) => Fresh(grown)
  BY <1>4, MarkFacts
<1>6. /\ front'[held.hidden] = front[held.hidden] \/ front'[held.hidden] = Hidden(grown)
      /\ Hidden(grown).history = grown
      /\ front[held.hidden] = Hidden(h)
      /\ Pooled(h) <=> grid_reduced
  <2>1. front[held.hidden] = Hidden(h) /\ (Pooled(h) <=> grid_reduced)
    BY <1>1 DEF ForwardInv, HiddenInv, States
  <2>2. Hidden(grown).history = grown
    BY DEF Hidden, Content
  <2> QED BY <2>1, <2>2
<1>7. HiddenInv'
  BY <1>1, <1>5, <1>6 DEF ForwardInv, HiddenInv, InBlock, token_reduction
<1>8. ASSUME grid_reduced PROVE PooledFrom(tail[held.hidden].history, options.begin, grown)
  <2>1. tail[held.hidden].history \in Histories
    BY BufferFacts, ContentFacts DEF ForwardInv, TypeOK, BuffersApart
  <2> QED BY <1>4, <1>8, <2>1, PooledFromGrows DEF ForwardInv, KeptInv
<1>9. KeptInv'
  BY <1>1, <1>6, <1>8 DEF ForwardInv, KeptInv, token_original
<1>10. ResidualInv'
  BY <1>1 DEF ForwardInv, ResidualInv, InBlock
<1> QED BY <1>2, <1>3, <1>7, <1>9, <1>10

\* What every operation of a block may count on.
LEMMA InBlockFacts ==
  ASSUME ForwardInv, pc \in InBlock
  PROVE  LET hidden == front[held.hidden]
         IN /\ hidden \in Contents /\ hidden.is = "hidden" /\ hidden.block = 0
            /\ hidden.history \in Histories
            /\ Pooled(hidden.history) <=> grid_reduced
            /\ here \in Nat /\ here + 1 \in Nat /\ here < NBlocks
<1>1. front[held.hidden] = Hidden(front[held.hidden].history)
  BY DEF ForwardInv, HiddenInv, States
<1>2. front[held.hidden].is = "hidden" /\ front[held.hidden].block = 0
  BY <1>1 DEF Hidden, Content
<1>3. front[held.hidden] \in Contents /\ front[held.hidden].history \in Histories
  BY BufferFacts, ContentFacts DEF ForwardInv, TypeOK, BuffersApart
<1>4. here \in Nat /\ here < NBlocks
  BY BoundaryFacts DEF ForwardInv, PositionInv
<1> QED BY <1>2, <1>3, <1>4 DEF ForwardInv, HiddenInv, States

\* The content a block makes of what was made for it and from the states as they are.
LEMMA MadeInBlock ==
  ASSUME ForwardInv, pc \in InBlock, NEW is \in Kinds, NEW from \in Kinds,
         NEW source \in Contents
  PROVE  LET history == front[held.hidden].history
         IN /\ Made(is, here, from, source) \in Contents
            /\ source = Content(from, here, history)
               => Made(is, here, from, source) = Content(is, here, history)
<1> DEFINE history == front[held.hidden].history
<1>1. history \in Histories /\ here \in Nat /\ (Pooled(history) <=> grid_reduced)
  BY InBlockFacts
<1>2. Made(is, here, from, source) \in Contents
  BY <1>1, MadeFacts
<1>3. ASSUME source = Content(from, here, history)
      PROVE  Made(is, here, from, source) = Content(is, here, history)
  <2>1. source.is = from /\ source.block = here /\ source.history = history
    BY <1>3 DEF Content
  <2> QED BY <1>1, <2>1, MadeFacts DEF ForwardInv, TypeOK
<1> QED BY <1>2, <1>3

LEMMA KindFacts ==
  /\ {"norm1", "q", "heads", "attention", "norm2", "mlp", "hidden", "junk"} \subseteq Kinds
  /\ {"adaln", "qkv", "attention", "output", "mlp_input", "mlp", "gate"} = InBlock
BY DEF Kinds, InBlock

LEMMA AttentionAdalnKeeps ==
  ASSUME ForwardInv, AttentionAdaln
  PROVE  ForwardInv' /\ HistoryStays
<1> USE KindFacts
<1>0. /\ TypeOK /\ WorkInv /\ BuffersApart
      /\ \A b \in Buffers : front[b] \in Contents
  BY BufferFacts DEF ForwardInv, TypeOK
<1> DEFINE history == front[held.hidden].history
           made == Made("norm1", here, "hidden", front[held.hidden])
<1>1. /\ Step("adaln", "qkv") /\ ready' = ready /\ pc = "adaln" /\ pc' = "qkv"
      /\ UNCHANGED << options, here, held >>
  BY DEF AttentionAdaln, Step
<1>2. /\ made = Content("norm1", here, history) /\ made \in Contents
  <2>1. /\ front[held.hidden] \in Contents /\ front[held.hidden].is = "hidden"
        /\ front[held.hidden].block = 0 /\ here \in Nat
        /\ (Pooled(history) <=> grid_reduced) /\ grid_reduced \in BOOLEAN
    BY <1>0, <1>1, InBlockFacts DEF TypeOK
  <2> QED BY <2>1, MadeFacts
<1> HIDE DEF made
<1>3. ASSUME ready.adaln PROVE ForwardInv'
  <2>1. front' = front /\ tail' = tail
    BY <1>3 DEF AttentionAdaln
  <2>2. TypeOK' /\ PositionInv' /\ HiddenInv' /\ KeptInv' /\ ResidualInv'
    BY <1>0, <1>1, <2>1, StepKept DEF TypeOK
  <2>3. WorkInv'
    BY <1>0, <1>1, <1>3, <2>1 DEF WorkInv, carried_input
  <2> QED BY <2>2, <2>3 DEF ForwardInv
<1>4. ASSUME ~ready.adaln PROVE ForwardInv'
  <2>1. /\ front' \in [Buffers -> Contents]
        /\ \A n \in Buffers : front'[n] = IF n = held.mod_attention THEN made ELSE front[n]
        /\ tail' \in [Buffers -> Contents]
        /\ grid_reduced => tail' = tail
    BY <1>0, <1>2, <1>4, WriteOne DEF AttentionAdaln, made, BuffersApart
  <2>2. TypeOK' /\ PositionInv' /\ HiddenInv' /\ KeptInv' /\ ResidualInv'
    BY <1>0, <1>1, <1>2, <2>1, StepKept DEF BuffersApart
  <2>3. ~ready.quantized
    BY <1>0, <1>4 DEF WorkInv
  <2>4. WorkInv'
    BY <1>0, <1>1, <1>2, <1>4, <2>1, <2>3 DEF WorkInv, carried_input, BuffersApart
  <2> QED BY <2>2, <2>4 DEF ForwardInv
<1>5. HistoryStays
  <2>1. CASE ready.adaln
    BY <1>1, <2>1 DEF AttentionAdaln, HistoryStays, HistoryIs, ResidualStays
  <2>2. CASE ~ready.adaln
    <3>1. \A n \in Buffers : front'[n] = IF n = held.mod_attention THEN made ELSE front[n]
      BY <1>0, <1>2, <2>2, WriteOne DEF AttentionAdaln, made, BuffersApart
    <3> QED BY <1>0, <1>1, <3>1 DEF HistoryStays, HistoryIs, ResidualStays, BuffersApart
  <2> QED BY <2>1, <2>2
<1> QED BY <1>3, <1>4, <1>5 DEF ForwardInv

LEMMA QkvProjectionKeeps ==
  ASSUME ForwardInv, QkvProjection
  PROVE  ForwardInv' /\ HistoryStays
<1> USE KindFacts
<1>0. /\ TypeOK /\ WorkInv /\ BuffersApart
      /\ \A b \in Buffers : front[b] \in Contents
  BY BufferFacts DEF ForwardInv, TypeOK
<1> DEFINE history == front[held.hidden].history
           q == Made("q", here, "norm1", qkv_input)
<1>1. /\ Step("qkv", "attention") /\ ready' = ready /\ pc = "qkv" /\ pc' = "attention"
      /\ UNCHANGED << options, here, held >>
  BY DEF QkvProjection, Step
<1>2. qkv_input = Content("norm1", here, history) /\ qkv_input \in Contents
  BY <1>0, <1>1 DEF WorkInv, carried_input, qkv_input, BuffersApart
<1>3. q = Content("q", here, history) /\ q \in Contents /\ Junk \in Contents
  BY <1>1, <1>2, MadeInBlock, ContentFacts
<1> HIDE DEF q
<1>4. /\ front' \in [Buffers -> Contents] /\ tail' \in [Buffers -> Contents]
      /\ grid_reduced => tail' = tail
      /\ front'["q"] = q
      /\ \A b \in Buffers : b \notin {"q", "int8", "qkv"} => front'[b] = front[b]
  <2>0. TypeOK /\ {"q", "int8", "qkv"} \subseteq Buffers
    BY <1>0 DEF BuffersApart
  <2>1. CASE Write(One("q", q))
    BY <1>3, <2>0, <2>1, WriteOne
  <2>2. CASE Write(Two("q", q, "int8", Junk))
    BY <1>3, <2>0, <2>2, WriteTwo
  <2>3. CASE Write(Two("q", q, "qkv", Junk))
    BY <1>3, <2>0, <2>3, WriteTwo
  <2>4. Write(IF "qkv" \in options.int8
              THEN IF ready.quantized THEN One("q", q) ELSE Two("q", q, "int8", Junk)
              ELSE Two("q", q, "qkv", Junk))
    BY DEF QkvProjection, q
  <2> QED BY <2>1, <2>2, <2>3, <2>4
<1>5. front'[held.hidden] = front[held.hidden] /\ "q" \in Buffers
  BY <1>0, <1>4 DEF BuffersApart
<1>6. TypeOK' /\ PositionInv' /\ HiddenInv' /\ KeptInv' /\ ResidualInv'
  BY <1>0, <1>1, <1>4, <1>5, StepKept DEF BuffersApart
<1>7. WorkInv'
  BY <1>0, <1>1, <1>3, <1>4, <1>5 DEF WorkInv, BuffersApart
<1>8. HistoryStays
  BY <1>0, <1>1, <1>4, <1>5 DEF HistoryStays, HistoryIs, ResidualStays, BuffersApart
<1> QED BY <1>6, <1>7, <1>8 DEF ForwardInv

LEMMA RunAttentionKeeps ==
  ASSUME ForwardInv, RunAttention
  PROVE  ForwardInv' /\ HistoryStays
<1> USE KindFacts
<1>0. /\ TypeOK /\ WorkInv /\ BuffersApart
      /\ \A b \in Buffers : front[b] \in Contents
  BY BufferFacts DEF ForwardInv, TypeOK
<1> DEFINE history == front[held.hidden].history
           made == Made("heads", here, "q", front["q"])
<1>1. /\ Step("attention", "output") /\ ready' = ready /\ pc = "attention" /\ pc' = "output"
      /\ UNCHANGED << options, here, held >>
  BY DEF RunAttention, Step
<1>2. made = Content("heads", here, history) /\ made \in Contents
  BY <1>0, <1>1, MadeInBlock DEF WorkInv, BuffersApart
<1> HIDE DEF made
<1>3. /\ front' \in [Buffers -> Contents]
      /\ \A n \in Buffers : front'[n] = IF n = attention_heads THEN made ELSE front[n]
      /\ tail' \in [Buffers -> Contents]
      /\ grid_reduced => tail' = tail
  BY <1>0, <1>2, WriteOne DEF RunAttention, made, BuffersApart
<1>4. /\ held.hidden # attention_heads /\ held.hidden \in Buffers /\ attention_heads \in Buffers
      /\ "core_input" # attention_heads /\ "core_input" \in Buffers
      /\ "core_residual" # attention_heads /\ "core_residual" \in Buffers
  BY <1>0 DEF BuffersApart
<1>5. /\ front'[held.hidden] = front[held.hidden]
      /\ front'["core_input"] = front["core_input"]
      /\ front'["core_residual"] = front["core_residual"]
  BY <1>3, <1>4
<1>6. TypeOK' /\ PositionInv' /\ HiddenInv' /\ KeptInv' /\ ResidualInv'
  BY <1>1, <1>3, <1>5, StepKept
<1>7. attention_heads' = attention_heads
  BY <1>1 DEF attention_heads
<1>8. WorkInv'
  BY <1>0, <1>1, <1>2, <1>3, <1>4, <1>5, <1>7 DEF WorkInv
<1>9. HistoryStays
  BY <1>1, <1>5 DEF HistoryStays, HistoryIs, ResidualStays
<1> QED BY <1>6, <1>8, <1>9 DEF ForwardInv

LEMMA AttentionOutputKeeps ==
  ASSUME ForwardInv, AttentionOutput
  PROVE  ForwardInv' /\ HistoryStays
<1> USE KindFacts
<1>0. /\ TypeOK /\ WorkInv /\ BuffersApart
      /\ \A b \in Buffers : front[b] \in Contents
  BY BufferFacts DEF ForwardInv, TypeOK
<1> DEFINE history == front[held.hidden].history
           made == Made("attention", here, "heads", front[attention_heads])
<1>1. /\ Step("output", "mlp_input") /\ ready' = ready /\ pc = "output" /\ pc' = "mlp_input"
      /\ UNCHANGED << options, here, held >>
  BY DEF AttentionOutput, Step
<1>2. made = Content("attention", here, history) /\ made \in Contents /\ Junk \in Contents
  BY <1>0, <1>1, MadeInBlock, ContentFacts DEF WorkInv, BuffersApart
<1> HIDE DEF made
<1>3. /\ front' \in [Buffers -> Contents]
      /\ front'[held.attention_output] = made
      /\ \A n \in Buffers : n \notin {held.attention_output, "int8"} => front'[n] = front[n]
      /\ tail' \in [Buffers -> Contents]
      /\ grid_reduced => tail' = tail
  <2>0. held.attention_output \in Buffers /\ "int8" \in Buffers
    BY <1>0 DEF BuffersApart
  <2>1. CASE Write(One(held.attention_output, made))
    BY <1>0, <1>2, <2>0, <2>1, WriteOne
  <2>2. CASE Write(Two(held.attention_output, made, "int8", Junk))
    BY <1>0, <1>2, <2>0, <2>2, WriteTwo
  <2>3. Write(IF "out" \in options.int8 THEN Two(held.attention_output, made, "int8", Junk)
              ELSE One(held.attention_output, made))
    BY DEF AttentionOutput, made
  <2> QED BY <2>1, <2>2, <2>3
<1>4. /\ held.hidden \notin {held.attention_output, "int8"} /\ held.hidden \in Buffers
      /\ {"core_input", "core_residual"} \cap {held.attention_output, "int8"} = {}
      /\ {"core_input", "core_residual"} \subseteq Buffers
  BY <1>0 DEF BuffersApart
<1>5. /\ front'[held.hidden] = front[held.hidden]
      /\ front'["core_input"] = front["core_input"]
      /\ front'["core_residual"] = front["core_residual"]
  BY <1>3, <1>4
<1>6. TypeOK' /\ PositionInv' /\ HiddenInv' /\ KeptInv' /\ ResidualInv'
  BY <1>1, <1>3, <1>5, StepKept
<1>7. WorkInv'
  BY <1>0, <1>1, <1>2, <1>3, <1>5 DEF WorkInv
<1>8. HistoryStays
  BY <1>1, <1>5 DEF HistoryStays, HistoryIs, ResidualStays
<1> QED BY <1>6, <1>7, <1>8 DEF ForwardInv

LEMMA MlpInputKeeps ==
  ASSUME ForwardInv, MlpInput
  PROVE  ForwardInv' /\ HistoryGrows(<< "attention", here >>)
<1> USE KindFacts
<1>0. /\ TypeOK /\ WorkInv /\ BuffersApart
      /\ \A b \in Buffers : front[b] \in Contents
  BY BufferFacts DEF ForwardInv, TypeOK
<1> DEFINE history == front[held.hidden].history
           grown == Append(history, << "attention", here >>)
           gated == Gated("attention", front[held.attention_output])
           norm2 == IF gated = Junk THEN Junk ELSE Content("norm2", here, gated.history)
<1>1. /\ Step("mlp_input", "mlp") /\ ready' = ready /\ pc = "mlp_input" /\ pc' = "mlp"
      /\ UNCHANGED << options, here, held >>
  BY DEF MlpInput, Step
<1>2. grown \in Histories /\ here \in Nat
  BY <1>1, InBlockFacts, MarkFacts DEF Marks
<1>3. gated = Hidden(grown) /\ gated \in Contents
  BY <1>0, <1>1, GatedFacts DEF WorkInv, BuffersApart
<1>4. norm2 = Content("norm2", here, grown) /\ norm2 \in Contents
  <2>1. Hidden(grown).is = "hidden" /\ Hidden(grown).history = grown /\ Junk.is = "junk"
    BY DEF Hidden, Content, Junk
  <2>2. gated.history = grown /\ gated # Junk
    BY <1>3, <2>1
  <2>3. norm2 = Content("norm2", here, grown)
    BY <2>2
  <2> HIDE DEF norm2, grown
  <2> QED BY <1>2, <2>3, ContentFacts
<1>5. Write(Two(held.hidden, gated, mlp_input, norm2))
  BY DEF MlpInput
<1> HIDE DEF gated, norm2
<1>6. /\ front' \in [Buffers -> Contents]
      /\ \A n \in Buffers :
           front'[n] = IF n = held.hidden THEN gated ELSE IF n = mlp_input THEN norm2 ELSE front[n]
      /\ tail' \in [Buffers -> Contents]
      /\ grid_reduced => tail' = tail
  <2>1. held.hidden \in Buffers /\ mlp_input \in Buffers
    BY <1>0 DEF BuffersApart
  <2> QED BY <1>0, <1>3, <1>4, <1>5, <2>1, WriteTwo
<1>7. /\ mlp_input # held.hidden /\ mlp_input \in Buffers /\ held.hidden \in Buffers
      /\ {"core_input", "core_residual"} \cap {mlp_input, held.hidden} = {}
      /\ {"core_input", "core_residual"} \subseteq Buffers
  BY <1>0 DEF BuffersApart
<1>8. mlp_input' = mlp_input
  BY <1>1 DEF mlp_input, fused_int8_mlp_input, mod_mlp
<1>9. TypeOK' /\ PositionInv' /\ HiddenInv' /\ KeptInv' /\ ResidualInv'
  <2>1. /\ front'[held.hidden] = Hidden(grown)
        /\ front'["core_input"] = front["core_input"]
        /\ front'["core_residual"] = front["core_residual"]
    BY <1>3, <1>6, <1>7
  <2> QED BY <1>1, <1>6, <2>1, StepKept
<1>10. WorkInv'
  <2>0. Hidden(grown).history = grown
    BY DEF Hidden, Content
  <2>1. front'[held.hidden].history = grown
    <3> HIDE DEF grown
    <3> QED BY <1>3, <1>6, <1>7, <2>0
  <2>2. front'[mlp_input'] = Content("norm2", here', front'[held'.hidden].history)
    BY <1>1, <1>4, <1>6, <1>7, <1>8, <2>1
  <2>3. ready'.quantized => ready'.adaln /\ "qkv" \in options'.int8
    BY <1>0, <1>1 DEF WorkInv
  <2> HIDE DEF grown, history
  <2> QED BY <1>1, <2>2, <2>3 DEF WorkInv
<1>11. HistoryGrows(<< "attention", here >>)
  <2>1. front'[held'.hidden] = Hidden(grown) /\ front'["core_residual"] = front["core_residual"]
    BY <1>1, <1>3, <1>6, <1>7
  <2>2. Hidden(grown).history = grown
    BY DEF Hidden, Content
  <2> QED BY <2>1, <2>2 DEF HistoryGrows, HistoryIs, ResidualStays
<1> QED BY <1>9, <1>10, <1>11 DEF ForwardInv

LEMMA RunMlpKeeps ==
  ASSUME ForwardInv, RunMlp
  PROVE  ForwardInv' /\ HistoryStays
<1> USE KindFacts
<1>0. /\ TypeOK /\ WorkInv /\ BuffersApart
      /\ \A b \in Buffers : front[b] \in Contents
  BY BufferFacts DEF ForwardInv, TypeOK
<1> DEFINE history == front[held.hidden].history
           made == Made("mlp", here, "norm2", front[mlp_input])
<1>1. /\ Step("mlp", "gate") /\ ready' = ready /\ pc = "mlp" /\ pc' = "gate"
      /\ UNCHANGED << options, here, held >>
  BY DEF RunMlp, Step
<1>2. made = Content("mlp", here, history) /\ made \in Contents /\ Junk \in Contents
  BY <1>0, <1>1, MadeInBlock, ContentFacts DEF WorkInv, BuffersApart
<1> HIDE DEF made
<1>3. /\ front' \in [Buffers -> Contents]
      /\ front'[mlp_output] = made
      /\ \A n \in Buffers : n \notin {mlp_output, "int8"} => front'[n] = front[n]
      /\ tail' \in [Buffers -> Contents]
      /\ grid_reduced => tail' = tail
  <2>0. mlp_output \in Buffers /\ "int8" \in Buffers /\ mlp_output # "int8"
    BY <1>0 DEF BuffersApart, mlp_output, TypeOK, Rotated
  <2>1. CASE Write(One(mlp_output, made))
    BY <1>0, <1>2, <2>0, <2>1, WriteOne
  <2>2. CASE Write(Two(mlp_output, made, "int8", Junk))
    BY <1>0, <1>2, <2>0, <2>2, WriteTwo
  <2>3. Write(IF "mlp" \in options.int8 THEN Two(mlp_output, made, "int8", Junk)
              ELSE One(mlp_output, made))
    BY DEF RunMlp, made
  <2> QED BY <2>1, <2>2, <2>3
<1>4. /\ held.hidden \notin {mlp_output, "int8"} /\ held.hidden \in Buffers
      /\ {"core_input", "core_residual"} \cap {mlp_output, "int8"} = {}
      /\ {"core_input", "core_residual"} \subseteq Buffers
  BY <1>0 DEF BuffersApart
<1>5. mlp_output' = mlp_output
  BY <1>1 DEF mlp_output
<1>6. /\ front'[held.hidden] = front[held.hidden]
      /\ front'["core_input"] = front["core_input"]
      /\ front'["core_residual"] = front["core_residual"]
  BY <1>3, <1>4
<1>7. TypeOK' /\ PositionInv' /\ HiddenInv' /\ KeptInv' /\ ResidualInv'
  BY <1>1, <1>3, <1>6, StepKept
<1>8. WorkInv'
  BY <1>0, <1>1, <1>2, <1>3, <1>5, <1>6 DEF WorkInv
<1>9. HistoryStays
  BY <1>1, <1>6 DEF HistoryStays, HistoryIs, ResidualStays
<1> QED BY <1>7, <1>8, <1>9 DEF ForwardInv
\* The last operation of a block passes to the next one, whose input it may leave.
LEMMA MlpGateKeeps ==
  ASSUME ForwardInv, MlpGate
  PROVE  ForwardInv' /\ HistoryGrows(<< "mlp", here >>)
<1> USE KindFacts
<1>0. /\ TypeOK /\ WorkInv /\ BuffersApart
      /\ \A b \in Buffers : front[b] \in Contents
  BY BufferFacts DEF ForwardInv, TypeOK
<1> DEFINE history == front[held.hidden].history
           grown == Append(history, << "mlp", here >>)
           gated == Gated("mlp", front[mlp_output])
           input == IF gated = Junk THEN Junk ELSE Content("norm1", here + 1, gated.history)
           quantized == "qkv" \in options.int8 /\ options.inputFused
           next == IF quantized THEN "int8" ELSE held.mod_attention
<1>1. /\ pc = "gate" /\ pc' = "block" /\ here' = here + 1
      /\ UNCHANGED << options, now, held, grid_reduced, passes, residual_ready >>
      /\ ready' = [adaln |-> fuse_next_attention, quantized |-> fuse_next_attention /\ quantized]
  BY DEF MlpGate
<1>2. /\ grown \in Histories /\ here \in Nat /\ here + 1 \in Nat /\ here < NBlocks
      /\ history \in Histories
      /\ (Pooled(grown) <=> Pooled(history)) /\ (Fresh(history) => Fresh(grown))
      /\ Pooled(history) <=> grid_reduced
  <2>1. "mlp" \in Marks /\ "mlp" \notin {"pool", "expand"}
    BY DEF Marks
  <2>2. history \in Histories /\ here \in Nat /\ here + 1 \in Nat /\ here < NBlocks
        /\ (Pooled(history) <=> grid_reduced)
    BY <1>1, InBlockFacts
  <2> QED BY <2>1, <2>2, MarkFacts
<1>3. gated = Hidden(grown) /\ gated \in Contents
  BY <1>0, <1>1, GatedFacts DEF WorkInv, BuffersApart
<1>4. input = Content("norm1", here + 1, grown) /\ input \in Contents
  <2>1. Hidden(grown).is = "hidden" /\ Hidden(grown).history = grown /\ Junk.is = "junk"
    BY DEF Hidden, Content, Junk
  <2>2. gated.history = grown /\ gated # Junk
    BY <1>3, <2>1
  <2>3. input = Content("norm1", here + 1, grown)
    BY <2>2
  <2> HIDE DEF input, grown
  <2> QED BY <1>2, <2>3, ContentFacts
<1>5. IF fuse_next_attention THEN Write(Two(held.hidden, gated, next, input))
      ELSE Write(One(held.hidden, gated))
  BY DEF MlpGate
<1>6. /\ held.hidden \in Buffers /\ next \in Buffers /\ next # held.hidden
      /\ {"core_input", "core_residual"} \cap {next, held.hidden} = {}
      /\ {"core_input", "core_residual"} \subseteq Buffers
  BY <1>0 DEF BuffersApart
<1> HIDE DEF gated, input, next
<1>7. /\ front' \in [Buffers -> Contents]
      /\ front'[held.hidden] = gated
      /\ fuse_next_attention => front'[next] = input
      /\ front'["core_input"] = front["core_input"]
      /\ front'["core_residual"] = front["core_residual"]
      /\ tail' \in [Buffers -> Contents]
      /\ grid_reduced => tail' = tail
  <2>1. CASE fuse_next_attention
    <3>1. Write(Two(held.hidden, gated, next, input))
      BY <1>5, <2>1
    <3>2. /\ front' \in [Buffers -> Contents]
          /\ \A n \in Buffers :
               front'[n] = IF n = held.hidden THEN gated ELSE IF n = next THEN input ELSE front[n]
          /\ tail' \in [Buffers -> Contents]
          /\ grid_reduced => tail' = tail
      BY <1>0, <1>3, <1>4, <1>6, <3>1, WriteTwo
    <3> QED BY <1>6, <3>2
  <2>2. CASE ~fuse_next_attention
    <3>1. Write(One(held.hidden, gated))
      BY <1>5, <2>2
    <3>2. /\ front' \in [Buffers -> Contents]
          /\ \A n \in Buffers : front'[n] = IF n = held.hidden THEN gated ELSE front[n]
          /\ tail' \in [Buffers -> Contents]
          /\ grid_reduced => tail' = tail
      BY <1>0, <1>3, <1>6, <3>1, WriteOne
    <3> QED BY <1>6, <2>2, <3>2
  <2> QED BY <2>1, <2>2
<1>8. TypeOK'
  <2>1. here' \in 0..NBlocks /\ fuse_next_attention \in BOOLEAN
    BY <1>1, <1>2, BoundaryFacts, <1>0 DEF fuse_next_attention
  <2>2. ready' \in [adaln : BOOLEAN, quantized : BOOLEAN]
    BY <1>1, <2>1
  <2> QED BY <1>0, <1>1, <1>7, <2>1, <2>2 DEF TypeOK, States
<1>9. PositionInv'
  BY <1>0, <1>1, <1>2, BoundaryFacts
  DEF ForwardInv, PositionInv, InBlock, token_reduction, token_reduction_end
<1>10. front'[held.hidden] = Hidden(grown) /\ Hidden(grown).history = grown
  BY <1>3, <1>7 DEF Hidden, Content
<1>11. HiddenInv'
  <2>1. /\ front'[held'.hidden] = Hidden(grown) /\ front'[held'.hidden].history = grown
        /\ pc' = "block" /\ token_reduction' = token_reduction
        /\ Pooled(grown) <=> grid_reduced'
    BY <1>1, <1>2, <1>10 DEF token_reduction
  <2>2. (token_reduction => here' <= options.begin) => Fresh(history)
    BY <1>0, <1>1, <1>2, BoundaryFacts DEF ForwardInv, HiddenInv
  <2> HIDE DEF grown, history
  <2> QED BY <1>1, <1>2, <2>1, <2>2 DEF HiddenInv, InBlock
<1>12. ASSUME grid_reduced PROVE PooledFrom(tail[held.hidden].history, options.begin, grown)
  <2>1. tail[held.hidden].history \in Histories /\ "mlp" \in Marks
    BY <1>0, ContentFacts DEF TypeOK, BuffersApart, Marks
  <2> QED BY <1>2, <1>12, <2>1, PooledFromGrows DEF ForwardInv, KeptInv
<1>13. KeptInv'
  BY <1>1, <1>7, <1>10, <1>12 DEF ForwardInv, KeptInv, token_original
<1>14. WorkInv'
  <2>1. ready'.adaln = fuse_next_attention /\ ready'.quantized = (fuse_next_attention /\ quantized)
    BY <1>1
  <2>2. ready'.quantized => ready'.adaln /\ "qkv" \in options.int8
    BY <2>1
  <2>3. fuse_next_attention =>
          (IF ready'.quantized THEN front'["int8"] ELSE front'[held.mod_attention]) = front'[next]
    BY <2>1 DEF next
  <2>4. ready'.adaln => fuse_next_attention
    BY <2>1
  <2> HIDE DEF quantized, grown
  <2> QED BY <1>1, <1>4, <1>7, <1>10, <2>2, <2>3, <2>4 DEF WorkInv, carried_input
<1>15. ResidualInv'
  BY <1>1, <1>7 DEF ForwardInv, ResidualInv, InBlock
<1>16. HistoryGrows(<< "mlp", here >>)
  BY <1>1, <1>7, <1>10 DEF HistoryGrows, HistoryIs, ResidualStays
<1> QED BY <1>8, <1>9, <1>11, <1>13, <1>14, <1>15, <1>16 DEF ForwardInv
(***************************************************************************)
(* The operations of a step around its blocks.                             *)
(***************************************************************************)
\* Outside the blocks the grid is the full one.
LEMMA FullOutside ==
  ASSUME ForwardInv, pc \notin InBlock, pc # "block"
  PROVE  ~grid_reduced
BY DEF ForwardInv, PositionInv

LEMMA PackKeeps ==
  ASSUME ForwardInv, Pack
  PROVE  ForwardInv' /\ HistoryIs(<< << "pack", now >> >>)
<1>0. /\ TypeOK /\ BuffersApart /\ residual_ready \in BOOLEAN /\ now \in Nat /\ NBlocks \in Nat
      /\ options.interval \in Nat \ {0}
  BY BufferFacts, BoundaryFacts DEF ForwardInv, TypeOK
<1> DEFINE packed == << << "pack", now >> >>
<1>1. /\ pc = "pack" /\ pc' = IF evaluate_core THEN "block" ELSE "reuse"
      /\ here' = 0 /\ ready' = [adaln |-> FALSE, quantized |-> FALSE]
      /\ UNCHANGED << options, now, held, grid_reduced, passes, residual_ready >>
  BY DEF Pack
<1>2. packed \in Histories /\ Fresh(packed) /\ ~Pooled(packed)
  BY <1>0, PackFacts DEF Fresh, Pooled
<1>3. Hidden(packed) \in Contents /\ Hidden(packed).history = packed
  BY <1>2, ContentFacts DEF Kinds, Hidden, Content
<1>4. Write(IF evaluate_core /\ options.interval > 1
            THEN Two(held.hidden, Hidden(packed), "core_input", Hidden(packed))
            ELSE One(held.hidden, Hidden(packed)))
  BY DEF Pack
<1> HIDE DEF packed
<1>5. /\ front' \in [Buffers -> Contents]
      /\ front'[held.hidden] = Hidden(packed)
      /\ evaluate_core /\ options.interval > 1 => front'["core_input"] = Hidden(packed)
      /\ front'["core_residual"] = front["core_residual"]
      /\ tail' \in [Buffers -> Contents]
  <2>0. /\ held.hidden \in Buffers /\ "core_input" \in Buffers /\ "core_residual" \in Buffers
        /\ held.hidden # "core_residual" /\ held.hidden # "core_input"
    BY <1>0 DEF BuffersApart
  <2>1. CASE evaluate_core /\ options.interval > 1
    <3>1. Write(Two(held.hidden, Hidden(packed), "core_input", Hidden(packed)))
      BY <1>4, <2>1
    <3>2. /\ front' \in [Buffers -> Contents]
          /\ \A n \in Buffers : front'[n] = IF n = held.hidden THEN Hidden(packed)
                                  ELSE IF n = "core_input" THEN Hidden(packed) ELSE front[n]
          /\ tail' \in [Buffers -> Contents]
      BY <1>0, <1>3, <2>0, <3>1, WriteTwo
    <3> QED BY <2>0, <3>2
  <2>2. CASE ~(evaluate_core /\ options.interval > 1)
    <3>1. Write(One(held.hidden, Hidden(packed)))
      BY <1>4, <2>2
    <3>2. /\ front' \in [Buffers -> Contents]
          /\ \A n \in Buffers : front'[n] = IF n = held.hidden THEN Hidden(packed) ELSE front[n]
          /\ tail' \in [Buffers -> Contents]
      BY <1>0, <1>3, <2>0, <3>1, WriteOne
    <3> QED BY <2>0, <2>2, <3>2
  <2> QED BY <2>1, <2>2
<1>6. ~grid_reduced
  BY <1>1, FullOutside DEF InBlock
<1>7. TypeOK'
  BY <1>0, <1>1, <1>5 DEF TypeOK, States
<1>8. PositionInv'
  BY <1>0, <1>1, <1>6, BoundaryFacts
  DEF PositionInv, InBlock, token_reduction, token_reduction_end
<1>9. HiddenInv'
  BY <1>1, <1>2, <1>3, <1>5, <1>6 DEF HiddenInv, States, InBlock
<1>10. KeptInv'
  BY <1>1, <1>6 DEF KeptInv
<1>11. WorkInv'
  BY <1>1 DEF WorkInv
<1>12. ~evaluate_core => residual_ready
  BY DEF evaluate_core
<1>13. ResidualInv'
  BY <1>1, <1>5, <1>12 DEF ForwardInv, ResidualInv, InBlock, packed
<1>14. HistoryIs(<< << "pack", now >> >>)
  BY <1>1, <1>3, <1>5 DEF HistoryIs, ResidualStays, packed
<1> QED BY <1>7, <1>8, <1>9, <1>10, <1>11, <1>13, <1>14 DEF ForwardInv

LEMMA NextBlockKeeps ==
  ASSUME ForwardInv, NextBlock
  PROVE  ForwardInv' /\ HistoryStays
<1>0. /\ TypeOK /\ WorkInv /\ here \in Nat /\ NBlocks \in Nat
      /\ options.begin \in Nat /\ token_reduction_end \in Nat
  BY BoundaryFacts DEF ForwardInv
<1>1. /\ pc = "block" /\ here < NBlocks
      /\ token_reduction => here # options.begin /\ here # token_reduction_end
      /\ UNCHANGED << options, now, held, grid_reduced, front, tail, passes, residual_ready >>
      /\ \/ /\ here \in options.active /\ pc' = "adaln" /\ here' = here
            /\ ready' = [adaln |-> ready.adaln, quantized |-> ready.quantized]
         \/ /\ here' = here + 1 /\ pc' = "block"
            /\ ready' = [adaln |-> FALSE, quantized |-> FALSE]
  BY DEF NextBlock, Proceed, AtBoundary
<1>2. ready.adaln \in BOOLEAN /\ ready.quantized \in BOOLEAN
  BY <1>0 DEF TypeOK
<1>3. TypeOK'
  <2>0. pc' \in {"adaln", "block"} /\ here' \in {here, here + 1}
    BY <1>1
  <2>1. here' \in 0..NBlocks
    <3>1. here \in Nat /\ NBlocks \in Nat /\ here < NBlocks
      BY <1>0, <1>1
    <3> QED BY <2>0, <3>1
  <2>3. pc' \in States
    BY <2>0 DEF States, InBlock
  <2>2. ready' \in [adaln : BOOLEAN, quantized : BOOLEAN]
    <3>1. CASE ready' = [adaln |-> ready.adaln, quantized |-> ready.quantized]
      BY <1>2, <3>1
    <3>2. CASE ready' = [adaln |-> FALSE, quantized |-> FALSE]
      BY <3>2
    <3> QED BY <1>1, <3>1, <3>2
  <2> QED BY <1>0, <1>1, <2>1, <2>2, <2>3 DEF TypeOK
<1>4. PositionInv'
  BY <1>0, <1>1 DEF ForwardInv, PositionInv, InBlock, token_reduction, token_reduction_end
<1>5. HiddenInv'
  BY <1>0, <1>1 DEF ForwardInv, HiddenInv, InBlock, States, token_reduction
<1>6. KeptInv'
  BY <1>1 DEF ForwardInv, KeptInv, token_original
<1>7. WorkInv'
  BY <1>0, <1>1 DEF WorkInv, carried_input
<1>8. ResidualInv'
  BY <1>1 DEF ForwardInv, ResidualInv, InBlock
<1>9. HistoryStays
  BY <1>1 DEF HistoryStays, HistoryIs, ResidualStays
<1> QED BY <1>3, <1>4, <1>5, <1>6, <1>7, <1>8, <1>9 DEF ForwardInv
\* After its boundary a block begins or is passed over.
LEMMA ProceedFacts ==
  ASSUME TypeOK, pc = "block", here < NBlocks, NEW adaln \in BOOLEAN, Proceed(adaln, FALSE)
  PROVE  /\ options' = options /\ now' = now
         /\ here' \in 0..NBlocks /\ pc' \in {"block", "adaln"}
         /\ ready' \in [adaln : BOOLEAN, quantized : BOOLEAN] /\ ~ready'.quantized
         /\ ready'.adaln => adaln /\ here' = here
         /\ \/ pc' = "adaln" /\ here' = here /\ here \in options.active
            \/ pc' = "block" /\ here' = here + 1
<1>1. here \in Nat /\ NBlocks \in Nat
  BY BoundaryFacts
<1>2. CASE here \in options.active
  <2>1. /\ pc' = "adaln" /\ options' = options /\ now' = now /\ here' = here
        /\ ready' = [adaln |-> adaln, quantized |-> FALSE]
    BY <1>2 DEF Proceed
  <2>2. ready' \in [adaln : BOOLEAN, quantized : BOOLEAN] /\ ~ready'.quantized
    BY <2>1
  <2>3. ready'.adaln => adaln
    BY <2>1
  <2>4. here' \in 0..NBlocks
    BY <1>1, <2>1
  <2> QED BY <1>2, <2>1, <2>2, <2>3, <2>4
<1>3. CASE here \notin options.active
  <2>1. /\ pc' = "block" /\ options' = options /\ now' = now /\ here' = here + 1
        /\ ready' = [adaln |-> FALSE, quantized |-> FALSE]
    BY <1>3 DEF Proceed
  <2>2. /\ ready' \in [adaln : BOOLEAN, quantized : BOOLEAN]
        /\ ~ready'.quantized /\ ~ready'.adaln
    BY <2>1
  <2>3. here' \in 0..NBlocks
    BY <1>1, <2>1
  <2> QED BY <2>1, <2>2, <2>3
<1> QED BY <1>2, <1>3

\* Pooling: the hidden states move to where the attention output was, with what it takes
\* to restore them behind the rows in use.
LEMMA EnterReductionKeeps ==
  ASSUME ForwardInv, EnterReduction
  PROVE  ForwardInv' /\ HistoryGrows(<< "pool", here >>)
<1>0. /\ TypeOK /\ WorkInv /\ BuffersApart /\ here \in Nat /\ NBlocks \in Nat
      /\ options.begin \in Nat /\ token_reduction_end \in Nat
      /\ token_reduction => options.begin < token_reduction_end
      /\ \A b \in Buffers : front[b] \in Contents
  BY BufferFacts, BoundaryFacts DEF ForwardInv, TypeOK
<1> DEFINE hidden == front[held.hidden]
           h == hidden.history
           grown == Append(h, << "pool", here >>)
           pooled == IF hidden.is = "hidden" /\ ~Pooled(h) THEN Hidden(grown) ELSE Junk
           fused == options.poolFused /\ here \in options.active
           input == Content("norm1", here, pooled.history)
           next == held.attention_output
<1>1. /\ pc = "block" /\ here < NBlocks /\ token_reduction /\ here = options.begin
      /\ UNCHANGED << passes, residual_ready >>
      /\ front' = With(IF fused THEN Two(next, pooled, held.mod_attention, input)
                       ELSE One(next, pooled))
      /\ tail' = [tail EXCEPT ![token_original] = Content("original", 0, h),
                              ![next] = Content("baseline", 0, h)]
      /\ held' = [held EXCEPT !.hidden = next, !.attention_output = held.hidden]
      /\ grid_reduced' = TRUE
      /\ Proceed(fused, FALSE)
  BY DEF EnterReduction, AtBoundary
<1>2. /\ options' = options /\ now' = now
      /\ here' \in 0..NBlocks /\ pc' \in {"block", "adaln"}
      /\ ready' \in [adaln : BOOLEAN, quantized : BOOLEAN] /\ ~ready'.quantized
      /\ ready'.adaln => fused /\ here' = here
      /\ \/ pc' = "adaln" /\ here' = here /\ here \in options.active
         \/ pc' = "block" /\ here' = here + 1
  <2>1. fused \in BOOLEAN
    OBVIOUS
  <2> QED BY <1>0, <1>1, <2>1, ProceedFacts
<1>3. /\ h \in Histories /\ hidden = Hidden(h) /\ hidden.is = "hidden" /\ Fresh(h)
      /\ ~grid_reduced
  <2>1. ~grid_reduced
    BY <1>0, <1>1 DEF ForwardInv, PositionInv, InBlock
  <2>2. hidden = Hidden(h) /\ Fresh(h)
    BY <1>0, <1>1 DEF ForwardInv, HiddenInv, States
  <2>3. hidden.is = "hidden"
    BY <2>2 DEF Hidden, Content
  <2>4. h \in Histories
    BY <1>0, ContentFacts DEF BuffersApart
  <2> QED BY <2>1, <2>2, <2>3, <2>4
<1>4. /\ grown \in Histories /\ Pooled(grown) /\ ~Pooled(h)
      /\ pooled = Hidden(grown) /\ pooled.history = grown /\ pooled \in Contents
      /\ input = Content("norm1", here, grown) /\ input \in Contents
      /\ Content("original", 0, h) \in Contents /\ Content("baseline", 0, h) \in Contents
  <2>1. "pool" \in Marks
    BY DEF Marks
  <2>2. grown \in Histories /\ Pooled(grown) /\ ~Pooled(h)
    BY <1>0, <1>3, <2>1, MarkFacts
  <2>3. pooled = Hidden(grown)
    BY <1>3, <2>2
  <2>4. Hidden(grown).history = grown
    BY DEF Hidden, Content
  <2>5. {"hidden", "norm1", "original", "baseline"} \subseteq Kinds
    BY DEF Kinds
  <2>6. pooled.history = grown
    BY <2>3, <2>4
  <2> HIDE DEF grown, pooled, h
  <2> QED BY <1>0, <1>3, <2>2, <2>3, <2>5, <2>6, ContentFacts
<1> HIDE DEF pooled, input
<1>5. /\ held.hidden \in Rotated /\ held.attention_output \in Rotated
      /\ held.mod_attention \in Rotated
      /\ held.hidden # held.attention_output /\ held.hidden # held.mod_attention
      /\ held.attention_output # held.mod_attention
      /\ held' = [hidden |-> next, attention_output |-> held.hidden,
                  mod_attention |-> held.mod_attention]
  BY <1>0, <1>1 DEF TypeOK
<1>6. /\ held'.hidden = next /\ held'.attention_output = held.hidden
      /\ held'.mod_attention = held.mod_attention
  BY <1>5
<1>7. /\ next \in Buffers /\ held.mod_attention \in Buffers /\ token_original \in Buffers
      /\ next # held.mod_attention /\ next # token_original
      /\ "core_input" \in Buffers /\ "core_residual" \in Buffers
      /\ {"core_input", "core_residual"} \cap {next, held.mod_attention} = {}
  BY <1>0, <1>5 DEF BuffersApart
<1>8. /\ front' \in [Buffers -> Contents]
      /\ front'[next] = pooled
      /\ fused => front'[held.mod_attention] = input
      /\ front'["core_input"] = front["core_input"]
      /\ front'["core_residual"] = front["core_residual"]
  <2>1. CASE fused
    <3>1. front' = With(Two(next, pooled, held.mod_attention, input))
      BY <1>1, <2>1
    <3>2. /\ front' \in [Buffers -> Contents]
          /\ \A n \in Buffers : front'[n] = IF n = next THEN pooled
                                  ELSE IF n = held.mod_attention THEN input ELSE front[n]
      BY <1>0, <1>4, <1>7, <3>1 DEF With, Two
    <3> QED BY <1>7, <3>2
  <2>2. CASE ~fused
    <3>1. front' = With(One(next, pooled))
      BY <1>1, <2>2
    <3>2. /\ front' \in [Buffers -> Contents]
          /\ \A n \in Buffers : front'[n] = IF n = next THEN pooled ELSE front[n]
      BY <1>0, <1>4, <1>7, <3>1 DEF With, One
    <3> QED BY <1>7, <2>2, <3>2
  <2> QED BY <2>1, <2>2
<1>9. /\ tail' \in [Buffers -> Contents]
      /\ tail'[token_original] = Content("original", 0, h)
      /\ tail'[next] = Content("baseline", 0, h)
  BY <1>0, <1>1, <1>4, <1>7 DEF TypeOK
<1>10. TypeOK'
  <2>1. pc' \in States
    BY <1>2 DEF States, InBlock
  <2>2. /\ held' \in [hidden : Rotated, attention_output : Rotated, mod_attention : Rotated]
        /\ held'.hidden # held'.attention_output /\ held'.hidden # held'.mod_attention
        /\ held'.attention_output # held'.mod_attention
    BY <1>5
  <2> QED BY <1>0, <1>1, <1>2, <1>8, <1>9, <2>1, <2>2 DEF TypeOK
<1>11. PositionInv'
  <2>1. token_reduction' /\ token_reduction_end' = token_reduction_end /\ grid_reduced'
    BY <1>1, <1>2 DEF token_reduction, token_reduction_end
  <2>2. "adaln" \in InBlock
    BY DEF InBlock
  <2>3. CASE pc' = "adaln"
    BY <1>0, <1>1, <1>2, <2>1, <2>2, <2>3 DEF PositionInv
  <2>4. CASE pc' = "block"
    <3>1. here' = here + 1 /\ pc' \notin InBlock
      BY <1>2, <2>4 DEF InBlock
    <3>2. options.begin < here' /\ here' <= token_reduction_end
      BY <1>0, <1>1, <3>1
    <3> QED BY <1>2, <2>1, <2>4, <3>1, <3>2 DEF PositionInv
  <2> QED BY <1>2, <2>3, <2>4
<1>12. HiddenInv'
  <2>1. /\ front'[held'.hidden] = Hidden(grown) /\ front'[held'.hidden].history = grown
        /\ Pooled(grown) /\ grid_reduced'
    BY <1>1, <1>4, <1>6, <1>8
  <2>2. token_reduction' /\ options' = options /\ pc' # "reuse"
    BY <1>1, <1>2 DEF token_reduction
  <2>3. pc' = "block" => ~(here' <= options.begin)
    BY <1>0, <1>1, <1>2
  <2>4. pc' \in InBlock => ~(here' < options.begin)
    BY <1>0, <1>1, <1>2 DEF InBlock
  <2> HIDE DEF grown
  <2> QED BY <2>1, <2>2, <2>3, <2>4 DEF HiddenInv
<1>13. KeptInv'
  <2>1. PooledFrom(h, options.begin, grown)
    <3>1. << "pool", here >> \in Marks \X Nat
      BY <1>0 DEF Marks
    <3> QED BY <1>1, <1>3, <3>1, AppendFacts DEF PooledFrom, Histories
  <2>2. Content("baseline", 0, h).history = h
    BY DEF Content
  <2>3. token_original' = token_original /\ options'.begin = options.begin
    BY <1>2 DEF token_original
  <2>4. tail'[held'.hidden].history = h /\ front'[held'.hidden].history = grown
    BY <1>4, <1>6, <1>8, <1>9, <2>2
  <2> HIDE DEF h, grown
  <2> QED BY <1>6, <1>9, <2>1, <2>3, <2>4 DEF KeptInv
<1>14. WorkInv'
  <2>1. front'[held'.hidden].history = grown
    BY <1>4, <1>6, <1>8
  <2>2. ready'.adaln =>
          carried_input' = Content("norm1", here', front'[held'.hidden].history)
    BY <1>2, <1>4, <1>6, <1>8, <2>1 DEF carried_input
  <2>3. pc' \notin {"qkv", "attention", "output", "mlp_input", "mlp", "gate"}
    BY <1>2
  <2> HIDE DEF grown
  <2> QED BY <1>2, <2>2, <2>3 DEF WorkInv
<1>15. ResidualInv'
  BY <1>1, <1>2, <1>8 DEF ForwardInv, ResidualInv, InBlock
<1>16. HistoryGrows(<< "pool", here >>)
  BY <1>4, <1>6, <1>8 DEF HistoryGrows, HistoryIs, ResidualStays
<1> QED BY <1>10, <1>11, <1>12, <1>13, <1>14, <1>15, <1>16 DEF ForwardInv
\* What was kept is what was pooled, so the full rows can be restored.
LEMMA RestoredFacts ==
  ASSUME ForwardInv, pc = "block", grid_reduced
  PROVE  LET h == front[held.hidden].history
             grown == Append(h, << "expand", here >>)
         IN /\ h \in Histories /\ grown \in Histories /\ ~Pooled(grown)
            /\ Restored = Hidden(grown) /\ Restored.history = grown /\ Restored \in Contents
<1> DEFINE h == front[held.hidden].history
           grown == Append(h, << "expand", here >>)
           kept == tail[held.hidden].history
<1>1. /\ h \in Histories /\ kept \in Histories /\ here \in Nat
  BY BufferFacts, BoundaryFacts, ContentFacts DEF ForwardInv, TypeOK, BuffersApart
<1>2. front[held.hidden] = Hidden(h) /\ Pooled(h)
  BY DEF ForwardInv, HiddenInv, States
<1>3. front[held.hidden].is = "hidden"
  BY <1>2 DEF Hidden, Content
<1>4. /\ tail[token_original] = Content("original", 0, kept)
      /\ tail[held.hidden] = Content("baseline", 0, kept)
      /\ PooledFrom(kept, options.begin, h)
  BY DEF ForwardInv, KeptInv
<1>5. tail[token_original].history = kept
  BY <1>4 DEF Content
<1>6. SubSeq(h, 1, Len(kept) + 1) = Append(kept, << "pool", options.begin >>)
  <2>1. /\ h \in Seq(Marks \X Nat) /\ kept \in Seq(Marks \X Nat)
        /\ Len(kept) \in Nat /\ Len(h) \in Nat
    BY <1>1 DEF Histories
  <2>2. << "pool", options.begin >> \in Marks \X Nat
    BY BoundaryFacts DEF ForwardInv, Marks
  <2>3. /\ Len(kept) + 1 <= Len(h)
        /\ \A i \in 1..Len(kept) : h[i] = kept[i]
        /\ h[Len(kept) + 1] = << "pool", options.begin >>
    BY <1>4 DEF PooledFrom
  <2>4. /\ Len(Append(kept, << "pool", options.begin >>)) = Len(kept) + 1
        /\ \A i \in 1..Len(kept) : Append(kept, << "pool", options.begin >>)[i] = kept[i]
        /\ Append(kept, << "pool", options.begin >>)[Len(kept) + 1] = << "pool", options.begin >>
        /\ Append(kept, << "pool", options.begin >>) \in Seq(Marks \X Nat)
    <3> DEFINE mark == << "pool", options.begin >>
    <3>1. kept \in Seq(Marks \X Nat) /\ mark \in Marks \X Nat
      BY <2>1, <2>2
    <3> HIDE DEF mark, kept
    <3>2. /\ Len(Append(kept, mark)) = Len(kept) + 1
          /\ \A i \in 1..Len(kept) : Append(kept, mark)[i] = kept[i]
          /\ Append(kept, mark)[Len(kept) + 1] = mark
          /\ Append(kept, mark) \in Seq(Marks \X Nat)
      BY <3>1, AppendFacts
    <3> QED BY <3>2 DEF mark
  <2> DEFINE n == Len(kept) + 1
             left == SubSeq(h, 1, n)
             right == Append(kept, << "pool", options.begin >>)
  <2>5. /\ n \in Nat /\ n >= 1 /\ 1 \in Int /\ n \in Int /\ n - 1 + 1 = n
        /\ \A i \in 1..n : h[i] \in Marks \X Nat
    <3>2. \A i \in 1..Len(h) : h[i] \in Marks \X Nat
      BY <2>1
    <3> HIDE DEF h, kept
    <3>1. n \in Nat /\ n >= 1 /\ 1 \in Int /\ n \in Int /\ n - 1 + 1 = n /\ n <= Len(h)
      BY <2>1, <2>3
    <3> HIDE DEF n
    <3>3. \A i \in 1..n : i \in 1..Len(h)
      BY <2>1, <3>1
    <3> QED BY <3>1, <3>2, <3>3
  <2>6. /\ left \in Seq(Marks \X Nat) /\ Len(left) = n
        /\ \A i \in 1..n : left[i] = h[i]
    <3> HIDE DEF n
    <3>1. /\ left \in Seq(Marks \X Nat)
          /\ Len(left) = IF 1 <= n THEN n - 1 + 1 ELSE 0
          /\ \A i \in 1..(n - 1 + 1) : left[i] = h[1 + i - 1]
      BY <2>5, SubSeqProperties
    <3>2. \A i \in 1..n : 1 + i - 1 = i
      BY <2>5
    <3> HIDE DEF left
    <3> QED BY <2>5, <3>1, <3>2
  <2>7. \A i \in 1..n : h[i] = right[i]
    <3>1. \A i \in 1..n : i \in 1..Len(kept) \/ i = Len(kept) + 1
      BY <2>1
    <3> QED BY <2>3, <2>4, <3>1
  <2>8. right \in Seq(Marks \X Nat) /\ Len(right) = n
    BY <2>4
  <2> HIDE DEF left, right, n
  <2>9. left = right
    BY <2>6, <2>7, <2>8, SeqEqual
  <2> QED BY <2>9 DEF left, right, n
<1>7. grown \in Histories /\ ~Pooled(grown)
  BY <1>1, MarkFacts DEF Marks
<1>8. Restored = Hidden(grown)
  BY <1>2, <1>3, <1>4, <1>5, <1>6 DEF Restored
<1>9. Hidden(grown).history = grown
  BY DEF Hidden, Content
<1>10. Hidden(grown) \in Contents
  BY <1>7, ContentFacts DEF Kinds
<1> HIDE DEF grown
<1> QED BY <1>1, <1>7, <1>8, <1>9, <1>10 DEF grown

\* The full rows go where nothing else is needed any more.
LEMMA LeavesFacts ==
  ASSUME ForwardInv, pc = "block", grid_reduced, NEW fused \in BOOLEAN, Leaves(fused)
  PROVE  LET grown == Append(front[held.hidden].history, << "expand", here >>)
         IN /\ grown \in Histories /\ ~Pooled(grown) /\ ~grid_reduced'
            /\ front' \in [Buffers -> Contents] /\ tail' \in [Buffers -> Contents]
            /\ held' \in [hidden : Rotated, attention_output : Rotated, mod_attention : Rotated]
            /\ held'.hidden # held'.attention_output /\ held'.hidden # held'.mod_attention
            /\ held'.attention_output # held'.mod_attention
            /\ front'[held'.hidden] = Hidden(grown) /\ Hidden(grown).history = grown
            /\ fused => front'[held'.mod_attention] = Content("norm1", here, grown)
            /\ front'["core_input"] = front["core_input"]
            /\ front'["core_residual"] = front["core_residual"]
<1> DEFINE grown == Append(front[held.hidden].history, << "expand", here >>)
           input == Content("norm1", here, grown)
           new == IF fused THEN Two(held.attention_output, Restored, held.mod_attention, input)
                  ELSE One(held.mod_attention, Restored)
<1>0. /\ TypeOK /\ BuffersApart /\ here \in Nat
      /\ front \in [Buffers -> Contents] /\ tail \in [Buffers -> Contents]
  BY BufferFacts, BoundaryFacts DEF ForwardInv, TypeOK
<1>1. /\ grown \in Histories /\ ~Pooled(grown)
      /\ Restored = Hidden(grown) /\ Restored.history = grown /\ Restored \in Contents
  BY RestoredFacts
<1>2. /\ front' = With(new)
      /\ tail' = [b \in Buffers |-> IF b \in DOMAIN new THEN Junk ELSE tail[b]]
      /\ held' = IF fused THEN [held EXCEPT !.hidden = held.attention_output,
                                            !.attention_output = held.hidden]
                 ELSE [held EXCEPT !.hidden = held.mod_attention, !.mod_attention = held.hidden]
      /\ grid_reduced' = FALSE
  BY <1>1 DEF Leaves
<1>3. input \in Contents
  BY <1>0, <1>1, ContentFacts DEF Kinds
<1>4. Hidden(grown).history = grown
  BY <1>1
<1>5. /\ held.hidden \in Rotated /\ held.attention_output \in Rotated
      /\ held.mod_attention \in Rotated
      /\ held.hidden # held.attention_output /\ held.hidden # held.mod_attention
      /\ held.attention_output # held.mod_attention
      /\ held' = IF fused
                 THEN [hidden |-> held.attention_output, attention_output |-> held.hidden,
                       mod_attention |-> held.mod_attention]
                 ELSE [hidden |-> held.mod_attention, mod_attention |-> held.hidden,
                       attention_output |-> held.attention_output]
  <2>1. /\ held \in [hidden : Rotated, attention_output : Rotated, mod_attention : Rotated]
        /\ held.hidden # held.attention_output /\ held.hidden # held.mod_attention
        /\ held.attention_output # held.mod_attention
    BY <1>0 DEF TypeOK
  <2>2. CASE fused
    <3>1. held' = [held EXCEPT !.hidden = held.attention_output, !.attention_output = held.hidden]
      BY <1>2, <2>2
    <3>2. held' = [hidden |-> held.attention_output, attention_output |-> held.hidden,
                   mod_attention |-> held.mod_attention]
      BY <2>1, <3>1
    <3> QED BY <2>1, <2>2, <3>2
  <2>3. CASE ~fused
    <3>1. held' = [held EXCEPT !.hidden = held.mod_attention, !.mod_attention = held.hidden]
      BY <1>2, <2>3
    <3>2. held' = [hidden |-> held.mod_attention, mod_attention |-> held.hidden,
                   attention_output |-> held.attention_output]
      BY <2>1, <3>1
    <3> QED BY <2>1, <2>3, <3>2
  <2> QED BY <2>2, <2>3
<1>6. /\ held' \in [hidden : Rotated, attention_output : Rotated, mod_attention : Rotated]
      /\ held'.hidden # held'.attention_output /\ held'.hidden # held'.mod_attention
      /\ held'.attention_output # held'.mod_attention
  BY <1>5
<1>7. tail' \in [Buffers -> Contents]
  BY <1>0, <1>2, ContentFacts
<1>8. /\ held.attention_output \in Buffers /\ held.mod_attention \in Buffers
      /\ "core_input" \in Buffers /\ "core_residual" \in Buffers
      /\ {"core_input", "core_residual"} \cap {held.attention_output, held.mod_attention} = {}
  BY <1>0 DEF BuffersApart
<1> HIDE DEF grown, input
<1>9. CASE fused
  <2>1. front' = With(Two(held.attention_output, Restored, held.mod_attention, input))
    BY <1>2, <1>9
  <2>2. /\ front' \in [Buffers -> Contents]
        /\ \A n \in Buffers : front'[n] = IF n = held.attention_output THEN Restored
                                ELSE IF n = held.mod_attention THEN input ELSE front[n]
    BY <1>0, <1>1, <1>3, <1>8, <2>1 DEF With, Two
  <2>3. held'.hidden = held.attention_output /\ held'.mod_attention = held.mod_attention
    BY <1>5, <1>9
  <2> QED BY <1>1, <1>2, <1>4, <1>5, <1>6, <1>7, <1>8, <2>2, <2>3 DEF grown, input
<1>10. CASE ~fused
  <2>1. front' = With(One(held.mod_attention, Restored))
    BY <1>2, <1>10
  <2>2. /\ front' \in [Buffers -> Contents]
        /\ \A n \in Buffers : front'[n] = IF n = held.mod_attention THEN Restored ELSE front[n]
    BY <1>0, <1>1, <1>8, <2>1 DEF With, One
  <2>3. held'.hidden = held.mod_attention
    BY <1>5, <1>10
  <2> QED BY <1>1, <1>2, <1>4, <1>6, <1>7, <1>8, <1>10, <2>2, <2>3 DEF grown
<1> QED BY <1>9, <1>10
LEMMA LeaveReductionKeeps ==
  ASSUME ForwardInv, LeaveReduction
  PROVE  ForwardInv' /\ HistoryGrows(<< "expand", here >>)
<1>0. /\ TypeOK /\ WorkInv /\ here \in Nat /\ NBlocks \in Nat
      /\ options.begin \in Nat /\ token_reduction_end \in Nat
      /\ token_reduction => options.begin < token_reduction_end
  BY BoundaryFacts DEF ForwardInv
<1> DEFINE fused == options.expandFused /\ here \in options.active
           grown == Append(front[held.hidden].history, << "expand", here >>)
<1>1. /\ pc = "block" /\ here < NBlocks /\ token_reduction /\ here = token_reduction_end
      /\ UNCHANGED << passes, residual_ready >>
      /\ Leaves(fused) /\ Proceed(fused, FALSE)
  BY DEF LeaveReduction, AtBoundary
<1>2. fused \in BOOLEAN
  OBVIOUS
<1>3. /\ options' = options /\ now' = now
      /\ here' \in 0..NBlocks /\ pc' \in {"block", "adaln"}
      /\ ready' \in [adaln : BOOLEAN, quantized : BOOLEAN] /\ ~ready'.quantized
      /\ ready'.adaln => fused /\ here' = here
      /\ \/ pc' = "adaln" /\ here' = here /\ here \in options.active
         \/ pc' = "block" /\ here' = here + 1
  <2> HIDE DEF fused
  <2> QED BY <1>0, <1>1, <1>2, ProceedFacts
<1>4. grid_reduced
  BY <1>0, <1>1 DEF ForwardInv, PositionInv
<1>5. /\ grown \in Histories /\ ~Pooled(grown) /\ ~grid_reduced'
      /\ front' \in [Buffers -> Contents] /\ tail' \in [Buffers -> Contents]
      /\ held' \in [hidden : Rotated, attention_output : Rotated, mod_attention : Rotated]
      /\ held'.hidden # held'.attention_output /\ held'.hidden # held'.mod_attention
      /\ held'.attention_output # held'.mod_attention
      /\ front'[held'.hidden] = Hidden(grown) /\ Hidden(grown).history = grown
      /\ fused => front'[held'.mod_attention] = Content("norm1", here, grown)
      /\ front'["core_input"] = front["core_input"]
      /\ front'["core_residual"] = front["core_residual"]
  <2> HIDE DEF fused
  <2> QED BY <1>1, <1>2, <1>4, LeavesFacts
<1>6. TypeOK'
  <2>1. pc' \in States
    BY <1>3 DEF States, InBlock
  <2>2. /\ grid_reduced' \in BOOLEAN
        /\ passes' = passes /\ residual_ready' = residual_ready
    BY <1>1 DEF Leaves
  <2> QED BY <1>0, <1>3, <1>5, <2>1, <2>2 DEF TypeOK
<1>7. token_reduction' /\ token_reduction_end' = token_reduction_end
  BY <1>1, <1>3 DEF token_reduction, token_reduction_end
<1>8. PositionInv'
  <2>1. pc' \in InBlock => here' \in options'.active /\ ~(here' < token_reduction_end')
    BY <1>0, <1>1, <1>3, <1>7 DEF InBlock
  <2>2. pc' = "block" => ~(here' <= token_reduction_end')
    BY <1>0, <1>1, <1>3, <1>7
  <2> QED BY <1>5, <2>1, <2>2 DEF PositionInv
<1>9. HiddenInv'
  <2>1. front'[held'.hidden] = Hidden(grown) /\ front'[held'.hidden].history = grown
    BY <1>5
  <2>2. pc' = "block" => ~(here' <= options'.begin)
    BY <1>0, <1>1, <1>3
  <2>3. (pc' \in InBlock => ~(here' < options'.begin)) /\ pc' # "reuse"
    BY <1>0, <1>1, <1>3 DEF InBlock
  <2> HIDE DEF grown
  <2> QED BY <1>5, <1>7, <2>1, <2>2, <2>3 DEF HiddenInv
<1>10. KeptInv'
  BY <1>5 DEF KeptInv
<1>11. WorkInv'
  <2>1. front'[held'.hidden].history = grown
    BY <1>5
  <2>2. ready'.adaln =>
          carried_input' = Content("norm1", here', front'[held'.hidden].history)
    BY <1>3, <1>5, <2>1 DEF carried_input
  <2>3. pc' \notin {"qkv", "attention", "output", "mlp_input", "mlp", "gate"}
    BY <1>3
  <2> HIDE DEF grown
  <2> QED BY <1>3, <2>2, <2>3 DEF WorkInv
<1>12. ResidualInv'
  BY <1>1, <1>3, <1>5 DEF ForwardInv, ResidualInv, InBlock
<1>13. HistoryGrows(<< "expand", here >>)
  BY <1>5 DEF HistoryGrows, HistoryIs, ResidualStays
<1> QED BY <1>6, <1>8, <1>9, <1>10, <1>11, <1>12, <1>13 DEF ForwardInv

\* Once the last block is over the grid is the full one again.
LEMMA EndOfBlocksKeeps ==
  ASSUME ForwardInv, EndOfBlocks
  PROVE  ForwardInv' /\ (IF token_reduction /\ token_reduction_end = NBlocks
                         THEN HistoryGrows(<< "expand", here >>) ELSE HistoryStays)
<1>0. /\ TypeOK /\ WorkInv /\ here \in Nat /\ NBlocks \in Nat
      /\ options.begin \in Nat /\ token_reduction_end \in Nat
      /\ token_reduction => options.begin < token_reduction_end
      /\ token_reduction => token_reduction_end <= NBlocks
  BY BoundaryFacts DEF ForwardInv
<1>1. /\ pc = "block" /\ here = NBlocks
      /\ pc' = IF options.interval > 1 THEN "residual" ELSE "head"
      /\ UNCHANGED << options, now, here, ready, passes, residual_ready >>
  BY DEF EndOfBlocks
<1>2. pc' \in {"residual", "head"} /\ (pc' = "residual" => options.interval > 1)
  BY <1>1
<1>3. /\ ~grid_reduced' /\ grid_reduced' \in BOOLEAN
      /\ front' \in [Buffers -> Contents] /\ tail' \in [Buffers -> Contents]
      /\ held' \in [hidden : Rotated, attention_output : Rotated, mod_attention : Rotated]
      /\ held'.hidden # held'.attention_output /\ held'.hidden # held'.mod_attention
      /\ held'.attention_output # held'.mod_attention
      /\ front'[held'.hidden] = Hidden(front'[held'.hidden].history)
      /\ ~Pooled(front'[held'.hidden].history)
      /\ front'["core_input"] = front["core_input"]
      /\ front'["core_residual"] = front["core_residual"]
  <2>1. CASE AtBoundary(NBlocks) /\ token_reduction_end = NBlocks
    <3> DEFINE grown == Append(front[held.hidden].history, << "expand", here >>)
    <3>1. grid_reduced
      BY <1>0, <1>1, <2>1 DEF ForwardInv, PositionInv, AtBoundary
    <3>2. Leaves(FALSE)
      BY <2>1 DEF EndOfBlocks
    <3>3. grid_reduced' \in BOOLEAN
      BY <3>2 DEF Leaves
    <3>4. /\ grown \in Histories /\ ~Pooled(grown) /\ ~grid_reduced'
          /\ front' \in [Buffers -> Contents] /\ tail' \in [Buffers -> Contents]
          /\ held' \in [hidden : Rotated, attention_output : Rotated, mod_attention : Rotated]
          /\ held'.hidden # held'.attention_output /\ held'.hidden # held'.mod_attention
          /\ held'.attention_output # held'.mod_attention
          /\ front'[held'.hidden] = Hidden(grown) /\ Hidden(grown).history = grown
          /\ front'["core_input"] = front["core_input"]
          /\ front'["core_residual"] = front["core_residual"]
      BY <1>1, <3>1, <3>2, LeavesFacts
    <3> HIDE DEF grown
    <3> QED BY <3>3, <3>4
  <2>2. CASE ~(AtBoundary(NBlocks) /\ token_reduction_end = NBlocks)
    <3>1. UNCHANGED << held, grid_reduced, front, tail >>
      BY <2>2 DEF EndOfBlocks
    <3>2. ~grid_reduced
      BY <1>0, <1>1, <2>2 DEF ForwardInv, PositionInv, AtBoundary, InBlock
    <3>3. /\ front[held.hidden] = Hidden(front[held.hidden].history)
          /\ ~Pooled(front[held.hidden].history)
      BY <1>1, <3>2 DEF ForwardInv, HiddenInv, States
    <3> QED BY <1>0, <3>1, <3>2, <3>3 DEF TypeOK
  <2> QED BY <2>1, <2>2
<1>4. TypeOK'
  BY <1>0, <1>1, <1>2, <1>3 DEF TypeOK, States
<1>5. PositionInv'
  BY <1>2, <1>3 DEF PositionInv, InBlock
<1>6. HiddenInv'
  BY <1>2, <1>3 DEF HiddenInv, InBlock
<1>7. KeptInv'
  BY <1>3 DEF KeptInv
<1>8. WorkInv'
  BY <1>0, <1>1, <1>2 DEF WorkInv
<1>9. ResidualInv'
  BY <1>1, <1>2, <1>3 DEF ForwardInv, ResidualInv, InBlock
<1>10. IF token_reduction /\ token_reduction_end = NBlocks
       THEN HistoryGrows(<< "expand", here >>) ELSE HistoryStays
  <2>1. CASE token_reduction /\ token_reduction_end = NBlocks
    <3>1. grid_reduced
      BY <1>0, <1>1, <2>1 DEF ForwardInv, PositionInv
    <3>2. Leaves(FALSE)
      BY <1>1, <2>1 DEF EndOfBlocks, AtBoundary
    <3> DEFINE grown == Append(front[held.hidden].history, << "expand", here >>)
    <3>3. /\ front'[held'.hidden] = Hidden(grown) /\ Hidden(grown).history = grown
          /\ front'["core_residual"] = front["core_residual"]
      BY <1>1, <3>1, <3>2, LeavesFacts
    <3>4. HistoryGrows(<< "expand", here >>)
      <4> HIDE DEF grown
      <4>1. front'[held'.hidden].history = grown
        BY <3>3
      <4> QED BY <3>3, <4>1 DEF HistoryGrows, HistoryIs, ResidualStays, grown
    <3> QED BY <2>1, <3>4
  <2>2. CASE ~(token_reduction /\ token_reduction_end = NBlocks)
    <3>1. UNCHANGED << held, front >>
      BY <2>2 DEF EndOfBlocks, AtBoundary
    <3> QED BY <2>2, <3>1 DEF HistoryStays, HistoryIs, ResidualStays
  <2> QED BY <2>1, <2>2
<1> QED BY <1>4, <1>5, <1>6, <1>7, <1>8, <1>9, <1>10 DEF ForwardInv
\* Behind the head everything but what the step has just written stays.
LEMMA CacheResidualKeeps ==
  ASSUME ForwardInv, CacheResidual
  PROVE  ForwardInv' /\ front'[held'.hidden] = front[held.hidden]
                     /\ front'["core_residual"].is = "residual"
                     /\ front'["core_residual"].block = now
<1>0. /\ TypeOK /\ WorkInv /\ BuffersApart /\ now \in Nat
  BY BufferFacts, BoundaryFacts DEF ForwardInv
<1> DEFINE history == front[held.hidden].history
           residual == Content("residual", now, history)
<1>1. /\ pc = "residual" /\ pc' = "head" /\ residual_ready' = TRUE
      /\ UNCHANGED << options, now, here, held, grid_reduced, ready, passes >>
  BY DEF CacheResidual
<1>2. ~grid_reduced
  BY <1>1, FullOutside DEF InBlock
<1>3. front[held.hidden] = Hidden(history) /\ ~Pooled(history) /\ history \in Histories
  BY <1>0, <1>1, <1>2, ContentFacts DEF ForwardInv, HiddenInv, States, TypeOK, BuffersApart
<1>4. front["core_input"] = Hidden(<< << "pack", now >> >>)
  BY <1>1 DEF ForwardInv, ResidualInv
<1>5. residual \in Contents /\ residual.is = "residual"
  BY <1>0, <1>3, ContentFacts DEF Kinds, Content
<1>6. Write(One("core_residual", residual))
  <2>1. front[held.hidden].is = "hidden"
    BY <1>3 DEF Hidden, Content
  <2> QED BY <1>3, <1>4, <2>1 DEF CacheResidual
<1> HIDE DEF residual
<1>7. /\ front' \in [Buffers -> Contents] /\ tail' \in [Buffers -> Contents]
      /\ front'["core_residual"] = residual
      /\ front'[held.hidden] = front[held.hidden]
  <2>1. /\ "core_residual" \in Buffers /\ held.hidden \in Buffers
        /\ held.hidden # "core_residual"
    BY <1>0 DEF BuffersApart
  <2>2. /\ front' \in [Buffers -> Contents] /\ tail' \in [Buffers -> Contents]
        /\ \A n \in Buffers : front'[n] = IF n = "core_residual" THEN residual ELSE front[n]
    BY <1>0, <1>5, <1>6, <2>1, WriteOne
  <2> QED BY <2>1, <2>2
<1>8. TypeOK'
  BY <1>0, <1>1, <1>7 DEF TypeOK, States
<1>9. PositionInv'
  BY <1>1, <1>2 DEF PositionInv, InBlock
<1>10. HiddenInv'
  BY <1>1, <1>2, <1>3, <1>7 DEF HiddenInv, InBlock
<1>11. KeptInv'
  BY <1>1, <1>2 DEF KeptInv
<1>12. WorkInv'
  BY <1>0, <1>1 DEF WorkInv
<1>13. ResidualInv'
  BY <1>1, <1>5, <1>7 DEF ResidualInv, InBlock
<1>14. /\ front'[held'.hidden] = front[held.hidden]
       /\ front'["core_residual"].is = "residual" /\ front'["core_residual"].block = now
  BY <1>1, <1>7 DEF residual, Content
<1> QED BY <1>8, <1>9, <1>10, <1>11, <1>12, <1>13, <1>14 DEF ForwardInv

LEMMA ReuseResidualKeeps ==
  ASSUME ForwardInv, ReuseResidual
  PROVE  ForwardInv' /\ HistoryGrows(<< "reuse", front["core_residual"].block >>)
<1>0. TypeOK /\ WorkInv /\ BuffersApart
  BY BufferFacts DEF ForwardInv
<1> DEFINE history == front[held.hidden].history
           grown == Append(history, << "reuse", front["core_residual"].block >>)
<1>1. /\ pc = "reuse" /\ pc' = "head"
      /\ UNCHANGED << options, now, here, held, grid_reduced, ready, passes, residual_ready >>
  BY DEF ReuseResidual
<1>2. ~grid_reduced
  BY <1>1, FullOutside DEF InBlock
<1>3. Fresh(history)
  BY <1>1 DEF ForwardInv, HiddenInv
<1>4. history \in Histories /\ front["core_residual"].block \in Nat
  BY <1>0, ContentFacts DEF TypeOK, BuffersApart
<1>5. front["core_residual"].is = "residual"
  BY <1>1 DEF ForwardInv, ResidualInv
<1>6. grown \in Histories /\ ~Pooled(grown)
  <2>1. "reuse" \in Marks /\ "reuse" \notin {"pool", "expand"}
    BY DEF Marks
  <2> QED BY <1>3, <1>4, <2>1, MarkFacts
<1>7. Write(One(held.hidden, Hidden(grown)))
  BY <1>5 DEF ReuseResidual
<1> HIDE DEF grown
<1>8. Hidden(grown) \in Contents /\ Hidden(grown).history = grown
  BY <1>6, ContentFacts DEF Kinds, Hidden, Content
<1>9. /\ front' \in [Buffers -> Contents] /\ tail' \in [Buffers -> Contents]
      /\ front'["core_residual"] = front["core_residual"]
      /\ front'[held.hidden] = Hidden(grown)
  <2>1. /\ "core_residual" \in Buffers /\ held.hidden \in Buffers
        /\ held.hidden # "core_residual"
    BY <1>0 DEF BuffersApart
  <2>2. /\ front' \in [Buffers -> Contents] /\ tail' \in [Buffers -> Contents]
        /\ \A n \in Buffers : front'[n] = IF n = held.hidden THEN Hidden(grown) ELSE front[n]
    BY <1>0, <1>7, <1>8, <2>1, WriteOne
  <2> QED BY <2>1, <2>2
<1>10. TypeOK'
  BY <1>0, <1>1, <1>9 DEF TypeOK, States
<1>11. PositionInv'
  BY <1>1, <1>2 DEF PositionInv, InBlock
<1>12. HiddenInv'
  BY <1>1, <1>2, <1>6, <1>8, <1>9 DEF HiddenInv, InBlock
<1>13. KeptInv'
  BY <1>1, <1>2 DEF KeptInv
<1>14. WorkInv'
  BY <1>0, <1>1 DEF WorkInv
<1>15. ResidualInv'
  BY <1>1, <1>9 DEF ForwardInv, ResidualInv, InBlock
<1>16. HistoryGrows(<< "reuse", front["core_residual"].block >>)
  BY <1>1, <1>8, <1>9 DEF HistoryGrows, HistoryIs, ResidualStays, grown
<1> QED BY <1>10, <1>11, <1>12, <1>13, <1>14, <1>15, <1>16 DEF ForwardInv

LEMMA FinalHeadKeeps ==
  ASSUME ForwardInv, FinalHead
  PROVE  ForwardInv'
<1>1. /\ pc = "head" /\ pc' \in {"pack", "done"} /\ now' \in {now, now + 1} /\ passes' = passes + 1
      /\ UNCHANGED << options, here, held, grid_reduced, ready, front, tail, residual_ready >>
  BY DEF FinalHead
<1>2. ~grid_reduced
  BY <1>1, FullOutside DEF InBlock
<1>3. TypeOK'
  BY <1>1 DEF ForwardInv, TypeOK
<1>4. PositionInv'
  BY <1>1, <1>2 DEF PositionInv, InBlock
<1>5. HiddenInv'
  BY <1>1 DEF HiddenInv, States, InBlock
<1>6. KeptInv'
  BY <1>1, <1>2 DEF KeptInv
<1>7. WorkInv'
  BY <1>1 DEF ForwardInv, WorkInv
<1>8. ResidualInv'
  BY <1>1 DEF ForwardInv, ResidualInv, InBlock
<1> QED BY <1>3, <1>4, <1>5, <1>6, <1>7, <1>8 DEF ForwardInv
LEMMA StutterKeeps ==
  ASSUME ForwardInv, UNCHANGED vars
  PROVE  ForwardInv'
<1> USE DEF vars, position
<1>1. TypeOK' /\ ResidualInv'
  BY DEF ForwardInv, TypeOK, ResidualInv
<1>2. PositionInv'
  BY DEF ForwardInv, PositionInv, token_reduction, token_reduction_end
<1>3. HiddenInv'
  BY DEF ForwardInv, HiddenInv, token_reduction
<1>4. KeptInv'
  BY DEF ForwardInv, KeptInv, token_original
<1>5. WorkInv'
  BY DEF ForwardInv, WorkInv, carried_input, attention_heads, mlp_input, mlp_output,
         fused_int8_mlp_input, mod_mlp
<1> QED BY <1>1, <1>2, <1>3, <1>4, <1>5 DEF ForwardInv

LEMMA InitForward ==
  ASSUME Init
  PROVE  ForwardInv
<1>1. /\ pc = "pack" /\ here = 0 /\ now = 0 /\ passes = 0 /\ options \in Options
      /\ grid_reduced = FALSE /\ residual_ready = FALSE
      /\ ready = [adaln |-> FALSE, quantized |-> FALSE]
      /\ held = [hidden |-> "a", attention_output |-> "b", mod_attention |-> "c"]
      /\ front = [b \in Buffers |-> Junk] /\ tail = [b \in Buffers |-> Junk]
  BY DEF Init
<1>2. TypeOK
  <2>1. 0 \in 0..NBlocks
    BY OptionsAssumption
  <2>2. Junk \in Contents
    BY ContentFacts
  <2> QED BY <1>1, <2>1, <2>2 DEF TypeOK, Rotated
<1>3. PositionInv /\ HiddenInv /\ KeptInv
  BY <1>1 DEF PositionInv, HiddenInv, KeptInv, States, InBlock
<1>4. WorkInv /\ ResidualInv
  BY <1>1 DEF WorkInv, ResidualInv, InBlock
<1> QED BY <1>2, <1>3, <1>4 DEF ForwardInv

\* In every reachable state each buffer that will be read holds what its reader needs,
\* whatever buffers are shared, kernels fused and blocks passed over (encode_forward).
THEOREM ForwardInvariance == Spec => []ForwardInv
<1>1. Init => ForwardInv
  BY InitForward
<1>2. ForwardInv /\ [Next]_vars => ForwardInv'
  <2> SUFFICES ASSUME ForwardInv, [Next]_vars PROVE ForwardInv'
    OBVIOUS
  <2>1. CASE Pack
    BY <2>1, PackKeeps
  <2>2. CASE NextBlock
    BY <2>2, NextBlockKeeps
  <2>3. CASE EnterReduction
    BY <2>3, EnterReductionKeeps
  <2>4. CASE LeaveReduction
    BY <2>4, LeaveReductionKeeps
  <2>5. CASE EndOfBlocks
    BY <2>5, EndOfBlocksKeeps
  <2>6. CASE CacheResidual
    BY <2>6, CacheResidualKeeps
  <2>7. CASE ReuseResidual
    BY <2>7, ReuseResidualKeeps
  <2>8. CASE FinalHead
    BY <2>8, FinalHeadKeeps
  <2>9. CASE AttentionAdaln
    BY <2>9, AttentionAdalnKeeps
  <2>10. CASE QkvProjection
    BY <2>10, QkvProjectionKeeps
  <2>11. CASE RunAttention
    BY <2>11, RunAttentionKeeps
  <2>12. CASE AttentionOutput
    BY <2>12, AttentionOutputKeeps
  <2>13. CASE MlpInput
    BY <2>13, MlpInputKeeps
  <2>14. CASE RunMlp
    BY <2>14, RunMlpKeeps
  <2>15. CASE MlpGate
    BY <2>15, MlpGateKeeps
  <2>16. CASE UNCHANGED vars
    BY <2>16, StutterKeeps
  <2> QED
    BY <2>1, <2>2, <2>3, <2>4, <2>5, <2>6, <2>7, <2>8, <2>9, <2>10, <2>11, <2>12, <2>13,
       <2>14, <2>15, <2>16 DEF Next
<1> QED BY <1>1, <1>2, PTL DEF Spec

\* The rows that were pooled and their baseline survive behind the rows in use, and a
\* block's attention and MLP read what was made for that block from the hidden states as
\* they are (enter_token_reduction to leave_token_reduction, run_block).
THEOREM BuffersStayIntact == Spec => []BuffersHold
<1>1. ForwardInv => SnapshotSurvives
  <2> SUFFICES ASSUME ForwardInv, grid_reduced PROVE SnapshotSurvives
    BY DEF SnapshotSurvives
  <2> DEFINE h == front[held.hidden].history
             kept == tail[held.hidden].history
  <2>1. /\ tail[token_original] = Content("original", 0, kept)
        /\ tail[held.hidden] = Content("baseline", 0, kept)
        /\ PooledFrom(kept, options.begin, h)
    BY DEF ForwardInv, KeptInv
  <2>2. /\ tail[token_original].is = "original" /\ tail[held.hidden].is = "baseline"
        /\ tail[token_original].history = kept
    BY <2>1 DEF Content
  <2>3. /\ h \in Seq(Marks \X Nat) /\ kept \in Seq(Marks \X Nat)
    BY BufferFacts, ContentFacts DEF ForwardInv, TypeOK, BuffersApart, Histories
  <2>4. Starts(kept, h)
    <3>1. Len(kept) \in Nat /\ Len(h) \in Nat
      BY <2>3
    <3> QED BY <2>1, <3>1 DEF PooledFrom, Starts
  <2>5. IsPrefix(kept, h)
    BY <2>3, <2>4, StartsIsPrefix DEF IsPrefix, Starts, Histories
  <2> QED BY <2>2, <2>5 DEF SnapshotSurvives
<1>2. ForwardInv => InputsCurrent
  BY DEF ForwardInv, WorkInv, InputsCurrent, carried_input, qkv_input
<1>3. ForwardInv => BuffersHold
  BY <1>1, <1>2 DEF BuffersHold
<1> QED BY <1>3, ForwardInvariance, PTL

\* The head reads the hidden states, in full rows: no step ends with tokens pooled or a
\* buffer half made (encode_forward, final_head).
THEOREM HeadReadsFullRows == Spec => []HeadReadsRows
<1>1. ForwardInv => HeadReadsRows
  <2> SUFFICES ASSUME ForwardInv, pc = "head" PROVE HeadReadsRows
    BY DEF HeadReadsRows
  <2>1. ~grid_reduced
    BY FullOutside DEF InBlock
  <2>2. /\ front[held.hidden] = Hidden(front[held.hidden].history)
        /\ ~Pooled(front[held.hidden].history)
    BY <2>1 DEF ForwardInv, HiddenInv, States
  <2>3. Hidden(front[held.hidden].history).is = "hidden"
    BY DEF Hidden, Content
  <2> QED BY <2>2, <2>3 DEF HeadReadsRows
<1> QED BY <1>1, ForwardInvariance, PTL

(***************************************************************************)
(* The layers that a step has gone through.                                *)
(***************************************************************************)
\* A set of natural numbers has a least element: what there is of induction.
LEMMA LeastNatural ==
  ASSUME NEW T \in SUBSET Nat, T # {}
  PROVE  \E m \in T : \A n \in T : m <= n
<1> DEFINE R == OpToRel(<, Nat)
<1>1. IsWellFoundedOn(R, Nat)
  BY NatLessThanWellFounded
<1>2. \A x, y \in Nat : x < y => << x, y >> \in R
  BY DEF OpToRel
<1> HIDE DEF R
<1>3. PICK m \in T : \A n \in T : ~(<< n, m >> \in R)
  BY <1>1, WFMin
<1>4. \A n \in T : ~(n < m)
  BY <1>2, <1>3
<1> QED BY <1>4

\* The recursive function of Through satisfies its equation.
LEMMA ThroughIs ==
  ASSUME NEW o, NEW s
  PROVE  \A n \in 0..NBlocks :
           Layers!Through(o, s)[n] =
             IF n = 0 THEN << << "pack", s >> >>
             ELSE Layers!Ran(o, n - 1, Layers!Crossed(o, s, n - 1, Layers!Through(o, s)[n - 1]))
<1> DEFINE Next1(n, history) == Layers!Ran(o, n - 1, Layers!Crossed(o, s, n - 1, history))
           Rows(f, m) == f = [n \in 0..m |-> IF n = 0 THEN << << "pack", s >> >> ELSE Next1(n, f[n - 1])]
           T == {m \in 0..NBlocks : ~ \E f : Rows(f, m)}
<1> HIDE DEF Next1
<1>0. NBlocks \in Nat
  BY OptionsAssumption
<1>1. T = {}
  <2>1. SUFFICES ASSUME T # {} PROVE FALSE
    OBVIOUS
  <2>2. T \in SUBSET Nat
    BY <1>0
  <2>3. PICK m \in T : \A n \in T : m <= n
    <3> HIDE DEF T
    <3> QED BY <2>1, <2>2, LeastNatural
  <2>4. m # 0
    <3>1. Rows([n \in 0..0 |-> << << "pack", s >> >>], 0)
      OBVIOUS
    <3> QED BY <3>1
  <2>5. m \in 0..NBlocks /\ m - 1 \in 0..NBlocks
    BY <1>0, <2>4
  <2>6. m - 1 \notin T
    <3> HIDE DEF T
    <3> QED BY <2>3, <2>5
  <2>7. PICK f : Rows(f, m - 1)
    BY <2>5, <2>6
  <2> DEFINE g == [n \in 0..m |-> IF n = m THEN Next1(m, f[m - 1]) ELSE f[n]]
  <2>8. Rows(g, m)
    <3>1. \A n \in 0..m :
            g[n] = IF n = 0 THEN << << "pack", s >> >> ELSE Next1(n, g[n - 1])
      <4>1. m \in Nat /\ m >= 1 /\ m \in 0..m /\ m - 1 \in 0..m /\ m - 1 # m
        BY <1>0, <2>4, <2>5
      <4>2. g[m] = Next1(m, f[m - 1])
        BY <4>1
      <4>3. \A n \in 0..m : n # m => g[n] = f[n]
        OBVIOUS
      <4>4. \A n \in 0..(m - 1) : f[n] = IF n = 0 THEN << << "pack", s >> >> ELSE Next1(n, f[n - 1])
        BY <2>7
      <4> HIDE DEF g, Rows
      <4>5. g[m] = Next1(m, g[m - 1])
        BY <4>1, <4>2, <4>3
      <4>6. ASSUME NEW n \in 0..m, n # m
            PROVE  g[n] = IF n = 0 THEN << << "pack", s >> >> ELSE Next1(n, g[n - 1])
        <5>1. n \in 0..(m - 1) /\ (n # 0 => n - 1 \in 0..m /\ n - 1 # m)
          BY <4>1, <4>6
        <5>2. g[n] = f[n] /\ (n # 0 => g[n - 1] = f[n - 1])
          BY <4>3, <4>6, <5>1
        <5> QED BY <4>4, <5>1, <5>2
      <4> QED BY <2>4, <4>5, <4>6
    <3>2. g = [n \in 0..m |-> g[n]]
      OBVIOUS
    <3>3. [n \in 0..m |-> g[n]] = [n \in 0..m |-> IF n = 0 THEN << << "pack", s >> >> ELSE Next1(n, g[n - 1])]
      <4> HIDE DEF g
      <4> QED BY <3>1
    <3> HIDE DEF g
    <3> QED BY <3>2, <3>3
  <2>9. \E h : Rows(h, m)
    <3> HIDE DEF g, Rows
    <3> QED BY <2>8
  <2> QED BY <2>9
<1>2. \E f : Rows(f, NBlocks)
  <2>1. NBlocks \in 0..NBlocks
    BY <1>0
  <2> HIDE DEF Rows
  <2> QED BY <1>1, <2>1
<1>3. Layers!Through(o, s) = CHOOSE f : Rows(f, NBlocks)
  BY DEF Layers!Through, Next1
<1>4. Rows(Layers!Through(o, s), NBlocks)
  <2> HIDE DEF Rows
  <2> QED BY <1>2, <1>3
<1> QED BY <1>4 DEF Next1

\* A boundary and a block only lengthen a history.
LEMMA LayersGrow ==
  ASSUME NEW o, NEW s \in Nat, NEW n \in Nat, NEW h \in Histories
  PROVE  LET crossed == Layers!Crossed(o, s, n, h)
             half    == Append(crossed, << "attention", n >>)
             ran     == Layers!Ran(o, n, crossed)
         IN /\ crossed \in Histories /\ half \in Histories /\ ran \in Histories
            /\ Starts(h, crossed) /\ Starts(crossed, ran) /\ Starts(h, ran)
            /\ n \in o.active => ran = Append(half, << "mlp", n >>) /\ Starts(half, ran)
            /\ n \notin o.active => ran = crossed
<1> DEFINE crossed == Layers!Crossed(o, s, n, h)
           half == Append(crossed, << "attention", n >>)
           ran == Layers!Ran(o, n, crossed)
<1>1. {"pool", "expand", "attention", "mlp"} \subseteq Marks
  BY DEF Marks
<1>2. crossed \in Histories /\ Starts(h, crossed) /\ Starts(crossed, crossed)
  <2>1. crossed \in {h, Append(h, << "pool", n >>), Append(h, << "expand", n >>)}
    BY DEF Layers!Crossed
  <2>2. crossed \in Histories /\ Starts(h, crossed)
    <3> HIDE DEF crossed
    <3> QED BY <1>1, <2>1, StartsAppend
  <2> HIDE DEF crossed
  <2> QED BY <1>1, <2>2, StartsAppend
<1>3. /\ n \in o.active => ran = Append(half, << "mlp", n >>)
      /\ n \notin o.active => ran = crossed
  BY DEF Layers!Ran
<1> HIDE DEF crossed, ran
<1>4. half \in Histories /\ Starts(crossed, half)
  BY <1>1, <1>2, StartsAppend
<1> HIDE DEF half
<1>5. ran \in Histories /\ Starts(crossed, ran) /\ (n \in o.active => Starts(half, ran))
  <2>1. CASE n \in o.active
    <3>1. ran \in Histories /\ Starts(half, ran)
      BY <1>1, <1>3, <1>4, <2>1, StartsAppend
    <3> QED BY <1>2, <1>4, <3>1, StartsTransitive
  <2>2. CASE n \notin o.active
    BY <1>2, <1>3, <2>2
  <2> QED BY <2>1, <2>2
<1>6. Starts(h, ran)
  BY <1>2, <1>5, StartsTransitive
<1> QED BY <1>2, <1>3, <1>4, <1>5, <1>6 DEF half, crossed, ran

LEMMA LayerGrows ==
  ASSUME NEW o, NEW s \in Nat, NEW n \in Nat, NEW h \in Histories, NEW longer,
         longer = Layers!Ran(o, n, Layers!Crossed(o, s, n, h))
  PROVE  longer \in Histories /\ Starts(h, longer)
BY LayersGrow

\* The first n layers start the whole.
LEMMA ThroughFacts ==
  ASSUME NEW o, NEW s \in Nat
  PROVE  LET through == Layers!Through(o, s)
             whole   == Layers!Reference(o, s)
         IN /\ through[0] = << << "pack", s >> >>
            /\ \A n \in 0..NBlocks :
                 /\ through[n] \in Histories /\ Starts(through[n], whole)
                 /\ Len(through[n]) >= 1 /\ through[n][1] = << "pack", s >>
            /\ \A n \in 0..NBlocks : n < NBlocks =>
                 through[n + 1] = Layers!Ran(o, n, Layers!Crossed(o, s, n, through[n]))
            /\ whole = Layers!Crossed(o, s, NBlocks, through[NBlocks])
            /\ whole \in Histories /\ Len(whole) >= 1 /\ whole[1] = << "pack", s >>
<1> DEFINE through == Layers!Through(o, s)
           whole == Layers!Reference(o, s)
           packed == << << "pack", s >> >>
<1>0. NBlocks \in Nat
  BY OptionsAssumption
<1>1. /\ through[0] = packed
      /\ \A n \in 0..NBlocks : n < NBlocks =>
           through[n + 1] = Layers!Ran(o, n, Layers!Crossed(o, s, n, through[n]))
  <2>1. \A n \in 0..NBlocks : n < NBlocks => n + 1 \in 0..NBlocks /\ n + 1 # 0 /\ n + 1 - 1 = n
    BY <1>0
  <2>2. 0 \in 0..NBlocks
    BY <1>0
  <2> HIDE DEF through
  <2>3. \A n \in 0..NBlocks :
          through[n] = IF n = 0 THEN packed
                       ELSE Layers!Ran(o, n - 1, Layers!Crossed(o, s, n - 1, through[n - 1]))
    BY ThroughIs DEF through
  <2> HIDE DEF packed
  <2> QED BY <2>1, <2>2, <2>3
<1>2. whole = Layers!Crossed(o, s, NBlocks, through[NBlocks])
  BY DEF Layers!Reference
<1>3. packed \in Histories /\ Len(packed) = 1 /\ packed[1] = << "pack", s >>
  BY PackFacts
<1> HIDE DEF through, whole, packed
<1>4. \A n \in 0..NBlocks : through[n] \in Histories /\ Starts(packed, through[n])
  <2> DEFINE Good(n) == through[n] \in Histories /\ Starts(packed, through[n])
             T == {n \in 0..NBlocks : ~Good(n)}
  <2>1. SUFFICES ASSUME T # {} PROVE FALSE
    OBVIOUS
  <2>2. PICK m \in T : \A n \in T : m <= n
    <3>1. T \in SUBSET Nat
      BY <1>0
    <3> HIDE DEF T
    <3> QED BY <2>1, <3>1, LeastNatural
  <2>3. m # 0
    <3>1. Good(0)
      BY <1>1, <1>3, StartsAppend DEF Starts
    <3> HIDE DEF Good
    <3> QED BY <3>1
  <2>4. /\ m - 1 \in 0..NBlocks /\ m - 1 < NBlocks /\ m - 1 + 1 = m /\ m - 1 \in Nat
        /\ m - 1 \notin T
    <3>1. m \in 0..NBlocks
      OBVIOUS
    <3> HIDE DEF T
    <3> QED BY <1>0, <2>2, <2>3, <3>1
  <2>5. Good(m - 1)
    BY <2>4
  <2>6. through[m] = Layers!Ran(o, m - 1, Layers!Crossed(o, s, m - 1, through[m - 1]))
    BY <1>1, <2>4
  <2>7. through[m] \in Histories /\ Starts(through[m - 1], through[m])
    <3>1. m - 1 \in Nat /\ through[m - 1] \in Histories
      BY <2>4, <2>5
    <3> HIDE DEF T, Good
    <3> QED BY <2>6, <3>1, LayerGrows
  <2>8. Starts(packed, through[m])
    <3>1. through[m - 1] \in Histories /\ Starts(packed, through[m - 1])
      BY <2>5
    <3> HIDE DEF Good, T
    <3> QED BY <1>3, <2>7, <3>1, StartsTransitive
  <2>9. Good(m)
    BY <2>7, <2>8
  <2> QED BY <2>9
<1>5. /\ whole \in Histories /\ Starts(through[NBlocks], whole)
  <2>1. NBlocks \in 0..NBlocks
    BY <1>0
  <2> QED BY <1>0, <1>2, <1>4, <2>1, LayersGrow
<1>6. \A n \in 0..NBlocks : Starts(through[n], whole)
  <2> DEFINE T == {n \in Nat : n <= NBlocks /\ ~Starts(through[NBlocks - n], whole)}
  <2>1. T = {}
    <3>1. SUFFICES ASSUME T # {} PROVE FALSE
      OBVIOUS
    <3>2. PICK m \in T : \A n \in T : m <= n
      <4>1. T \in SUBSET Nat
        OBVIOUS
      <4> HIDE DEF T
      <4> QED BY <3>1, <4>1, LeastNatural
    <3>3. m \in Nat /\ m <= NBlocks /\ ~Starts(through[NBlocks - m], whole)
      OBVIOUS
    <3>4. m # 0
      <4>1. NBlocks - 0 = NBlocks
        BY <1>0
      <4> QED BY <1>5, <3>3, <4>1
    <3>5. m - 1 \in Nat /\ m - 1 <= NBlocks /\ m - 1 \notin T
      <4> HIDE DEF T
      <4> QED BY <1>0, <3>2, <3>3, <3>4
    <3> DEFINE k == NBlocks - m
    <3>6. /\ k \in 0..NBlocks /\ k < NBlocks /\ k + 1 \in 0..NBlocks /\ k \in Nat
          /\ NBlocks - (m - 1) = k + 1
      BY <1>0, <3>3, <3>4
    <3>7. Starts(through[k + 1], whole)
      BY <3>5, <3>6
    <3> HIDE DEF k
    <3>8. Starts(through[k], through[k + 1])
      <4>1. /\ through[k] \in Histories /\ k \in Nat
            /\ through[k + 1] = Layers!Ran(o, k, Layers!Crossed(o, s, k, through[k]))
        BY <1>1, <1>4, <3>6
      <4> HIDE DEF T
      <4> QED BY <4>1, LayerGrows
    <3>9. Starts(through[k], whole)
      <4>1. through[k] \in Histories /\ through[k + 1] \in Histories /\ whole \in Histories
        BY <1>4, <1>5, <3>6
      <4> HIDE DEF T
      <4> QED BY <3>7, <3>8, <4>1, StartsTransitive
    <3> QED BY <3>3, <3>9 DEF k
  <2>2. ASSUME NEW n \in 0..NBlocks PROVE Starts(through[n], whole)
    <3>1. NBlocks - n \in Nat /\ NBlocks - n <= NBlocks /\ NBlocks - (NBlocks - n) = n
      BY <1>0
    <3>2. NBlocks - n \notin T
      BY <2>1
    <3> QED BY <3>1, <3>2
  <2> QED BY <2>2
<1>7. \A h \in Histories : Starts(packed, h) => Len(h) >= 1 /\ h[1] = << "pack", s >>
  BY <1>3 DEF Starts
<1>8. Starts(packed, whole)
  <2>1. 0 \in 0..NBlocks
    BY <1>0
  <2> QED BY <1>1, <1>6, <2>1
<1> QED BY <1>1, <1>2, <1>4, <1>5, <1>6, <1>7, <1>8 DEF packed, through, whole

(***************************************************************************)
(* A step of the forward pass is one of the layers, or none.               *)
(***************************************************************************)
\* The history of the hidden states before an operation, and the whole of the step.
Past == front[held.hidden].history
Whole == Layers!Reference(options, now)
CrossedHere == Layers!Crossed(options, now, here, Layers!Through(options, now)[here])

\* What an operation leaves alone but the last of a step.
SameStep == UNCHANGED << options, now, passes, residual_ready, outcome >>

\* Where the loop is, the history of the hidden states starts the whole.
LEMMA PastFacts ==
  ASSUME ForwardInv
  PROVE  LET through == Layers!Through(options, now)
             half    == Append(CrossedHere, << "attention", here >>)
         IN /\ NBlocks \in Nat /\ here \in Nat /\ now \in Nat /\ options.interval \in Nat \ {0}
            /\ Past \in Histories
            /\ through[0] = << << "pack", now >> >>
            /\ Whole \in Histories /\ Len(Whole) >= 1 /\ Whole[1] = << "pack", now >>
            /\ Whole = Layers!Crossed(options, now, NBlocks, through[NBlocks])
            /\ through[here] \in Histories
            /\ Len(through[here]) >= 1 /\ through[here][1] = << "pack", now >>
            /\ here < NBlocks =>
                 /\ CrossedHere \in Histories /\ half \in Histories
                 /\ Starts(CrossedHere, Whole)
                 /\ Len(CrossedHere) >= 1 /\ CrossedHere[1] = << "pack", now >>
                 /\ Len(half) >= 1 /\ half[1] = << "pack", now >>
                 /\ here \in options.active =>
                      /\ through[here + 1] = Append(half, << "mlp", here >>)
                      /\ Starts(half, Whole) /\ Starts(through[here + 1], Whole)
                 /\ here \notin options.active => through[here + 1] = CrossedHere
<1> DEFINE through == Layers!Through(options, now)
           half == Append(CrossedHere, << "attention", here >>)
           packed == << "pack", now >>
<1>1. /\ NBlocks \in Nat /\ here \in Nat /\ now \in Nat /\ options.interval \in Nat \ {0}
      /\ here \in 0..NBlocks /\ Past \in Histories
  BY BoundaryFacts, BufferFacts, ContentFacts DEF ForwardInv, TypeOK, BuffersApart, Past
<1>2. /\ through[0] = << packed >>
      /\ \A n \in 0..NBlocks :
           /\ through[n] \in Histories /\ Starts(through[n], Whole)
           /\ Len(through[n]) >= 1 /\ through[n][1] = packed
      /\ \A n \in 0..NBlocks : n < NBlocks =>
           through[n + 1] = Layers!Ran(options, n, Layers!Crossed(options, now, n, through[n]))
      /\ Whole = Layers!Crossed(options, now, NBlocks, through[NBlocks])
      /\ Whole \in Histories /\ Len(Whole) >= 1 /\ Whole[1] = packed
  BY <1>1, ThroughFacts DEF Whole
<1>3. ASSUME here < NBlocks
      PROVE  /\ CrossedHere \in Histories /\ half \in Histories
             /\ Starts(CrossedHere, Whole)
             /\ Len(CrossedHere) >= 1 /\ CrossedHere[1] = packed
             /\ Len(half) >= 1 /\ half[1] = packed
             /\ here \in options.active =>
                  /\ through[here + 1] = Append(half, << "mlp", here >>)
                  /\ Starts(half, Whole) /\ Starts(through[here + 1], Whole)
             /\ here \notin options.active => through[here + 1] = CrossedHere
  <2> DEFINE ran == Layers!Ran(options, here, CrossedHere)
  <2>1. /\ CrossedHere \in Histories /\ half \in Histories /\ ran \in Histories
        /\ Starts(through[here], CrossedHere) /\ Starts(CrossedHere, ran)
        /\ here \in options.active => ran = Append(half, << "mlp", here >>) /\ Starts(half, ran)
        /\ here \notin options.active => ran = CrossedHere
    <3>1. here \in Nat /\ now \in Nat /\ through[here] \in Histories
      BY <1>1, <1>2
    <3> HIDE DEF through
    <3>2. CrossedHere = Layers!Crossed(options, now, here, through[here])
      BY DEF CrossedHere, through
    <3> QED BY <3>1, <3>2, LayersGrow
  <2>2. through[here + 1] = ran /\ here + 1 \in 0..NBlocks
    BY <1>1, <1>2, <1>3 DEF CrossedHere
  <2> HIDE DEF through, ran, half
  <2>3. Starts(ran, Whole)
    BY <1>2, <2>2
  <2>4. Starts(CrossedHere, Whole)
    BY <1>2, <2>1, <2>3, StartsTransitive
  <2>5. here \in options.active => Starts(half, Whole)
    BY <1>2, <2>1, <2>3, StartsTransitive
  <2>6. Len(CrossedHere) >= 1 /\ CrossedHere[1] = packed
    <3>1. /\ through[here] \in Histories /\ CrossedHere \in Histories
          /\ Len(through[here]) >= 1 /\ through[here][1] = packed /\ Starts(through[here], CrossedHere)
      BY <1>1, <1>2, <2>1
    <3> QED BY <3>1, StartsFirst
  <2>7. Starts(CrossedHere, half)
    <3>1. "attention" \in Marks
      BY DEF Marks
    <3> QED BY <1>1, <2>1, <3>1, StartsAppend DEF half
  <2>8. Len(half) >= 1 /\ half[1] = packed
    BY <2>1, <2>6, <2>7, StartsFirst
  <2> QED BY <2>1, <2>2, <2>3, <2>4, <2>5, <2>6, <2>8
<1> HIDE DEF through, half, packed
<1> QED BY <1>1, <1>2, <1>3 DEF through, half, packed

\* A step that adds its mark to the history applies one of the layers.
LEMMA Applies ==
  ASSUME ForwardInv, NEW m \in {"attention", "mlp", "pool", "expand"}, here \in 0..NBlocks,
         SameStep, HistoryGrows(<< m, here >>),
         Len(Past) >= 1, Past[1] = << "pack", now >>,
         Starts(Append(Past, << m, here >>), Whole)
  PROVE  Layers!Apply
<1> DEFINE longer == Append(Past, << m, here >>)
<1>1. Past \in Histories /\ Whole \in Histories /\ here \in Nat /\ m \in Marks
  BY PastFacts DEF Marks
<1>2. longer \in Histories
  BY <1>1, StartsAppend
<1>3. front'[held'.hidden].history = longer /\ ResidualStays
  BY DEF HistoryGrows, HistoryIs, Past
<1> HIDE DEF longer
<1>4. Len(longer) <= Len(Whole) /\ SubSeq(longer, 1, Len(longer)) = SubSeq(Whole, 1, Len(longer))
  <2>1. Starts(longer, Whole)
    BY DEF longer
  <2> QED BY <1>1, <1>2, <2>1, StartsIsPrefix DEF Starts
<1>5. Layers!IsPrefix(longer, Whole)
  BY <1>4 DEF Layers!IsPrefix
<1>6. Past # << >>
  OBVIOUS
<1>7. \E next \in {"attention", "mlp", "pool", "expand"}, block \in 0..NBlocks :
        longer = Append(Past, << next, block >>)
  <2> WITNESS m \in {"attention", "mlp", "pool", "expand"}, here \in 0..NBlocks
  <2> QED BY DEF longer
<1>8. front[held.hidden].history # << >> /\ front[held.hidden].history[1] = << "pack", now >>
  BY <1>6 DEF Past
<1>9. \E next \in {"attention", "mlp", "pool", "expand"}, block \in 0..NBlocks :
        (front[held.hidden].history)' = Append(front[held.hidden].history, << next, block >>)
  BY <1>3, <1>7 DEF Past
<1>10. Layers!IsPrefix((front[held.hidden].history)', Layers!Reference(options, now))
  BY <1>3, <1>5 DEF Whole
<1>11. /\ options' = options /\ now' = now /\ outcome' = outcome
       /\ front'["core_residual"] = front["core_residual"]
  BY <1>3 DEF SameStep, ResidualStays
<1> QED BY <1>8, <1>9, <1>10, <1>11 DEF Layers!Apply

\* Nothing of what the layers see changes.
Unseen == UNCHANGED Layers!vars

LEMMA UnseenFacts ==
  ASSUME UNCHANGED << options, now, outcome >>, HistoryStays
  PROVE  Unseen
BY DEF Unseen, Layers!vars, HistoryStays, HistoryIs, ResidualStays

\* The residual keeps its age as long as the step lasts.
LEMMA AgeStays ==
  ASSUME ForwardInv, AgeInv, SameStep, ResidualStays, pc # "done",
         pc' \notin {"pack", "reuse", "done"},
         pc' = "head" => options.interval <= 1 \/ pc = "reuse"
  PROVE  AgeInv'
<1>1. options.interval \in Nat /\ (pc = "reuse" => residual_ready)
  BY PastFacts DEF ForwardInv, ResidualInv
<1> QED BY <1>1 DEF AgeInv, SameStep, ResidualStays

\* The operations of a block that leave the hidden states.
LEMMA WorkSteps ==
  ASSUME ForwardInv, LayersInv, SameStep, here' = here, HistoryStays,
         \/ /\ pc \in {"adaln", "qkv", "attention", "output"}
            /\ pc' \in {"qkv", "attention", "output", "mlp_input"}
         \/ pc = "mlp" /\ pc' = "gate"
  PROVE  LayersInv' /\ Unseen
<1>1. /\ UNCHANGED << options, now, outcome >> /\ ResidualStays
      /\ front'[held'.hidden].history = Past
  BY DEF SameStep, HistoryStays, HistoryIs, Past
<1>2. AgeInv'
  BY <1>1, AgeStays DEF LayersInv
<1>3. TraceInv'
  BY <1>1 DEF LayersInv, TraceInv, Past
<1> QED BY <1>1, <1>2, <1>3, UnseenFacts DEF LayersInv

LEMMA MlpInputLayers ==
  ASSUME ForwardInv, LayersInv, MlpInput
  PROVE  LayersInv' /\ Layers!Apply
<1>1. /\ SameStep /\ here' = here /\ pc = "mlp_input" /\ pc' = "mlp"
      /\ HistoryGrows(<< "attention", here >>)
  BY MlpInputKeeps DEF MlpInput, Step, SameStep
<1>2. here < NBlocks /\ here \in options.active
  BY <1>1, InBlockFacts DEF ForwardInv, PositionInv, InBlock
<1>3. Past = CrossedHere
  BY <1>1 DEF LayersInv, TraceInv, Past, CrossedHere
<1>4. AgeInv'
  BY <1>1, AgeStays DEF LayersInv, HistoryGrows, HistoryIs
<1>5. front'[held'.hidden].history = Append(CrossedHere, << "attention", here >>)
  BY <1>1, <1>3 DEF HistoryGrows, HistoryIs, Past
<1>6. TraceInv'
  BY <1>1, <1>5 DEF TraceInv, CrossedHere, SameStep
<1>7. Layers!Apply
  BY <1>1, <1>2, <1>3, PastFacts, Applies DEF ForwardInv, TypeOK
<1> QED BY <1>4, <1>6, <1>7 DEF LayersInv

LEMMA MlpGateLayers ==
  ASSUME ForwardInv, LayersInv, MlpGate
  PROVE  LayersInv' /\ Layers!Apply
<1>1. /\ SameStep /\ here' = here + 1 /\ pc = "gate" /\ pc' = "block"
      /\ HistoryGrows(<< "mlp", here >>)
  BY MlpGateKeeps DEF MlpGate, SameStep
<1>2. here < NBlocks /\ here \in options.active
  BY <1>1, InBlockFacts DEF ForwardInv, PositionInv, InBlock
<1>3. Past = Append(CrossedHere, << "attention", here >>)
  BY <1>1 DEF LayersInv, TraceInv, Past, CrossedHere
<1>4. AgeInv'
  BY <1>1, AgeStays DEF LayersInv, HistoryGrows, HistoryIs
<1>5. front'[held'.hidden].history = Layers!Through(options, now)[here + 1]
  BY <1>1, <1>2, <1>3, PastFacts DEF HistoryGrows, HistoryIs, Past
<1>6. TraceInv'
  BY <1>1, <1>5 DEF TraceInv, SameStep
<1>7. Layers!Apply
  BY <1>1, <1>2, <1>3, PastFacts, Applies DEF ForwardInv, TypeOK
<1> QED BY <1>4, <1>6, <1>7 DEF LayersInv

\* After a boundary, crossed or not, the block runs or is passed over.
LEMMA ProceedLayers ==
  ASSUME ForwardInv, LayersInv, pc = "block", here < NBlocks,
         UNCHANGED << passes, residual_ready, outcome >>,
         NEW adaln, NEW quantized, Proceed(adaln, quantized), ResidualStays,
         front'[held'.hidden].history = CrossedHere
  PROVE  LayersInv' /\ SameStep
<1>1. /\ SameStep
      /\ \/ pc' = "adaln" /\ here' = here
         \/ pc' = "block" /\ here' = here + 1 /\ here \notin options.active
  BY DEF Proceed, SameStep
<1>2. AgeInv'
  BY <1>1, AgeStays DEF LayersInv
<1>3. CASE pc' = "adaln" /\ here' = here
  <2>1. TraceInv'
    BY <1>1, <1>3 DEF TraceInv, SameStep, CrossedHere
  <2> QED BY <1>1, <1>2, <2>1 DEF LayersInv
<1>4. CASE pc' = "block" /\ here' = here + 1 /\ here \notin options.active
  <2>1. front'[held'.hidden].history = Layers!Through(options, now)[here + 1]
    BY <1>4, PastFacts
  <2>2. TraceInv'
    BY <1>1, <1>4, <2>1 DEF TraceInv, SameStep
  <2> QED BY <1>1, <1>2, <2>2 DEF LayersInv
<1> QED BY <1>1, <1>3, <1>4

\* What a boundary does to the history of the hidden states.
LEMMA CrossedFacts ==
  ASSUME ForwardInv, LayersInv, pc = "block"
  PROVE  /\ Past = Layers!Through(options, now)[here]
         /\ AtBoundary(options.begin) => CrossedHere = Append(Past, << "pool", here >>)
         /\ AtBoundary(token_reduction_end) => CrossedHere = Append(Past, << "expand", here >>)
         /\ ~AtBoundary(options.begin) /\ ~AtBoundary(token_reduction_end) => CrossedHere = Past
<1>1. Past = Layers!Through(options, now)[here]
  BY DEF LayersInv, TraceInv, Past
<1>2. token_reduction => options.begin < token_reduction_end /\ options.begin \in Nat
  BY BoundaryFacts DEF ForwardInv
<1> QED BY <1>1, <1>2 DEF CrossedHere, Layers!Crossed, Layers!Reduces, Layers!EndOf,
     AtBoundary, token_reduction, token_reduction_end

LEMMA NextBlockLayers ==
  ASSUME ForwardInv, LayersInv, NextBlock
  PROVE  LayersInv' /\ Unseen
<1>1. /\ pc = "block" /\ here < NBlocks /\ UNCHANGED << passes, residual_ready, outcome >>
      /\ ~AtBoundary(options.begin) /\ ~AtBoundary(token_reduction_end)
      /\ Proceed(ready.adaln, ready.quantized) /\ HistoryStays
  BY NextBlockKeeps DEF NextBlock
<1>2. ResidualStays /\ front'[held'.hidden].history = CrossedHere
  BY <1>1, CrossedFacts DEF HistoryStays, HistoryIs, Past
<1>3. LayersInv' /\ SameStep
  BY <1>1, <1>2, ProceedLayers
<1> QED BY <1>1, <1>3, UnseenFacts DEF SameStep

\* A boundary that is crossed before a block.
LEMMA CrossingLayers ==
  ASSUME ForwardInv, LayersInv, pc = "block", here < NBlocks,
         UNCHANGED << passes, residual_ready, outcome >>,
         NEW adaln, NEW quantized, Proceed(adaln, quantized),
         NEW m \in {"pool", "expand"}, HistoryGrows(<< m, here >>),
         CrossedHere = Append(Past, << m, here >>)
  PROVE  LayersInv' /\ Layers!Apply
<1>1. ResidualStays /\ front'[held'.hidden].history = CrossedHere
  BY DEF HistoryGrows, HistoryIs, Past
<1>2. LayersInv' /\ SameStep
  BY <1>1, ProceedLayers
<1>3. /\ Len(Past) >= 1 /\ Past[1] = << "pack", now >>
      /\ Starts(Append(Past, << m, here >>), Whole)
  BY PastFacts, CrossedFacts
<1> QED BY <1>2, <1>3, Applies DEF ForwardInv, TypeOK

LEMMA EnterReductionLayers ==
  ASSUME ForwardInv, LayersInv, EnterReduction
  PROVE  LayersInv' /\ Layers!Apply
<1>1. /\ pc = "block" /\ here < NBlocks /\ UNCHANGED << passes, residual_ready, outcome >>
      /\ AtBoundary(options.begin)
      /\ Proceed(options.poolFused /\ here \in options.active, FALSE)
      /\ HistoryGrows(<< "pool", here >>)
  BY EnterReductionKeeps DEF EnterReduction
<1> QED BY <1>1, CrossedFacts, CrossingLayers

LEMMA LeaveReductionLayers ==
  ASSUME ForwardInv, LayersInv, LeaveReduction
  PROVE  LayersInv' /\ Layers!Apply
<1>1. /\ pc = "block" /\ here < NBlocks /\ UNCHANGED << passes, residual_ready, outcome >>
      /\ AtBoundary(token_reduction_end)
      /\ Proceed(options.expandFused /\ here \in options.active, FALSE)
      /\ HistoryGrows(<< "expand", here >>)
  BY LeaveReductionKeeps DEF LeaveReduction
<1> QED BY <1>1, CrossedFacts, CrossingLayers

LEMMA EndOfBlocksLayers ==
  ASSUME ForwardInv, LayersInv, EndOfBlocks
  PROVE  LayersInv' /\ (Layers!Apply \/ Unseen)
<1>1. /\ SameStep /\ here' = here /\ pc = "block" /\ here = NBlocks
      /\ pc' = IF options.interval > 1 THEN "residual" ELSE "head"
      /\ IF token_reduction /\ token_reduction_end = NBlocks
         THEN HistoryGrows(<< "expand", here >>) ELSE HistoryStays
  BY EndOfBlocksKeeps DEF EndOfBlocks, SameStep
<1>2. options.interval \in Nat /\ NBlocks \in Nat
  BY PastFacts
<1>3. ResidualStays
  BY <1>1 DEF HistoryGrows, HistoryStays, HistoryIs
<1>4. AgeInv'
  BY <1>1, <1>2, <1>3, AgeStays DEF LayersInv
<1>5. Whole = CrossedHere
  BY <1>1, PastFacts DEF CrossedHere
<1>6. /\ token_reduction /\ token_reduction_end = NBlocks => Whole = Append(Past, << "expand", here >>)
      /\ ~(token_reduction /\ token_reduction_end = NBlocks) => Whole = Past
  <2>1. token_reduction => here # options.begin
    BY <1>1, BoundaryFacts DEF ForwardInv
  <2> QED BY <1>1, <1>5, <2>1, CrossedFacts DEF AtBoundary
<1>7. front'[held'.hidden].history = Whole
  BY <1>1, <1>6 DEF HistoryGrows, HistoryStays, HistoryIs, Past
<1>8. TraceInv'
  BY <1>1, <1>7 DEF TraceInv, SameStep, Whole
<1>9. Layers!Apply \/ Unseen
  <2>1. CASE token_reduction /\ token_reduction_end = NBlocks
    <3>1. Len(Past) >= 1 /\ Past[1] = << "pack", now >>
      BY <1>1, PastFacts, CrossedFacts
    <3>2. Starts(Append(Past, << "expand", here >>), Whole) /\ here \in 0..NBlocks
      <4>1. Whole \in Histories /\ here \in 0..NBlocks
        BY <1>1, <1>2, PastFacts
      <4>2. Starts(Whole, Whole)
        BY <4>1 DEF Starts, Histories
      <4>3. Whole = Append(Past, << "expand", here >>)
        BY <1>6, <2>1
      <4> QED BY <4>1, <4>2, <4>3
    <3>3. SameStep /\ HistoryGrows(<< "expand", here >>)
      BY <1>1, <2>1
    <3>4. "expand" \in {"attention", "mlp", "pool", "expand"}
      OBVIOUS
    <3>5. Layers!Apply
      BY <3>1, <3>2, <3>3, <3>4, Applies
    <3> QED BY <3>5
  <2>2. CASE ~(token_reduction /\ token_reduction_end = NBlocks)
    BY <1>1, <2>2, UnseenFacts DEF SameStep
  <2> QED BY <2>1, <2>2
<1> QED BY <1>4, <1>8, <1>9 DEF LayersInv

\* A remainder starts again or is one more.
LEMMA RemainderFacts ==
  ASSUME NEW n \in Nat, NEW k \in Nat \ {0}
  PROVE  /\ n % k \in 0..(k - 1)
         /\ (n + 1) % k = 0 \/ (n + 1) % k = (n % k) + 1
<1>1. n + 1 = k * ((n + 1) \div k) + ((n + 1) % k) /\ (n + 1) % k \in 0..(k - 1)
      /\ (n + 1) \div k \in Int
  BY SMTT(30)
<1>2. n % k \in 0..(k - 1)
  BY SMTT(30)
<1>3. ASSUME NEW q \in Int, NEW r \in 0..(k - 1), NEW x \in Int, x = k * q + r
      PROVE  x % k = r
  BY <1>3, SMTT(30)
<1>4. ASSUME (n + 1) % k # 0 PROVE n % k = ((n + 1) % k) - 1
  <2>1. n = k * ((n + 1) \div k) + (((n + 1) % k) - 1) /\ ((n + 1) % k) - 1 \in 0..(k - 1)
    BY <1>1, <1>4
  <2>2. (n + 1) \div k \in Int /\ n \in Int
    BY <1>1
  <2> QED BY <1>3, <2>1, <2>2, ZenonT(60)
<1> QED BY <1>1, <1>2, <1>4

LEMMA PackLayers ==
  ASSUME ForwardInv, LayersInv, Pack
  PROVE  LayersInv' /\ Layers!Pack
<1>1. /\ SameStep /\ here' = 0 /\ pc = "pack"
      /\ pc' = IF evaluate_core THEN "block" ELSE "reuse"
      /\ ResidualStays /\ front'[held'.hidden].history = << << "pack", now >> >>
  BY PackKeeps DEF Pack, SameStep, HistoryIs
<1>2. AgeInv'
  <2>1. CASE evaluate_core
    BY <1>1, <2>1 DEF LayersInv, AgeInv, SameStep, ResidualStays
  <2>2. CASE ~evaluate_core
    BY <1>1, <2>2 DEF LayersInv, AgeInv, SameStep, ResidualStays, evaluate_core
  <2> QED BY <2>1, <2>2
<1>3. TraceInv'
  <2>1. Layers!Through(options, now)[0] = << << "pack", now >> >>
    BY PastFacts
  <2> QED BY <1>1, <2>1 DEF TraceInv, SameStep
<1>4. Past = << >> \/ Past[1] # << "pack", now >>
  BY <1>1 DEF LayersInv, TraceInv, Past
<1>5. Layers!Pack
  BY <1>1, <1>4 DEF Layers!Pack, Past, SameStep, ResidualStays
<1> QED BY <1>2, <1>3, <1>5 DEF LayersInv

LEMMA CacheResidualLayers ==
  ASSUME ForwardInv, LayersInv, CacheResidual
  PROVE  LayersInv' /\ Layers!Keep
<1>1. /\ pc = "residual" /\ pc' = "head" /\ residual_ready' = TRUE
      /\ UNCHANGED << options, now, here, passes, outcome >>
      /\ front'[held'.hidden].history = Past
      /\ front'["core_residual"].is = "residual" /\ front'["core_residual"].block = now
  BY CacheResidualKeeps DEF CacheResidual, Past
<1>2. options.interval > 1 /\ Past = Whole
  BY <1>1 DEF ForwardInv, ResidualInv, LayersInv, TraceInv, Past, Whole
<1>3. now \in Nat /\ options.interval \in Nat \ {0}
  BY PastFacts
<1>4. now % options.interval \in 0..(options.interval - 1)
  BY <1>3, RemainderFacts
<1>5. now - (now % options.interval) <= now
  BY <1>3, <1>4
<1>6. AgeInv'
  BY <1>1, <1>2, <1>3, <1>5 DEF LayersInv, AgeInv
<1>7. TraceInv'
  BY <1>1, <1>2 DEF TraceInv, Whole
<1>8. Layers!Keep
  BY <1>1, <1>2 DEF Layers!Keep, Layers!Evaluated, Past, Whole
<1> QED BY <1>6, <1>7, <1>8 DEF LayersInv

LEMMA PairIs ==
  ASSUME NEW x, NEW y
  PROVE  Append(<< x >>, y) = << x, y >>
<1> DEFINE S == {x, y}
           longer == Append(<< x >>, y)
           pair == << x, y >>
<1>1. << x >> \in Seq(S) /\ y \in S /\ Len(<< x >>) = 1 /\ << x >>[1] = x
  OBVIOUS
<1>2. pair \in Seq(S) /\ Len(pair) = 2 /\ pair[1] = x /\ pair[2] = y
  OBVIOUS
<1>3. longer \in Seq(S) /\ Len(longer) = 2 /\ longer[1] = x /\ longer[2] = y
  BY <1>1, AppendProperties
<1> HIDE DEF S, longer, pair
<1>4. longer = pair
  BY <1>2, <1>3, SeqEqual
<1> QED BY <1>4 DEF longer, pair

LEMMA ReuseResidualLayers ==
  ASSUME ForwardInv, LayersInv, ReuseResidual
  PROVE  LayersInv' /\ Layers!Reuse
<1> DEFINE kept == front["core_residual"].block
           packed == << "pack", now >>
<1>1. /\ SameStep /\ here' = here /\ pc = "reuse" /\ pc' = "head" /\ ResidualStays
      /\ front'[held'.hidden].history = Append(Past, << "reuse", kept >>)
  BY ReuseResidualKeeps DEF ReuseResidual, SameStep, HistoryGrows, HistoryIs, Past
<1>2. Past = << packed >>
  BY <1>1 DEF LayersInv, TraceInv, Past
<1>3. Append(<< packed >>, << "reuse", kept >>) = << packed, << "reuse", kept >> >>
  BY PairIs
<1>4. front["core_residual"].is = "residual" /\ kept \in Nat
  <2>1. front["core_residual"] \in Contents
    BY BufferFacts DEF ForwardInv, TypeOK, BuffersApart
  <2> QED BY <1>1, <2>1, ContentFacts DEF ForwardInv, ResidualInv
<1>5. now \in Nat /\ options.interval \in Nat \ {0}
  BY PastFacts
<1>6. now % options.interval \in 0..(options.interval - 1)
  BY <1>5, RemainderFacts
<1>7. now - (now % options.interval) <= kept /\ now # NSteps - 1
  BY <1>1 DEF LayersInv, AgeInv
<1>8. now - kept < options.interval
  BY <1>4, <1>5, <1>6, <1>7
<1>9. AgeInv'
  BY <1>1, AgeStays DEF LayersInv
<1>10. TraceInv'
  BY <1>1, <1>2, <1>3 DEF TraceInv, SameStep, ResidualStays
<1>11. Layers!Reuse
  BY <1>1, <1>2, <1>4, <1>7, <1>8 DEF Layers!Reuse, Past, SameStep, ResidualStays
<1> QED BY <1>9, <1>10, <1>11 DEF LayersInv

LEMMA FinalHeadLayers ==
  ASSUME ForwardInv, LayersInv, FinalHead
  PROVE  LayersInv' /\ Layers!Read
<1> DEFINE kept == front["core_residual"].block
           packed == << "pack", now >>
           interval == options.interval
<1>1. /\ pc = "head" /\ outcome' = Past /\ passes' = passes + 1
      /\ UNCHANGED << options, here, held, front, residual_ready >>
      /\ IF now + 1 < NSteps THEN now' = now + 1 /\ pc' = "pack" ELSE now' = now /\ pc' = "done"
  BY DEF FinalHead, Past
<1>2. Past = Whole \/ Past = << packed, << "reuse", kept >> >>
  BY <1>1 DEF LayersInv, TraceInv, Past, Whole
<1>3. /\ now \in Nat /\ interval \in Nat \ {0}
      /\ Whole \in Histories /\ Len(Whole) >= 1 /\ Whole[1] = packed
  BY PastFacts
<1>4. Past # << >> /\ Past[1] = packed
  BY <1>2, <1>3
<1>5. Past = Whole \/ Past[Len(Past)][1] = "reuse"
  BY <1>2
<1>6. Layers!Read
  BY <1>1, <1>4, <1>5 DEF Layers!Read, Layers!Evaluated, Past, Whole
<1>7. /\ now % interval \in 0..(interval - 1)
      /\ (now + 1) % interval = 0 \/ (now + 1) % interval = (now % interval) + 1
  BY <1>3, RemainderFacts
<1>8. /\ passes = now /\ now < NSteps /\ NSteps \in Nat
      /\ residual_ready => interval > 1
      /\ interval > 1 => residual_ready /\ kept <= now /\ now - (now % interval) <= kept
      /\ front["core_residual"].is = "residual" => residual_ready
  BY <1>1, OptionsAssumption DEF LayersInv, AgeInv
<1>9. AgeInv'
  <2>1. CASE now + 1 < NSteps
    <3>1. now' = now + 1 /\ pc' = "pack" /\ passes' = now'
      BY <1>1, <1>8, <2>1
    <3>2. ASSUME residual_ready
          PROVE  kept <= now + 1 /\ ((now + 1) % interval # 0 => (now + 1) - ((now + 1) % interval) <= kept)
      <4>1. kept \in Nat
        <5>1. front["core_residual"] \in Contents
          BY BufferFacts DEF ForwardInv, TypeOK, BuffersApart
        <5> QED BY <5>1, ContentFacts
      <4> QED BY <1>3, <1>7, <1>8, <3>2, <4>1
    <3> QED BY <1>1, <1>8, <2>1, <3>1, <3>2 DEF AgeInv
  <2>2. CASE ~(now + 1 < NSteps)
    BY <1>1, <1>8, <2>2 DEF AgeInv
  <2> QED BY <2>1, <2>2
<1>10. TraceInv'
  <2>1. CASE now + 1 < NSteps
    <3>1. now' = now + 1 /\ now # now + 1 /\ front'[held'.hidden].history = Past
      BY <1>1, <1>3, <2>1 DEF Past
    <3>2. Past[1] # << "pack", now' >>
      BY <1>4, <3>1
    <3> QED BY <1>1, <2>1, <3>1, <3>2 DEF TraceInv
  <2>2. CASE ~(now + 1 < NSteps)
    BY <1>1, <2>2 DEF TraceInv
  <2> QED BY <2>1, <2>2
<1> QED BY <1>6, <1>9, <1>10 DEF LayersInv

LEMMA InitLayers ==
  ASSUME Init
  PROVE  LayersInv /\ Layers!Init
<1>1. /\ pc = "pack" /\ now = 0 /\ passes = 0 /\ residual_ready = FALSE /\ outcome = << >>
      /\ held.hidden = "a" /\ front = [b \in Buffers |-> Junk]
  BY DEF Init
<1>2. "a" \in Buffers /\ "core_residual" \in Buffers
  BY DEF Buffers
<1>3. Junk.is = "junk" /\ Junk.history = << >>
  BY DEF Junk, Content
<1>4. front[held.hidden].history = << >> /\ front["core_residual"].is = "junk"
  BY <1>1, <1>2, <1>3
<1>5. AgeInv
  BY <1>1, <1>4, OptionsAssumption DEF AgeInv
<1>6. TraceInv
  BY <1>1, <1>4 DEF TraceInv
<1>7. Layers!Init
  BY <1>1, <1>4 DEF Layers!Init
<1> QED BY <1>5, <1>6, <1>7 DEF LayersInv

\* Every operation is a layer, a residual kept or reused, the head, or nothing.
LEMMA StepLayers ==
  ASSUME ForwardInv, LayersInv, [Next]_vars
  PROVE  LayersInv' /\ [Layers!Next]_(Layers!vars)
<1> USE DEF Unseen, Layers!Next
<1>1. CASE Pack
  BY <1>1, PackLayers
<1>2. CASE NextBlock
  BY <1>2, NextBlockLayers
<1>3. CASE EnterReduction
  BY <1>3, EnterReductionLayers
<1>4. CASE LeaveReduction
  BY <1>4, LeaveReductionLayers
<1>5. CASE EndOfBlocks
  BY <1>5, EndOfBlocksLayers
<1>6. CASE CacheResidual
  BY <1>6, CacheResidualLayers
<1>7. CASE ReuseResidual
  BY <1>7, ReuseResidualLayers
<1>8. CASE FinalHead
  BY <1>8, FinalHeadLayers
<1>9. CASE AttentionAdaln
  BY <1>9, AttentionAdalnKeeps, WorkSteps DEF AttentionAdaln, Step, SameStep
<1>10. CASE QkvProjection
  BY <1>10, QkvProjectionKeeps, WorkSteps DEF QkvProjection, Step, SameStep
<1>11. CASE RunAttention
  BY <1>11, RunAttentionKeeps, WorkSteps DEF RunAttention, Step, SameStep
<1>12. CASE AttentionOutput
  BY <1>12, AttentionOutputKeeps, WorkSteps DEF AttentionOutput, Step, SameStep
<1>13. CASE MlpInput
  BY <1>13, MlpInputLayers
<1>14. CASE RunMlp
  BY <1>14, RunMlpKeeps, WorkSteps DEF RunMlp, Step, SameStep
<1>15. CASE MlpGate
  BY <1>15, MlpGateLayers
<1>16. CASE UNCHANGED vars
  <2>1. UNCHANGED << options, now, pc, here, held, front, passes, residual_ready, outcome >>
    BY <1>16 DEF vars, position
  <2>2. LayersInv'
    BY <2>1 DEF LayersInv, TraceInv, AgeInv
  <2> QED BY <2>1, <2>2 DEF Layers!vars
<1> QED
  BY <1>1, <1>2, <1>3, <1>4, <1>5, <1>6, <1>7, <1>8, <1>9, <1>10, <1>11, <1>12, <1>13,
     <1>14, <1>15, <1>16 DEF Next

\* The hidden states have always gone through the layers up to where the loop is, each
\* once and in its order, and the residual that is kept is of the last step that the
\* interval made evaluate, or of a later one (encode_forward).
THEOREM LayersInvariance == Spec => []LayersInv
<1>1. Init => LayersInv
  BY InitLayers
<1>2. ForwardInv /\ LayersInv /\ [Next]_vars => LayersInv'
  BY StepLayers
<1> QED BY <1>1, <1>2, ForwardInvariance, PTL DEF Spec

\* Every run of the forward pass computes the layers of the model: whichever buffers
\* share memory, kernels are fused and inputs are made ahead, tokens are pooled and
\* restored once and at their boundaries, each active block runs whole and once, and a
\* step that is skipped adds what a recent one added (encode_forward, run_block).
THEOREM ForwardIsLayers == Spec => ImplementsLayers
<1>1. Init => Layers!Init
  BY InitLayers
<1>2. ForwardInv /\ LayersInv /\ [Next]_vars => [Layers!Next]_(Layers!vars)
  BY StepLayers
<1> QED
  BY <1>1, <1>2, ForwardInvariance, LayersInvariance, PTL DEF Spec, Layers!Spec, ImplementsLayers
=============================================================================
