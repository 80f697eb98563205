---------------------------- MODULE MCGpuKernels ----------------------------
(***************************************************************************)
(* Every kernel of GpuKernels at dimensions small enough to run each of    *)
(* its threads, with an odd count, a remainder and an edge where the       *)
(* arithmetic has one.                                                     *)
(***************************************************************************)
EXTENDS GpuKernels

MCCatalogue ==
  << RmsNormKernel(3, 2), LayerNormKernel(2, 3), WeightNormKernel(3, 2), QuantizeRowsKernel(2, 3),
     BinaryKernel(3), ScaleAddKernel(2, 3), Snake1dKernel(2, 2, 3), EulerKernel(2, 3),
     TiledAttentionKernel(BF16, 10, 2, 128, FALSE), TiledAttentionKernel(F32, 9, 2, 64, TRUE),
     PatchScatter(5, << 3, 0, 4 >>, 2),
     PatchScatter(3, << 2, 3, 0 >>, 2),
     QuantizeHeadMajor(3, 2, 2),
     LinearInt8Kernel(2, 3, 2),
     AdalnKernel(0, << 1, 0, 1 >>, 2, 3, 0, 2),
     AdalnKernel(4, << 0, 2 >>, 2, 2, 1, 0),
     GateKernel(<< 1, 0, 1 >>, 2, 3, 2),
     EmbeddingKernel(<< 2, 0, 5 >>, 3, 2),
     SwigluKernel(2, 3),
     TokenPoolKernel(4, << << 0, 0 >>, << 1, 2 >>, << 3, 3 >> >>, << NoRow, 0, NoRow >>, 1, 2),
     TokenExpandKernel(<< 0, 1, 1, 2 >>, 3, << NoRow, 0, NoRow >>, 1, 1, 2),
     QkvRopeKernel(2, 2, 5, 2, TRUE, TRUE),
     QkvRopeKernel(2, 2, 4, 2, FALSE, FALSE),
     AttentionKernel(2, 3, 2, 2, 2, TRUE, TRUE, FALSE),
     AttentionKernel(1, 3, 4, 2, 2, TRUE, FALSE, FALSE),
     RopeTextKernel(3, 4, 2, 4),
     TextQkRopeKernel(2, 4, 2, 4),
     HeadRmsKernel(3, 2, 2),
     AudioQkvSplitKernel(2, 3, 2, 2),
     AudioPoolKernel(2, 2, 2, 4, 2),
     Conv1dKernel(2, 5, 2, 2, 3, 2, 1, 2),
     ConvTranspose1dKernel(2, 3, 2, 2, 4, 2, 1),
     SnakeKernel(2, 4, 2),
     VaePadKernel(2, << 2, 2, 3 >>, 2, << 1, 1, 1, 2, 1 >>),
     Conv3dKernel(2, << 3, 4, 3 >>, 2, 2, << 3, 3, 2 >>, << 1, 2, 1 >>),
     GroupNormKernel(2, << 2, 2, 1 >>, 4, 2),
     HeadsTogether(3, 2, 4, 2, TRUE),
     HeadsTogether(3, 2, 4, 2, FALSE),
     RowsTogether(3, 2, 2),
     NoLookAhead(2, 3, 2, 4, 2),
     OwnQuery(3, 4, 2, 2),
     Adjoint(2, 3, 1, 2, 5, 3, 1),
     Centred(2, 7, 2),
     Mirrored(<< 1, 2, 4 >>, 2, << 2, 1, 0, 1, 3 >>) >>
=============================================================================
