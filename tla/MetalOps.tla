------------------------------- MODULE MetalOps -------------------------------
(* How each operation of a graph is put on the GPU, ggml-metal-ops.cpp: the   *)
(* stages of one ggml_metal_op_<name> call, a sequence of lists of            *)
(* dispatches.  Between two stages the code calls                             *)
(* ggml_metal_op_concurrency_reset, a memory barrier; the dispatches of one   *)
(* stage may run in any order.  A dispatch names its pipeline, the memory it  *)
(* reads and writes, its grid and its threads.                                *)
(* A tensor lies at the place op.at, a Metal buffer and an offset into it;    *)
(* room behind the result for intermediate data is op.scratch.  dev is the    *)
(* device: what it supports and its limits.                                   *)
EXTENDS MetalPipelines, Sequences, FiniteSets

At(op, i) == op.src[i].at
Sources(op) == [i \in 1..Cardinality(DOMAIN op.src) |-> At(op, i - 1)]

\* does: the operations the kernel applies one after the other, each to the
\* result so far; cover: how many groups there are for how much work, `per` the
\* work of one group; room: how much of the reserved memory it fills.
Run(req, does, in, out, grid, threads) ==
  [req |-> req, does |-> does, in |-> in, out |-> out, grid |-> grid,
   threads |-> threads, smem |-> 0, cover |-> {}, room |-> {}]
Smem(d, bytes) == [d EXCEPT !.smem = bytes]
Cover(d, groups, per, work) ==
  [d EXCEPT !.cover = @ \cup {[groups |-> groups, per |-> per, work |-> work,
                               checked |-> TRUE]}]
\* What the kernel writes behind the result, and what was reserved for it there.
Room(d, needs, has) == [d EXCEPT !.room = @ \cup {[needs |-> needs, has |-> has]}]
\* The kernel is compiled without bounds checks: the groups must fit exactly.
Unchecked(d) == [d EXCEPT !.cover = {[c EXCEPT !.checked = FALSE] : c \in @}]

One(d) == <<<<d>>>>
\* Most operations: one kernel from all sources to the result.
Simple(op, req, grid, threads) ==
  Run(req, <<op.op>>, Sources(op), <<op.at>>, grid, threads)
NeRest(t) == <<t.ne[1], t.ne[2], t.ne[3]>>

\* From 32, the width of a simdgroup, doubled until all n or max threads are
\* reached, and cut to both.
FromSimdWidth(n, max) == AtMost(AtMost(Doubled(32, AtMost(n, max)), max), n)

-------------------------------------------------------------------------------
OpConcat(op, dev) == One(Simple(op, PipelineBase(op), NeRest(op), AtMost(1024, op.ne[0])))

OpRepeat(op, dev) ==
  One(Simple(op, PipelineRepeat(op.type), NeRest(op), AtMost(dev.max, op.ne[0])))

\* src0 copied to the result, one group of threads for each row and one element
\* for each thread: what is left of a longer row is not copied.
CopySrc0(op, max) ==
  LET ne00 == op.src[0].ne[0]
      nth  == AtMost(max, ne00)
  IN  Cover(Run(PipelineCpy(Type(op, 0), op.type), <<"copy">>, <<At(op, 0)>>,
                <<op.at>>, NeRest(op.src[0]), nth), 1, nth, ne00)

\* Without `inplace`, src0 is copied to the result first.  The addition reads
\* src0, not the copy, and only where src1 lies.
OpAcc(op, dev) ==
  LET nth == Doubled(1, AtMost(CeilDiv(op.src[1].ne[0], 2), AtMost(256, dev.max)))
      add == Run(PipelineBinOne("ADD"), <<"ACC">>, <<op.at, At(op, 0), At(op, 1)>>,
                 <<op.at>>, NeRest(op.src[1]), nth)
  IN  IF op.par.inplace THEN One(add) ELSE <<<<CopySrc0(op, dev.max)>>, <<add>>>>

OpUnary(op, dev) ==
  LET req  == PipelineUnary(op)
      by   == IF req.c4 THEN 4 ELSE 1
      ne00 == op.src[0].ne[0] \div by
      nth  == AtMost(ne00, AtMost(256, dev.max))
      n    == Elements(op) \div by
      nk0  == CeilDiv(ne00, nth)
  IN  IF req.cnt
      THEN One(Cover(Simple(op, req, <<n, 1, 1>>, 1), n, by, Elements(op)))
      ELSE One(Cover(Simple(op, req, <<nk0 * op.src[0].ne[1], op.src[0].ne[2],
                                       op.src[0].ne[3]>>, nth), nk0, nth, ne00))

OpGlu(op, dev) ==
  One(Simple(op, PipelineGlu(op), <<Rows(op.src[0]), 1, 1>>,
             AtMost(dev.max, op.src[0].ne[0] \div 2)))

OpSum(op, dev) ==
  LET nth == FromSimdWidth(Elements(op.src[0]), dev.max)
  IN  One(Smem(Simple(op, PipelineSum(op), <<1, 1, 1>>, nth), 4 * CeilDiv(nth, 32)))

OpSumRows(op, dev) ==
  LET req  == PipelineSumRows(op)
      ne00 == IF req.c4 THEN op.src[0].ne[0] \div 4 ELSE op.src[0].ne[0]
  IN  One(Smem(Simple(op, req, NeRest(op.src[0]), FromSimdWidth(ne00, dev.max)),
               req.smem))

\* The largest power of two that fits, or the first to hold a row.
CumsumThreads(ne00, max) ==
  CHOOSE n \in {Pow2[k] : k \in 0..12} :
    /\ n <= max /\ (n >= ne00 \/ 2 * n > max) /\ (n = 1 \/ n \div 2 < ne00)

\* A row longer than a group: sums inside the blocks, with the total of each
\* block behind the result; the sums of the totals; their addition.
OpCumsum(op, dev) ==
  LET ne00 == op.src[0].ne[0]
      nth  == CumsumThreads(ne00, dev.max)
      net0 == CeilDiv(ne00, nth)
      tmp  == op.scratch[1]
      wide == <<net0 * op.src[0].ne[1], op.src[0].ne[2], op.src[0].ne[3]>>
      blk  == Smem(Cover(Run(PipelineCumsumBlk(op), <<"CUMSUM">>, <<At(op, 0)>>,
                             <<op.at, tmp>>, wide, nth), net0, nth, ne00), 128)
      sums == Smem(Cover(Run(PipelineCumsumBlk(op), <<"CUMSUM">>, <<tmp>>, <<tmp>>,
                             NeRest(op.src[0]), nth), 1, nth, net0), 128)
      add  == Cover(Run(PipelineCumsumAdd(op), <<"CUMSUM_ADD">>, <<op.at, tmp>>,
                        <<op.at>>, wide, nth), net0, nth, ne00)
  IN  IF ne00 > nth THEN <<<<blk>>, <<sums>>, <<add>>>> ELSE One(blk)

\* The rows of a quantized tensor are made of elements of 16.
OpGetRows(op, dev) ==
  LET ne00t == IF Type(op, 0) \in QuantTypes
               THEN op.src[0].ne[0] \div 16 ELSE op.src[0].ne[0]
      nth   == AtMost(ne00t, dev.max)
      nw0   == CeilDiv(ne00t, nth)
  IN  One(Cover(Simple(op, PipelineGetRows(Type(op, 0)),
                       <<nw0 * op.src[1].ne[0], op.src[1].ne[1], op.src[1].ne[2]>>,
                       nth), nw0, nth, ne00t))

\* Short rows share a group.
OpSetRows(op, dev) ==
  LET nk0   == op.ne[0] \div op.blck
      nth0  == Doubled(32, AtMost(nk0, dev.max))
      fit   == CeilDiv(nth0, nk0)
      nrptg == IF nth0 <= nk0 THEN 1
               ELSE IF fit * nk0 > dev.max THEN fit - 1 ELSE fit
      ne01  == op.src[0].ne[1]
      groups == CeilDiv(ne01, nrptg)
  IN  One(Cover(Simple(op, PipelineSetRows(Type(op, 1), op.type),
                       <<groups, op.src[0].ne[2], op.src[0].ne[3]>>,
                       AtMost(nth0, nk0) * nrptg), groups, nrptg, ne01))

OpDiag(op, dev) == One(Simple(op, PipelineDiag(op), NeRest(op), 32))

\* Few rows get more threads each, but never more than about 256 in all.
OpSoftMax(op, dev) ==
  LET ne00 == op.src[0].ne[0]
      n    == IF ne00 % 4 = 0 THEN ne00 \div 4 ELSE ne00
      req  == PipelineSoftMax(op)
  IN  One(Smem(Simple(op, req, NeRest(op.src[0]),
                      Doubled(32, AtMost(n, CeilDiv(256, Rows(op.src[0]))))), req.smem))

BatchSize(ne1) ==
  CASE ne1 > 128 -> 256 [] ne1 > 64 -> 128 [] ne1 > 32 -> 64 [] ne1 > 16 -> 32
    [] ne1 > 8 -> 16 [] ne1 > 4 -> 8 [] OTHER -> 2

OpSsmConv(op, dev) ==
  LET ne1     == op.ne[1]
      bs      == BatchSize(ne1)
      batches == CeilDiv(ne1, bs)
      grid(n) == <<op.src[0].ne[1], n, op.src[0].ne[2]>>
  IN  IF ne1 > 1
      THEN One(Cover(Simple(op, PipelineSsmConvBatched(op, bs), grid(batches), bs),
                     batches, bs, ne1))
      ELSE One(Simple(op, PipelineSsmConv(op), grid(ne1), 1))

\* One thread for each element of the state; more than a group holds aborts.
OpSsmScan(op, dev) ==
  LET req == PipelineSsmScan(op)
  IN  One(Smem(Simple(op, req, <<op.src[0].ne[1], op.src[0].ne[2], op.src[1].ne[3]>>,
                      op.src[0].ne[0]), req.smem))

OpRwkv(op, dev) ==
  LET B == op.src[IF op.op = "RWKV_WKV6" THEN 5 ELSE 6].ne[1]
      H == op.src[0].ne[1]
  IN  One(Simple(op, PipelineRwkv(op), <<B * H, 1, 1>>, op.ne[0] \div H))

OpGatedDeltaNet(op, dev) ==
  LET req == PipelineGatedDeltaNet(op)
      v   == op.src[2]
      groups == v.ne[0] \div req.nsg
  IN  One(Cover(Simple(op, req, <<groups, v.ne[1], v.ne[3]>>, 32 * req.nsg),
                groups, req.nsg, v.ne[0]))

OpSolveTri(op, dev) ==
  LET req    == PipelineSolveTri(op)
      groups == CeilDiv(op.src[1].ne[0], req.nsg)
  IN  One(Cover(Smem(Simple(op, req, <<groups, op.src[0].ne[2], op.src[0].ne[3]>>,
                            32 * req.nsg), req.smem),
                groups, req.nsg, op.src[1].ne[0]))

\* A copy handles elements, or blocks when one side is quantized.  (Rows are
\* never batched: the thread count is cut to a row before it is compared to it.)
CopyChunks(t, type, blck) ==
  IF t.type \in QuantTypes THEN t.ne[0] \div 16
  ELSE IF type \in QuantTypes THEN t.ne[0] \div blck ELSE t.ne[0]
CopyOf(op, i, dev, does, in) ==
  LET t   == op.src[i]
      nk0 == CopyChunks(t, op.type, op.blck)
      nth == AtMost(nk0, dev.max)
      nw0 == CeilDiv(nk0, nth)
  IN  Cover(Run(PipelineCpy(t.type, op.type), does, in, <<op.at>>,
                <<nw0 * t.ne[1], t.ne[2], t.ne[3]>>, nth), nw0, nth, nk0)

\* Like OpAcc: src0 copied to the result, then src1 over a part of it.
OpSet(op, dev) ==
  LET set == CopyOf(op, 1, dev, <<"SET">>, <<op.at, At(op, 1)>>)
  IN  IF op.par.inplace THEN One(set) ELSE <<<<CopySrc0(op, dev.max)>>, <<set>>>>

OpCpy(op, dev) == One(CopyOf(op, 0, dev, <<"copy">>, <<At(op, 0)>>))

OpPool(op, req, dev) ==
  LET np  == Elements(op)
      nth == AtMost(dev.max, np)
      ntg == CeilDiv(np, nth)
  IN  One(Cover(Simple(op, req, <<ntg, 1, 1>>, nth), ntg, nth, np))
OpPool1d(op, dev) == OpPool(op, PipelinePool1d(op), dev)
OpPool2d(op, dev) == OpPool(op, PipelinePool2d(op), dev)

-------------------------------------------------------------------------------
(* Matrix products.                                                           *)

\* The rows of src0 and of src1 one group of the kernel multiplies, as written in
\* ggml-metal.metal.  Each simdgroup of a quantized kernel has rows of its own,
\* but all those of a float or q8_0 kernel share them.
KernelTile(req, dev) ==
  LET k == req.base
  IN  CASE k.kernel = "mul_mm_f16_f32_n64" -> <<64, 64>>
        [] k.kernel = "mul_mm" -> IF dev.has_tensor THEN <<NRA, NRB>> ELSE <<64, 32>>
        [] k.kernel = "mul_mm_id" -> <<64, 32>>
        [] k.kernel = "mul_mv_ext" ->
             <<(32 \div req.consts.nxpsg) * req.consts.nsg, k.r1>>
        [] OTHER -> IF k.short THEN <<32, 1>>
                    ELSE IF k.src \in FloatTypes THEN <<req.nr0, 1>>
                    ELSE IF k.src = "q8_0" THEN <<N_R0[k.src], 1>>
                    ELSE <<req.consts.nsg * N_R0[k.src], 1>>
\* g0 groups for the rows of src0 times g1 for those of src1.
Tiled(d, op, dev, g0, g1, n1) ==
  LET tile == KernelTile(d.req, dev)
  IN  Cover(Cover(d, d.grid[g0], tile[1], op.src[0].ne[1]), d.grid[g1], tile[2], n1)
Batch(op) == op.src[1].ne[2] * op.src[1].ne[3]

\* Small batches: between 2 and 8 rows of src1, for the types with such a kernel.
SmallBatch(op) ==
  LET ne11 == op.src[1].ne[1]
      type == Type(op, 0)
  IN  /\ Type(op, 1) = "f32" /\ op.src[0].ne[0] % 128 = 0
      /\ \/ type \in FloatTypes \cup {"q1_0", "q4_0", "q4_1", "q5_0", "q5_1", "q8_0",
                                   "mxfp4", "iq4_nl"} /\ ne11 \in 2..8
         \/ type \in {"q4_K", "q5_K", "q6_K", "q2_K", "q3_K"} /\ ne11 \in 4..8

MulMvExt(op, dev) ==
  LET ne00  == op.src[0].ne[0]
      ne11  == op.src[1].ne[1]
      nxpsg == IF ne00 % 256 = 0 /\ ne11 < 3 THEN 16 ELSE 8
      r0ptg == (32 \div nxpsg) * 2
      r1ptg == CASE ne11 = 2 -> 2 [] ne11 \in {3, 6} -> 3 [] ne11 = 5 -> 5
                 [] OTHER -> 4
      grid  == <<CeilDiv(op.src[0].ne[1], r0ptg), CeilDiv(ne11, r1ptg), Batch(op)>>
  IN  Tiled(Simple(op, PipelineMulMvExt(Type(op, 0), Type(op, 1), 2, nxpsg, r1ptg),
                   grid, 32 * 2), op, dev, 1, 2, ne11)

MulMm(op, dev) ==
  LET req  == PipelineMulMm(op, dev)
      grid == <<CeilDiv(op.src[1].ne[1], req.nr1), CeilDiv(op.src[0].ne[1], req.nr0),
                Batch(op)>>
      d    == Tiled(Smem(Simple(op, req, grid, 32 * req.nsg), req.smem), op, dev, 2, 1,
                    op.src[1].ne[1])
  IN  IF req.consts = NoFields \/ ~req.consts.bco THEN Unchecked(d) ELSE d

\* Of the quantized types all but q8_0 have rows for each simdgroup.
RowsPerGroup_Faulty(op, req) == req.nr0 * req.nsg
RowsPerGroup(op, req) ==
  IF Type(op, 0) \in FloatTypes \cup {"q8_0"} THEN req.nr0 ELSE req.nr0 * req.nsg

MulMv(op, dev) ==
  LET req == PipelineMulMv(op)
      n0  == RowsPerGroup(op, req)
  IN  Tiled(Smem(Simple(op, req, <<CeilDiv(op.src[0].ne[1], n0),
                                   CeilDiv(op.src[1].ne[1], req.nr1), Batch(op)>>,
                        32 * req.nsg), req.smem), op, dev, 1, 2, op.src[1].ne[1])

OpMulMat(op, dev) ==
  LET mm == /\ ~op.src[0].transposed /\ ~op.src[1].transposed
            /\ dev.has_simdgroup_mm
            /\ op.src[0].ne[0] >= 64 /\ op.src[1].ne[1] > 8
  IN  One(IF SmallBatch(op) THEN MulMvExt(op, dev)
          ELSE IF mm THEN MulMm(op, dev) ELSE MulMv(op, dev))

\* For many tokens the tokens of each expert are listed first, in room behind
\* the result.  src[2] tells the experts of each token.
OpMulMatId(op, dev) ==
  LET ne01 == op.src[0].ne[1]
      ne02 == op.src[0].ne[2]
      ids  == op.src[2]
      tpe  == op.scratch[1]
      list == op.scratch[2]
      map0 == PipelineMulMmIdMap0(ne02, ids.ne[0])
      mm   == PipelineMulMmId(op)
      mv   == PipelineMulMvId(op)
      n0   == RowsPerGroup(op, mv)
  IN  IF dev.has_simdgroup_mm /\ op.src[0].ne[0] >= 64 /\ ids.ne[1] >= 32
      THEN <<<<Smem(Run(map0, <<"MAP0">>, <<At(op, 2)>>, <<tpe, list>>, <<1, 1, 1>>,
                        ne02), map0.smem)>>,
             <<Tiled(Smem(Run(mm, <<"MUL_MAT_ID">>,
                              <<At(op, 0), At(op, 1), tpe, list>>, <<op.at>>,
                              <<CeilDiv(ids.ne[1], 32), CeilDiv(ne01, 64), ne02>>,
                              128), mm.smem), op, dev, 2, 1, ids.ne[1])>>>>
      ELSE One(Tiled(Smem(Simple(op, mv, <<CeilDiv(ne01, n0), 1, ids.ne[0] * ids.ne[1]>>,
                                 32 * mv.nsg), mv.smem), op, dev, 1, 2, 1))

OpAddId(op, dev) ==
  One(Simple(op, PipelineBase(op), <<op.src[0].ne[1], op.src[0].ne[2], 1>>,
             AtMost(dev.max, op.src[0].ne[0])))

-------------------------------------------------------------------------------
(* Attention.  q, k, v and mask are src[0..3].  The rooms behind the result:  *)
(* keys and values padded to whole blocks, the blocks that are masked out,    *)
(* the partial results of the workgroups.                                     *)

UseVec(op) == op.src[0].ne[1] < 20 /\ op.src[0].ne[0] % 32 = 0

\* What is reserved: rows of padding for each head; blocks; partial results.
ExtraPad(op) == NCPSG
ExtraBlk_Faulty(op) ==
  LET q == op.src[0]
      m == op.src[3]
  IN  32 * CeilDiv(CeilDiv(m.ne[0], NCPSG) * (q.ne[1] \div NQPSG) * m.ne[2] * m.ne[3], 32)
ExtraBlk(op) ==
  LET q == op.src[0]
      m == op.src[3]
      nqptg == IF UseVec(op) THEN VEC_NQPSG ELSE NQPSG
      ncpsg == IF UseVec(op) THEN VEC_NCPSG ELSE NCPSG
  IN  32 * CeilDiv(CeilDiv(m.ne[0], ncpsg) * CeilDiv(q.ne[1], nqptg)
                   * m.ne[2] * m.ne[3], 32)
ExtraTmp(op) ==
  LET q == op.src[0]
  IN  AtMost(q.ne[1], 32) * q.ne[2] * q.ne[3] * 32 * (op.src[2].ne[0] + 2)

\* The last block of keys and values is not full.
HasKvPad(op, ncpsg) == op.src[1].ne[1] % ncpsg # 0
AttnHas(op, ncpsg) ==
  [mask |-> Has(op, 3), sinks |-> Has(op, 4), bias |-> op.par.bias,
   scap |-> op.par.softcap, kvpad |-> HasKvPad(op, ncpsg)]

\* An absent mask is bound to q.
MaskAt(op) == IF Has(op, 3) THEN At(op, 3) ELSE At(op, 0)
Most(a, b) == IF a >= b THEN a ELSE b

PadKv(op, ncpsg) ==
  LET k    == op.src[1]
      over(d) == IF Has(op, 3) THEN Most(k.ne[d], op.src[3].ne[d]) ELSE k.ne[d]
  IN  Room(Run(PipelineFlashAttnExtPad(Has(op, 3), ncpsg), <<"FA_PAD">>,
               <<At(op, 1), At(op, 2), MaskAt(op)>>, <<op.scratch[1]>>,
               <<ncpsg, over(2), over(3)>>, 32), ncpsg, ExtraPad(op))

MaskBlocks(op) ==
  LET m     == op.src[3]
      nblk1 == CeilDiv(op.src[0].ne[1], NQPSG)
      nblk0 == CeilDiv(m.ne[0], NCPSG)
  IN  Room(Run(PipelineFlashAttnExtBlk(NQPSG, NCPSG), <<"FA_BLK">>, <<At(op, 3)>>,
               <<op.scratch[2]>>, <<nblk0, nblk1, m.ne[2] * m.ne[3]>>, 32),
           nblk0 * nblk1 * m.ne[2] * m.ne[3], ExtraBlk(op))

Padded(n, to) == to * CeilDiv(n, to)

\* FATTN_SMEM: queries, results, scores and mask of a group; a quantized cache is
\* unpacked there as well.
MatrixSimdgroups(op) == IF op.src[0].ne[0] >= 512 THEN 8 ELSE 4
MatrixSmem(op) ==
  LET isq == IF Type(op, 1) \in QuantTypes THEN 1 ELSE 0
  IN  Padded(2 * (NQPSG * (op.src[0].ne[0] + 2 * Padded(op.src[2].ne[0], 64) + 4 * NCPSG)
                  + isq * 16 * 32 * MatrixSimdgroups(op)), 16)
VecSimdgroups(op) == Doubled(1, AtMost(4, CeilDiv(op.src[1].ne[1], 2 * 32 * VEC_NCPSG)))
VecSmem(op) ==
  Padded(2 * VecSimdgroups(op) * (Padded(op.src[0].ne[0], 128) + 4 * VEC_NCPSG
                                  + 2 * Padded(op.src[2].ne[0], 128)), 16)

\* The padding and the blocks are read only where they were written.
AttnMatrix(op, dev) ==
  LET q   == op.src[0]
      has == AttnHas(op, NCPSG)
      nsg == MatrixSimdgroups(op)
      groups == CeilDiv(q.ne[1], NQPSG)
      main == Smem(Cover(Run(PipelineFlashAttnExt(op, has, nsg), <<op.op>>,
                Sources(op) \o (IF has.kvpad THEN <<op.scratch[1]>> ELSE <<>>)
                            \o (IF has.mask THEN <<op.scratch[2]>> ELSE <<>>),
                <<op.at>>, <<groups, q.ne[2], q.ne[3]>>, 32 * nsg),
              groups, NQPSG, q.ne[1]), MatrixSmem(op))
      first == (IF has.kvpad THEN <<PadKv(op, NCPSG)>> ELSE <<>>)
               \o (IF has.mask THEN <<MaskBlocks(op)>> ELSE <<>>)
  IN  IF first = <<>> THEN <<<<main>>>> ELSE <<first, <<main>>>>

\* The cache values are shared out to 32 workgroups, whose results are joined.
AttnVector(op, dev) ==
  LET q   == op.src[0]
      nwg == 32
      nsg == VecSimdgroups(op)
      has == AttnHas(op, VEC_NCPSG)
      nrows == op.ne[1] * op.ne[2] * op.ne[3]
      groups == CeilDiv(q.ne[1], VEC_NQPSG)
      main == Room(Smem(Cover(Run(PipelineFlashAttnExtVec(op, has, nsg, nwg), <<"FA_VEC">>,
                Sources(op) \o (IF has.kvpad THEN <<op.scratch[1]>> ELSE <<>>),
                <<op.scratch[3]>>, <<groups, q.ne[2], q.ne[3] * nwg>>, 32 * nsg),
              groups, VEC_NQPSG, q.ne[1]), VecSmem(op)),
            nrows * nwg * (op.src[2].ne[0] + 2), ExtraTmp(op))
      reduce == Run(PipelineFlashAttnExtVecReduce(op.src[2].ne[0], nwg), <<op.op>>,
                    <<op.scratch[3]>>, <<op.at>>, <<nrows, 1, 1>>, 32 * nwg)
  IN  (IF has.kvpad THEN <<<<PadKv(op, VEC_NCPSG)>>>> ELSE <<>>)
      \o <<<<main>>, <<reduce>>>>

OpFlashAttnExt(op, dev) == IF UseVec(op) THEN AttnVector(op, dev) ELSE AttnMatrix(op, dev)

-------------------------------------------------------------------------------
(* Operations that may be fused with the nodes after them.                    *)

\* ggml_can_fuse_ext for two nodes: nobody else in the graph
\* needs the first one's result.
CanFuse(nodes, i, op0, op1) ==
  /\ i + 1 <= Len(nodes)
  /\ nodes[i].op = op0 /\ nodes[i + 1].op = op1
  /\ nodes[i].uses = 1 /\ ~nodes[i].output
  /\ \E k \in DOMAIN nodes[i + 1].src : nodes[i + 1].src[k].id = nodes[i].id
  /\ nodes[i].ne = nodes[i + 1].ne

\* How many of the next nodes join: the pairs that can be fused, from idx on.
FuseCount(pairs, idx, most) ==
  1 + CHOOSE n \in 0..most :
        (\A k \in 0..(n - 1) : idx + k \in pairs) /\ (n = most \/ idx + n \notin pairs)

\* A chain of additions, each to the result so far, of tensors of one layout in
\* one Metal buffer.
AddPair_Faulty(nodes, i, idx) ==
  /\ CanFuse(nodes, i, "ADD", "ADD")
  /\ nodes[i].src[1].ne = nodes[i + 1].src[1].ne
  /\ nodes[i + 1].src[1].at[1] = nodes[idx].src[1].at[1]
AddPair(nodes, i, idx) ==
  /\ CanFuse(nodes, i, "ADD", "ADD")
  /\ nodes[i + 1].src[0].id = nodes[i].id
  /\ nodes[i].src[1].ne = nodes[i + 1].src[1].ne
  /\ nodes[i + 1].src[1].at[1] = nodes[idx].src[1].at[1]
BinFuse(nodes, idx, dev) ==
  LET pairs == {i \in idx..(idx + 7) : AddPair(nodes, i, idx)}
  IN  IF dev.use_fusion THEN FuseCount(pairs, idx, 7) ELSE 1

\* The fused tensors are found by their offsets in the buffer of the first one.
OpBin(nodes, idx, dev) ==
  LET op  == nodes[idx]
      nf  == BinFuse(nodes, idx, dev)
      req == PipelineBin(op, nf)
      ne0 == IF req.c4 THEN op.ne[0] \div 4 ELSE op.ne[0]
      nth == Doubled(1, AtMost(CeilDiv(ne0, 2), AtMost(256, dev.max)))
      src(k) == nodes[idx + k].src[1].at
      run(grid, n) == Run(req, [k \in 1..nf |-> nodes[idx + k - 1].op],
           <<At(op, 0)>> \o [k \in 1..nf |-> <<src(0)[1], src(k - 1)[2]>>],
           <<nodes[idx + nf - 1].at>>, grid, n)
  IN  One(IF req.cnt THEN run(<<ne0, Rows(op), 1>>, 1) ELSE run(NeRest(op.src[0]), nth))

OpL2Norm(op, dev) ==
  LET req  == PipelineL2Norm(op)
      ne00 == op.src[0].ne[0]
      nth  == AtMost(Doubled(32, AtMost(ne00, dev.max)), dev.max)
  IN  One(Smem(Simple(op, req, NeRest(op.src[0]), nth), req.smem))

OpGroupNorm(op, dev) ==
  LET req == PipelineGroupNorm(op)
  IN  One(Smem(Simple(op, req, <<op.par.groups, 1, 1>>, 32), req.smem))

\* A norm, the multiplication of its result, the addition to that.
NormPair(nodes, i, idx) ==
  /\ CanFuse(nodes, i, IF i = idx THEN nodes[idx].op ELSE "MUL",
             IF i = idx THEN "MUL" ELSE "ADD")
  /\ nodes[i + 1].src[0].id = nodes[i].id
  /\ nodes[i + 1].src[1].ne[0] = nodes[idx].ne[0]
  /\ nodes[i + 1].src[1].cont
  /\ nodes[i + 1].type = "f32"
NormFuse(nodes, idx, dev) ==
  LET pairs == {i \in idx..(idx + 2) : NormPair(nodes, i, idx)}
  IN  IF dev.use_fusion THEN FuseCount(pairs, idx, 2) ELSE 1

OpNorm(nodes, idx, dev) ==
  LET op  == nodes[idx]
      nf  == NormFuse(nodes, idx, dev)
      req == PipelineNorm(op, nf)
      ne00 == op.src[0].ne[0]
      n   == IF ne00 % 4 = 0 THEN ne00 \div 4 ELSE ne00
  IN  One(Smem(Run(req, [k \in 1..nf |-> nodes[idx + k - 1].op],
                   <<At(op, 0)>> \o [k \in 1..(nf - 1) |-> nodes[idx + k].src[1].at],
                   <<nodes[idx + nf - 1].at>>, NeRest(op.src[0]),
                   FromSimdWidth(n, dev.max)), req.smem))

-------------------------------------------------------------------------------
\* The positions are src[1]; one row for each group.
OpRope(op, dev) ==
  One(Simple(op, PipelineRope(op), NeRest(op.src[0]), AtMost(1024, op.src[0].ne[0])))

\* The patches of the input that meet the kernel; src0 only gives its size.
OpIm2col(op, dev) ==
  LET is_2D == op.par.is_2D
      KH == IF is_2D THEN op.src[0].ne[1] ELSE 1
      KW == op.src[0].ne[0]
      OH == IF is_2D THEN op.ne[2] ELSE 1
      N  == op.src[1].ne[IF is_2D THEN 3 ELSE 2]
      IC == op.src[1].ne[IF is_2D THEN 2 ELSE 1]
  IN  One(Run(PipelineIm2col(op), <<op.op>>, <<At(op, 1)>>, <<op.at>>,
              <<IC, OH, op.ne[1]>>, AtMost(dev.max \div (KH * KW), N) * KH * KW))

OpConv2d(op, dev) ==
  LET nth == Most(1, AtMost(dev.max, 256))
      n_out == Elements(op)
      tg  == Most(1, CeilDiv(n_out, nth))
  IN  One(Cover(Simple(op, PipelineConv2d(op), <<tg, 1, 1>>, nth), tg, nth, n_out))

\* par: the channels and the batch, which share a dimension of the tensors.
OpConv3d(op, dev) ==
  LET volume == op.ne[0] * op.ne[1] * op.ne[2]
      ntg0   == CeilDiv(volume, 32)
  IN  One(Cover(Simple(op, PipelineConv3d(op), <<ntg0, op.par.OC, op.par.N>>, 32),
                ntg0, 32, volume))

OpConvTranspose1d(op, dev) ==
  One(Simple(op, PipelineConvTranspose1d(op), <<op.ne[0], op.ne[1], 1>>, 1))

OpConvTranspose2d(op, dev) ==
  LET K == op.src[0].ne[0] * op.src[0].ne[1]
  IN  One(Smem(Simple(op, PipelineConvTranspose2d(op),
                      <<op.ne[0], op.ne[1], op.ne[2]>>, K), Padded(4 * K, 16)))

OpUpscale(op, dev) ==
  One(Simple(op, PipelineUpscale(op), NeRest(op), AtMost(dev.max, op.ne[0])))
OpRoll(op, dev) ==
  One(Simple(op, PipelineRoll(op), NeRest(op), AtMost(1024, op.ne[0])))
OpPad(op, dev) ==
  One(Simple(op, PipelinePad(op), NeRest(op), AtMost(1024, op.ne[0])))
OpPadReflect1d(op, dev) ==
  One(Simple(op, PipelinePadReflect1d(op), NeRest(op), AtMost(1024, op.ne[0])))
OpArange(op, dev) ==
  One(Simple(op, PipelineArange(op), <<1, 1, 1>>, AtMost(1024, op.ne[0])))
OpTimestepEmbedding(op, dev) ==
  One(Simple(op, PipelineTimestepEmbedding(op), <<op.src[0].ne[0], 1, 1>>,
             Most(1, AtMost(1024, op.par.dim \div 2))))

OpArgmax(op, dev) ==
  LET req == PipelineArgmax(op)
      t   == op.src[0]
  IN  One(Smem(Simple(op, req, <<Rows(t), 1, 1>>,
                      Doubled(32, AtMost(t.ne[0], CeilDiv(256, Rows(t))))), req.smem))

-------------------------------------------------------------------------------
(* Sorting.  Blocks of a row are sorted by one group each, then merged two by *)
(* two, to and fro between the result and the room behind it.  Which of the   *)
(* two the blocks are written to is fixed in advance by their number, so that *)
(* the last merge writes the result.                                          *)

\* How often 1 is doubled to reach n.
LogUp(n) == Cardinality({k \in 0..16 : Pow2[k] < n})

\* The merges of sorted runs of len, 2 len, ... up to total.
MergeThreads(op, len, dev) ==
  AtMost(512, IF op.op = "TOP_K" THEN AtMost(len, dev.max) ELSE dev.max)

Merges(op, req, len, total, here, there, dev) ==
  LET n == LogUp(CeilDiv(total, len))
      at(i) == IF i % 2 = 0 THEN here ELSE there
      merge(i) ==
        LET l  == len * Pow2[i - 1]
            nm == CeilDiv(total, 2 * l)
        IN  Cover(Run(req, IF i = n THEN <<op.op>> ELSE <<"MERGE">>,
                      <<At(op, 0), at(i - 1)>>, <<at(i)>>,
                      <<nm * op.src[0].ne[1], op.src[0].ne[2], op.src[0].ne[3]>>,
                      MergeThreads(op, l, dev)), nm, 2 * l, total)
  IN  [i \in 1..n |-> <<merge(i)>>]

\* kept: how much of a sorted block is kept.
SortedBlocks(op, req, kept, merge, dev) ==
  LET ne00 == op.src[0].ne[0]
      nth  == CumsumThreads(ne00, dev.max)
      npr  == CeilDiv(ne00, nth)
      k    == AtMost(nth, kept)
      odd  == LogUp(npr) % 2 = 1
      here == IF odd THEN op.scratch[1] ELSE op.at
      there == IF odd THEN op.at ELSE op.scratch[1]
      total == IF npr > 1 THEN (npr - 1) * k + AtMost(ne00 - (npr - 1) * nth, k) ELSE k
      blocks == Smem(Cover(Run(req, IF total <= k THEN <<op.op>> ELSE <<"BLOCKS">>,
                     <<At(op, 0)>>, <<here>>,
                     <<npr * op.src[0].ne[1], op.src[0].ne[2], op.src[0].ne[3]>>, nth),
                   npr, nth, ne00), Padded(4 * nth, 16))
  IN  One(blocks) \o Merges(op, merge, k, total, here, there, dev)

OpArgsort(op, dev) ==
  SortedBlocks(op, PipelineArgsort(op), op.src[0].ne[0], PipelineArgsortMerge(op), dev)

\* Only the first ne[0] of each block take part in the merges.
OpTopK(op, dev) ==
  SortedBlocks(op, PipelineTopK(op), op.ne[0], PipelineTopKMerge(op), dev)

-------------------------------------------------------------------------------
OpTri(op, dev) ==
  One(Simple(op, PipelineTri(op), NeRest(op.src[0]),
             FromSimdWidth(op.src[0].ne[0], dev.max)))

\* The optimizer steps update the weights, src0, in place; AdamW its moments too.
OptStep(op, req, out, dev) ==
  LET np  == Elements(op.src[0])
      nth == AtMost(dev.max, op.ne[0])
      n   == CeilDiv(np, nth)
  IN  One(Cover(Run(req, <<op.op>>, Sources(op), out, <<n, 1, 1>>, nth), n, nth, np))
OpOptStepAdamw(op, dev) ==
  OptStep(op, PipelineOptStepAdamw(op), <<At(op, 0), At(op, 2), At(op, 3)>>, dev)
OpOptStepSgd(op, dev) == OptStep(op, PipelineOptStepSgd(op), <<At(op, 0)>>, dev)

\* The groups add to the result, which is cleared first.
OpCountEqual(op, dev) ==
  LET req == PipelineCountEqual(op)
  IN  <<<<Run(PipelineMemset(op), <<"ZERO">>, <<>>, <<op.at>>, <<1, 1, 1>>, 1)>>,
        <<Smem(Run(req, <<op.op>>, Sources(op) \o <<op.at>>, <<op.at>>,
                   NeRest(op.src[0]), 32 * req.nsg), req.smem)>>>>

-------------------------------------------------------------------------------
(* ggml_metal_op_encode_impl: the operations by name.                         *)

BinOps   == {"ADD", "SUB", "MUL", "DIV"}
UnaryOps == {"SCALE", "FILL", "CLAMP", "LEAKY_RELU", "SQR", "SQRT", "SIN", "COS",
             "LOG", "UNARY"}
\* Nothing to compute.
NoOps    == {"NONE", "RESHAPE", "VIEW", "TRANSPOSE", "PERMUTE"}

\* The operations that are encoded: the program aborts on any other.
EncodedOps ==
  BinOps \cup UnaryOps \cup
  {"CONCAT", "ADD_ID", "REPEAT", "ACC", "GLU", "SUM", "SUM_ROWS", "MEAN", "CUMSUM",
   "SOFT_MAX", "SSM_CONV", "SSM_SCAN", "RWKV_WKV6", "RWKV_WKV7", "GATED_DELTA_NET",
   "SOLVE_TRI", "MUL_MAT", "MUL_MAT_ID", "GET_ROWS", "SET_ROWS", "DIAG", "L2_NORM",
   "GROUP_NORM", "NORM", "RMS_NORM", "ROPE", "IM2COL", "CONV_2D", "CONV_3D",
   "CONV_TRANSPOSE_1D", "CONV_TRANSPOSE_2D", "UPSCALE", "PAD", "PAD_REFLECT_1D",
   "ROLL", "ARANGE", "TIMESTEP_EMBEDDING", "ARGSORT", "TOP_K", "TRI",
   "FLASH_ATTN_EXT", "SET", "DUP", "CPY", "CONT", "POOL_1D", "POOL_2D", "ARGMAX",
   "OPT_STEP_ADAMW", "OPT_STEP_SGD", "COUNT_EQUAL"}

\* How many nodes the operation at idx takes.
Fused(nodes, idx, dev) ==
  CASE nodes[idx].op \in BinOps -> BinFuse(nodes, idx, dev)
    [] nodes[idx].op \in {"NORM", "RMS_NORM"} -> NormFuse(nodes, idx, dev)
    [] OTHER -> 1

Stages(nodes, idx, dev) ==
  LET op == nodes[idx]
      o  == op.op
  IN CASE o = "CONCAT" -> OpConcat(op, dev)
       [] o \in BinOps -> OpBin(nodes, idx, dev)
       [] o = "ADD_ID" -> OpAddId(op, dev)
       [] o = "REPEAT" -> OpRepeat(op, dev)
       [] o = "ACC" -> OpAcc(op, dev)
       [] o \in UnaryOps -> OpUnary(op, dev)
       [] o = "GLU" -> OpGlu(op, dev)
       [] o = "SUM" -> OpSum(op, dev)
       [] o \in {"SUM_ROWS", "MEAN"} -> OpSumRows(op, dev)
       [] o = "CUMSUM" -> OpCumsum(op, dev)
       [] o = "SOFT_MAX" -> OpSoftMax(op, dev)
       [] o = "SSM_CONV" -> OpSsmConv(op, dev)
       [] o = "SSM_SCAN" -> OpSsmScan(op, dev)
       [] o \in {"RWKV_WKV6", "RWKV_WKV7"} -> OpRwkv(op, dev)
       [] o = "GATED_DELTA_NET" -> OpGatedDeltaNet(op, dev)
       [] o = "SOLVE_TRI" -> OpSolveTri(op, dev)
       [] o = "MUL_MAT" -> OpMulMat(op, dev)
       [] o = "MUL_MAT_ID" -> OpMulMatId(op, dev)
       [] o = "GET_ROWS" -> OpGetRows(op, dev)
       [] o = "SET_ROWS" -> OpSetRows(op, dev)
       [] o = "DIAG" -> OpDiag(op, dev)
       [] o = "L2_NORM" -> OpL2Norm(op, dev)
       [] o = "GROUP_NORM" -> OpGroupNorm(op, dev)
       [] o \in {"NORM", "RMS_NORM"} -> OpNorm(nodes, idx, dev)
       [] o = "ROPE" -> OpRope(op, dev)
       [] o = "IM2COL" -> OpIm2col(op, dev)
       [] o = "CONV_2D" -> OpConv2d(op, dev)
       [] o = "CONV_TRANSPOSE_1D" -> OpConvTranspose1d(op, dev)
       [] o = "CONV_TRANSPOSE_2D" -> OpConvTranspose2d(op, dev)
       [] o = "CONV_3D" -> OpConv3d(op, dev)
       [] o = "UPSCALE" -> OpUpscale(op, dev)
       [] o = "PAD" -> OpPad(op, dev)
       [] o = "PAD_REFLECT_1D" -> OpPadReflect1d(op, dev)
       [] o = "ROLL" -> OpRoll(op, dev)
       [] o = "ARANGE" -> OpArange(op, dev)
       [] o = "TIMESTEP_EMBEDDING" -> OpTimestepEmbedding(op, dev)
       [] o = "ARGSORT" -> OpArgsort(op, dev)
       [] o = "TOP_K" -> OpTopK(op, dev)
       [] o = "TRI" -> OpTri(op, dev)
       [] o = "FLASH_ATTN_EXT" -> OpFlashAttnExt(op, dev)
       [] o = "SET" -> OpSet(op, dev)
       [] o \in {"DUP", "CPY", "CONT"} -> OpCpy(op, dev)
       [] o = "POOL_1D" -> OpPool1d(op, dev)
       [] o = "POOL_2D" -> OpPool2d(op, dev)
       [] o = "ARGMAX" -> OpArgmax(op, dev)
       [] o = "OPT_STEP_ADAMW" -> OpOptStepAdamw(op, dev)
       [] o = "OPT_STEP_SGD" -> OpOptStepSgd(op, dev)
       [] o = "COUNT_EQUAL" -> OpCountEqual(op, dev)
===============================================================================
