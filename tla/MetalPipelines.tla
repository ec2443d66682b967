---------------------------- MODULE MetalPipelines ----------------------------
(* The compute pipelines of the Metal device, ggml-metal-device.cpp: for      *)
(* every operation of a graph, the kernel it runs on (`base`), the function   *)
(* constants the kernel is compiled with (`consts`), the name the compiled    *)
(* pipeline is kept under in the library, and the parameters of its dispatch. *)
(* A tensor is a record: its type, its sizes ne[0..3], whether it is          *)
(* contiguous, and for the result of an operation also the operation, its     *)
(* parameters and its sources src[0..].  A base or a name is a record of the  *)
(* fields that are printed into it.                                           *)
EXTENDS Integers, TLC

CONSTANTS
  N_SG, N_R0,    \* ggml-metal-impl.h: simdgroups and rows of a quantized type
  NRA, NRB,      \* ggml-metal-impl.h: the tile of the tensor-unit matmul,
  N_MM_SG, N_MM_NK_TOTAL,  \* its simdgroups and its depth,
  NQPSG, NCPSG,            \* queries and cache values a simdgroup attends to,
  VEC_NQPSG, VEC_NCPSG     \* and the same of the vector kernel

FloatTypes == {"f32", "f16", "bf16"}
QuantTypes == {"q1_0", "q4_0", "q4_1", "q5_0", "q5_1", "q8_0", "mxfp4", "q2_K",
               "q3_K", "q4_K", "q5_K", "q6_K", "iq2_xxs", "iq2_xs", "iq3_xxs",
               "iq3_s", "iq2_s", "iq1_s", "iq1_m", "iq4_nl", "iq4_xs"}

ASSUME QuantAssumption ==
  /\ N_SG \in [QuantTypes -> Nat \ {0}] /\ N_R0 \in [QuantTypes -> Nat \ {0}]
  /\ {NRA, NRB, N_MM_SG, N_MM_NK_TOTAL, NQPSG, NCPSG, VEC_NQPSG, VEC_NCPSG}
       \subseteq Nat \ {0}

CeilDiv(a, b) == (a + b - 1) \div b
AtMost(a, b) == IF a <= b THEN a ELSE b
\* 1, doubled k times.
Pow2[k \in 0..16] == IF k = 0 THEN 1 ELSE 2 * Pow2[k - 1]
\* n, doubled until it reaches stop.
Doubled(n, stop) ==
  LET sizes == {n * Pow2[k] : k \in 0..12}
  IN  CHOOSE s \in sizes : s >= stop /\ \A r \in sizes : r >= stop => s <= r
Elements(t) == t.ne[0] * t.ne[1] * t.ne[2] * t.ne[3]
Rows(t) == t.ne[1] * t.ne[2] * t.ne[3]
Has(op, i) == i \in DOMAIN op.src
Type(op, i) == op.src[i].type
ByFour(t) == t.ne[0] % 4 = 0

\* A function constant set with ggml_metal_cv_set_int16 keeps 16 bits.
Int16(x) == ((x + 32768) % 65536) - 32768

-------------------------------------------------------------------------------
(* The library: compiled pipelines by name.  A pipeline found there comes     *)
(* without dispatch parameters, so every getter sets them itself.             *)

NoFields == [none |-> TRUE]

Request(base, fields, consts) ==
  [base |-> base, name |-> [base |-> base, with |-> fields], consts |-> consts,
   nsg |-> 0, nr0 |-> 0, nr1 |-> 0, smem |-> 0, c4 |-> FALSE, cnt |-> FALSE]

\* The kernel has no function constants and its own name is the key.
Plain(base) == Request(base, NoFields, NoFields)

NoPipelines == <<>>

\* Found under its name, or compiled and added under it.
Compiled(lib, req) ==
  IF req.name \in DOMAIN lib THEN lib
  ELSE [n \in DOMAIN lib \cup {req.name} |->
          IF n \in DOMAIN lib THEN lib[n] ELSE [base |-> req.base, consts |-> req.consts]]

-------------------------------------------------------------------------------
(* Kernels chosen by operation and types alone.                               *)

PipelineBase(op) == Plain([kernel |-> op.op])
PipelineCpy(tsrc, tdst) == Plain([kernel |-> "cpy", src |-> tsrc, dst |-> tdst])
PipelinePool1d(op) ==
  Plain([kernel |-> "pool_1d", mode |-> op.par.pool, src |-> Type(op, 0)])
PipelinePool2d(op) ==
  Plain([kernel |-> "pool_2d", mode |-> op.par.pool, src |-> Type(op, 0)])
PipelineGetRows(tsrc) == Plain([kernel |-> "get_rows", src |-> tsrc])
PipelineSetRows(tidx, tdst) ==
  Plain([kernel |-> "set_rows", dst |-> tdst, idx |-> tidx])
PipelineRepeat(tsrc) == Plain([kernel |-> "repeat", src |-> tsrc])
PipelineGlu(op) == Plain([kernel |-> op.par.glu, src |-> Type(op, 0)])
PipelineSum(op) == Plain([kernel |-> "op_sum", src |-> Type(op, 0)])
PipelineCumsumBlk(op) == Plain([kernel |-> "cumsum_blk", src |-> Type(op, 0)])
PipelineCumsumAdd(op) == Plain([kernel |-> "cumsum_add", src |-> Type(op, 0)])
PipelineTri(op) ==
  Plain([kernel |-> "tri", src |-> Type(op, 0), ttype |-> op.par.ttype])
PipelineSsmConv(op) ==
  Plain([kernel |-> "ssm_conv", src |-> Type(op, 0), src1 |-> Type(op, 1),
         v4 |-> ByFour(op.src[1])])
PipelineRwkv(op) == Plain([kernel |-> op.op, src |-> Type(op, 0)])
PipelineArgmax(op) ==
  [Plain([kernel |-> "argmax", src |-> Type(op, 0)]) EXCEPT !.smem = 32 * 8]
PipelineArgsort(op) ==
  Plain([kernel |-> "argsort", src |-> Type(op, 0), dst |-> op.type,
         order |-> op.par.order])
PipelineArgsortMerge(op) ==
  Plain([kernel |-> "argsort_merge", src |-> Type(op, 0), dst |-> op.type,
         order |-> op.par.order])
\* top_k runs on the kernels of a descending argsort, under their names.
PipelineTopK(op) ==
  Plain([kernel |-> "argsort", src |-> Type(op, 0), dst |-> op.type,
         order |-> "desc"])
PipelineTopKMerge(op) ==
  Plain([kernel |-> "argsort_merge", src |-> Type(op, 0), dst |-> op.type,
         order |-> "desc"])
PipelineGroupNorm(op) ==
  [Plain([kernel |-> "group_norm_f32"]) EXCEPT !.smem = 32 * 4]
PipelineIm2col(op) == Plain([kernel |-> "im2col", dst |-> op.type])
PipelineConvTranspose1d(op) ==
  Plain([kernel |-> "conv_transpose_1d", src |-> Type(op, 0), src1 |-> Type(op, 1)])
PipelineConvTranspose2d(op) ==
  Plain([kernel |-> "conv_transpose_2d", src |-> Type(op, 0), src1 |-> Type(op, 1)])
PipelineConv2d(op) ==
  Plain([kernel |-> "conv_2d", src |-> Type(op, 0), src1 |-> Type(op, 1)])
PipelineConv3d(op) ==
  Plain([kernel |-> "conv_3d", src |-> Type(op, 0), src1 |-> Type(op, 1)])
PipelineRoll(op) == Plain([kernel |-> "roll", src |-> Type(op, 0)])
PipelinePad(op) == Plain([kernel |-> "pad", src |-> Type(op, 0)])
PipelinePadReflect1d(op) == Plain([kernel |-> "pad_reflect_1d", src |-> Type(op, 0)])
PipelineArange(op) == Plain([kernel |-> "arange", dst |-> op.type])
PipelineTimestepEmbedding(op) ==
  Plain([kernel |-> "timestep_embedding", src |-> Type(op, 0)])
PipelineOptStepAdamw(op) == Plain([kernel |-> "opt_step_adamw", src |-> Type(op, 0)])
PipelineOptStepSgd(op) == Plain([kernel |-> "opt_step_sgd", src |-> Type(op, 0)])
PipelineMemset(op) == Plain([kernel |-> "memset", dst |-> op.type])

-------------------------------------------------------------------------------
(* Kernels chosen by shape, or specialised by function constants.             *)

PipelineDiag(op) ==
  [Request([kernel |-> "diag", src |-> Type(op, 0)],
           [n |-> op.src[0].ne[0]], NoFields) EXCEPT !.nsg = 1]

PipelineUnary(op) ==
  LET c4  == ByFour(op.src[0])
      cnt == op.src[0].cont /\ Elements(op) < 32768
      how == [op |-> op.par.unary, cnt |-> cnt]
  IN  [Request([kernel |-> "unary", src |-> Type(op, 0), dst |-> op.type,
                v4 |-> c4], how, how) EXCEPT !.c4 = c4, !.cnt = cnt]

PipelineSumRows(op) ==
  LET c4  == ByFour(op.src[0])
      how == [op |-> op.op]
  IN  [Request([kernel |-> "sum_rows", src |-> Type(op, 0), dst |-> op.type,
                v4 |-> c4], how, how)
       EXCEPT !.smem = 32 * 4 * (IF c4 THEN 4 ELSE 1), !.c4 = c4]

PipelineSoftMax(op) ==
  [Plain([kernel |-> "soft_max",
          src1 |-> IF Has(op, 1) THEN Type(op, 1) ELSE "f32",
          v4 |-> ByFour(op.src[0])]) EXCEPT !.smem = 32 * 4]

PipelineSsmConvBatched(op, bs) ==
  Request([kernel |-> "ssm_conv_batched", src |-> Type(op, 0),
           src1 |-> Type(op, 1), v4 |-> ByFour(op.src[1])],
          [ssm_conv_bs |-> bs], [ssm_conv_bs |-> Int16(bs)])

\* One name per number of simdgroups, and no constant behind it.
PipelineSsmScan(op) ==
  LET nsg == CeilDiv(op.src[0].ne[0], 32)
  IN  [Request([kernel |-> "ssm_scan", src |-> Type(op, 0)], [nsg |-> nsg],
               NoFields) EXCEPT !.smem = (32 + 2) * 4 * nsg]

PipelineGatedDeltaNet(op) ==
  LET ne20 == op.src[2].ne[0]
      ne30 == op.src[3].ne[0]
      nsg  == ne20 \div 32
  IN  [Request([kernel |-> "gated_delta_net", src |-> Type(op, 0), nsg |-> nsg],
               [ne20 |-> ne20, ne30 |-> ne30],
               [ne20 |-> Int16(ne20), ne30 |-> Int16(ne30)]) EXCEPT !.nsg = nsg]

PipelineSolveTri(op) ==
  LET n == op.src[1].ne[1]
      k == op.src[1].ne[0]
  IN  [Request([kernel |-> "solve_tri", src |-> Type(op, 0)],
               [nsg |-> 8, n |-> n, k |-> k],
               [nsg |-> 8, n |-> Int16(n), k |-> Int16(k)])
       EXCEPT !.nsg = 8, !.smem = 16 * CeilDiv(32 * CeilDiv(n, 32) * 8 * 4, 16)]

PipelineMulMvExt(tsrc0, tsrc1, nsg, nxpsg, r1ptg) ==
  LET how == [nsg |-> nsg, nxpsg |-> nxpsg]
  IN  Request([kernel |-> "mul_mv_ext", src |-> tsrc0, src1 |-> tsrc1,
               r1 |-> r1ptg], how, how)

\* The f16 x f32 kernel with 64x64 tiles has no bounds checks at all.
UseN64(op, dev) ==
  /\ dev.matmul_n64 /\ ~dev.has_tensor
  /\ Type(op, 0) = "f16" /\ Type(op, 1) = "f32"
  /\ op.src[0].ne[0] % 32 = 0
  /\ op.ne[0] % 64 = 0 /\ op.ne[1] % 64 = 0

PipelineMulMm(op, dev) ==
  LET bci == op.src[0].ne[0] % 32 # 0
      nr0 == IF dev.has_tensor THEN NRA ELSE 64
      nr1 == IF dev.has_tensor THEN NRB ELSE 32
      bco == op.ne[0] % nr0 # 0 \/ op.ne[1] % nr1 # 0
      how == [bci |-> bci, bco |-> bco]
  IN  IF UseN64(op, dev)
      THEN [Plain([kernel |-> "mul_mm_f16_f32_n64"])
            EXCEPT !.nr0 = 64, !.nr1 = 64, !.nsg = 8, !.smem = 4096 + 4096]
      ELSE [Request([kernel |-> "mul_mm", src |-> Type(op, 0),
                     src1 |-> Type(op, 1)], how, how)
            EXCEPT !.nr0 = nr0, !.nr1 = nr1, !.nsg = N_MM_SG,
                   !.smem = IF dev.has_tensor THEN NRA * N_MM_NK_TOTAL * 2
                            ELSE IF bco THEN 8192 ELSE 4096 + 2048]

\* What a matrix x vector kernel needs for a quantized src0.
QuantSmem(type) ==
  CASE type = "q8_0" -> 32 * 4 * N_R0[type]
    [] type \in {"mxfp4", "iq4_nl", "iq4_xs"} -> 32 * 4
    [] type = "iq2_xxs" -> 256 * 8 + 128
    [] type = "iq2_xs" -> 512 * 8 + 128
    [] type = "iq3_xxs" -> 256 * 4 + 128
    [] type = "iq3_s" -> 512 * 4
    [] OTHER -> 0

\* short: rows below 32 have a kernel of their own.
MatVec(kernel, op, short) ==
  LET ne00  == op.src[0].ne[0]
      float == Type(op, 0) \in FloatTypes
      nsg   == IF short THEN 1
               ELSE IF float THEN AtMost(4, CeilDiv(ne00, 128)) ELSE N_SG[Type(op, 0)]
      nr0   == IF short THEN 32 ELSE IF float THEN 2 ELSE N_R0[Type(op, 0)]
  IN  [Request([kernel |-> kernel, src |-> Type(op, 0), src1 |-> Type(op, 1),
                short |-> short, v4 |-> float /\ ~short /\ ne00 % 4 = 0],
               [nsg |-> nsg], [nsg |-> nsg])
       EXCEPT !.nsg = nsg, !.nr0 = nr0, !.nr1 = 1,
              !.smem = IF short THEN 0 ELSE IF float THEN 32 * 4 * nr0
                       ELSE QuantSmem(Type(op, 0))]

PipelineMulMv_Faulty(op) ==
  LET p == MatVec("mul_mv", op, Type(op, 0) \in FloatTypes /\ op.src[0].ne[0] < 32)
  IN  [p EXCEPT !.name.with = NoFields]
PipelineMulMv(op) ==
  MatVec("mul_mv", op, Type(op, 0) \in FloatTypes /\ op.src[0].ne[0] < 32)

PipelineMulMmIdMap0(ne02, ne20) ==
  [Request([kernel |-> "mul_mm_id_map0", ne20 |-> ne20], [ne02 |-> ne02], NoFields)
   EXCEPT !.smem = ne02 * ne20 * 2]

PipelineMulMmId(op) ==
  LET how == [bci |-> op.src[0].ne[0] % 32 # 0]
  IN  [Request([kernel |-> "mul_mm_id", src |-> Type(op, 0), src1 |-> Type(op, 1)],
               how, how) EXCEPT !.smem = 8192]

PipelineMulMvId(op) == MatVec("mul_mv_id", op, FALSE)

-------------------------------------------------------------------------------
(* Attention, element-wise operations, normalisation, positions.              *)

PipelineFlashAttnExtPad(hasMask, ncpsg) ==
  LET how == [mask |-> hasMask, ncpsg |-> ncpsg]
  IN  Request([kernel |-> "flash_attn_ext_pad"], how, how)

PipelineFlashAttnExtBlk(nqptg, ncpsg) ==
  LET how == [nqptg |-> nqptg, ncpsg |-> ncpsg]
  IN  Request([kernel |-> "flash_attn_ext_blk"], how, how)

AttnBase(kernel, op) ==
  [kernel |-> kernel, kv |-> Type(op, 1), dk |-> op.src[1].ne[0],
   dv |-> op.src[2].ne[0]]

\* has: which of mask, sinks, bias, logit softcap and k/v padding there are.
\* ns: how far apart the rows of k and v are.
PipelineFlashAttnExt(op, has, nsg) ==
  LET how == has @@ [bcm |-> Has(op, 3) /\ op.src[3].ne[1] % 8 # 0,
                     ns10 |-> op.src[1].ns, ns20 |-> op.src[2].ns, nsg |-> nsg]
  IN  Request(AttnBase("flash_attn_ext", op), how, how)

PipelineFlashAttnExtVec(op, has, nsg, nwg) ==
  LET how == has @@ [ns10 |-> op.src[1].ns, ns20 |-> op.src[2].ns,
                     nsg |-> nsg, nwg |-> nwg]
  IN  Request(AttnBase("flash_attn_ext_vec", op), how, how)

PipelineFlashAttnExtVecReduce(dv, nwg) ==
  LET how == [dv |-> dv, nwg |-> nwg]
  IN  Request([kernel |-> "flash_attn_ext_vec_reduce"], how, how)

PipelineBin(op, n_fuse) ==
  LET c4 == ByFour(op.src[0]) /\ ByFour(op.src[1])
      rb == /\ op.src[0].cont /\ op.src[1].cont
            /\ Rows(op.src[1]) = 1 /\ Elements(op) < 65536
      how == [op |-> op.op, nf |-> n_fuse, rb |-> rb,
              cb |-> op.src[0].ne[0] # op.src[1].ne[0]]
  IN  [Request([kernel |-> "bin_fuse", src |-> Type(op, 0), src1 |-> Type(op, 1),
                dst |-> op.type, v4 |-> c4], how, how)
       EXCEPT !.c4 = c4, !.cnt = rb]

\* The constant cb is left unset, and is no part of the name either.
PipelineBinOne(opname) ==
  Request([kernel |-> "bin_fuse", src |-> "f32", src1 |-> "f32", dst |-> "f32",
           v4 |-> FALSE],
          [op |-> opname, nf |-> 1], [op |-> opname, nf |-> 1, rb |-> FALSE])

PipelineL2Norm(op) ==
  [Plain([kernel |-> "l2_norm", src |-> Type(op, 0), dst |-> op.type,
          v4 |-> ByFour(op.src[0])])
   EXCEPT !.c4 = ByFour(op.src[0]), !.smem = 32 * 4]

\* Rows of 1280, the width of whisper's large models, have kernels of their own.
PipelineNorm(op, n_fuse) ==
  [Plain([kernel |-> op.op, nf |-> n_fuse, v4 |-> ByFour(op),
          whisper_1280 |-> op.op = "NORM" /\ op.ne[0] = 1280])
   EXCEPT !.smem = 32 * 4]

PipelineRope(op) ==
  LET mode == op.par.mode
      kind == CASE mode = "NEOX" -> "neox"
                [] mode \in {"MROPE", "IMROPE"} -> "multi"
                [] mode = "VISION" -> "vision"
                [] OTHER -> "norm"
  IN  Request([kernel |-> "rope", kind |-> kind, src |-> Type(op, 0)],
              [imrope |-> mode = "IMROPE"], [imrope |-> mode = "IMROPE"])

PipelineUpscale(op) ==
  LET how == [aa |-> op.par.antialias]
  IN  Request([kernel |-> "upscale", mode |-> op.par.scale, src |-> Type(op, 0)],
              how, how)

PipelineCountEqual(op) ==
  LET nsg == Doubled(1, AtMost(CeilDiv(op.src[0].ne[0], 32), 32))
      how == [nsg |-> nsg]
  IN  [Request([kernel |-> "count_equal", src |-> Type(op, 0)], how, how)
       EXCEPT !.smem = 32 * 4, !.nsg = nsg]
===============================================================================
