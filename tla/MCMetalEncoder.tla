---------------------------- MODULE MCMetalEncoder ----------------------------
(* Graphs and devices for MetalEncoder: for each operation one graph of       *)
(* independent nodes, a node for each of the ways the code treats the         *)
(* operation (its types, sizes at the limits, modes), and graphs of nodes     *)
(* that depend on each other, share memory or can be fused.                   *)
EXTENDS MetalEncoder

MCN_R0 == [t \in QuantTypes |->
             CASE t \in {"q4_0", "q4_1", "q5_0", "q5_1", "q2_K"} -> 4
               [] t \in {"q5_K"} -> 1
               [] t \in {"q8_0", "q3_K", "q4_K", "q6_K", "mxfp4", "iq4_nl", "iq4_xs"} -> 2
               [] OTHER -> 4]
MCN_SG == [t \in QuantTypes |-> IF t = "q8_0" THEN 4 ELSE 2]

Device(max, tensor, n64, mm, fusion) ==
  [max |-> max, has_tensor |-> tensor, matmul_n64 |-> n64, has_simdgroup_mm |-> mm,
   use_fusion |-> fusion, max_smem |-> 32768]
\* With everything; kernels of many registers, which run fewer threads; without
\* simdgroup matrices or fusion.
MCDevices == {Device(1024, FALSE, TRUE, TRUE, TRUE), Device(896, TRUE, FALSE, TRUE, TRUE),
              Device(512, FALSE, FALSE, FALSE, FALSE)}

-------------------------------------------------------------------------------
Sh(type, a, b, c, d) ==
  [type |-> type, ne |-> (0 :> a) @@ (1 :> b) @@ (2 :> c) @@ (3 :> d)]
F(a, b) == Sh("f32", a, b, 1, 1)
H(a, b) == Sh("f16", a, b, 1, 1)
I(a, b) == Sh("i32", a, b, 1, 1)

Par == [inplace |-> FALSE, unary |-> "gelu", glu |-> "swiglu", pool |-> "avg",
        ttype |-> "lower", order |-> "asc", mode |-> "NORMAL", scale |-> "nearest",
        antialias |-> FALSE, bias |-> FALSE, softcap |-> FALSE, groups |-> 2,
        is_2D |-> TRUE, OC |-> 2, N |-> 1, dim |-> 8]

WithScratch == {"CUMSUM", "MUL_MAT_ID", "FLASH_ATTN_EXT", "ARGSORT", "TOP_K"}
Tensor(id, op, par, sh, srcs, at) ==
  [id |-> id, op |-> op, type |-> sh.type, ne |-> sh.ne, par |-> par,
   src |-> [i \in 0..(Len(srcs) - 1) |-> srcs[i + 1]], at |-> at,
   scratch |-> IF op \in WithScratch THEN [k \in 1..3 |-> <<at[1], at[2] + k>>] ELSE <<>>,
   uses |-> 0, output |-> FALSE, cont |-> TRUE, transposed |-> FALSE, ns |-> sh.ne[0],
   blck |-> CASE sh.type \notin QuantTypes -> 1
              [] sh.type \in {"q4_0", "q8_0", "iq4_nl"} -> 32 [] OTHER -> 256,
   compute |-> TRUE]
Leaf(id, sh, at) == Tensor(id, "NONE", Par, sh, <<>>, at)
Place(n) == <<"heap", n>>

\* The graph counts how often each node is used.
Graph(nodes, cut) ==
  LET uses(t) == Cardinality({<<i, k>> \in (DOMAIN nodes) \X (0..9) :
                   k \in DOMAIN nodes[i].src /\ nodes[i].src[k].id = t.id})
  IN  [nodes |-> [i \in DOMAIN nodes |-> [nodes[i] EXCEPT !.uses = uses(nodes[i])]], cut |-> cut]

\* A variant: <<operation, parameters, result, sources>>.
InPlace == {"OPT_STEP_SGD"}
Family(variants) ==
  LET node(k) ==
        LET v == variants[k]
            n == 100 * k
        IN  Tensor(n, v[1], v[2], v[3],
                   [j \in DOMAIN v[4] |-> Leaf(n + j, v[4][j], Place(n + 10 * j))],
                   Place(IF v[1] \in InPlace \/ v[2].inplace THEN n + 10 ELSE n))
      nodes == [k \in DOMAIN variants |-> node(k)]
  IN  Graph(nodes, Len(nodes) \div 2)

V(op, out, ins) == <<op, Par, out, ins>>
P(op, par, out, ins) == <<op, par, out, ins>>

Elementwise == {
  Family(<<V("CONCAT", F(8, 3), <<F(4, 3), F(4, 3)>>),
           V("CONCAT", F(2000, 1), <<F(1000, 1), F(1000, 1)>>),
           V("ADD_ID", F(16, 4), <<F(16, 4), F(16, 8), I(2, 4)>>),
           V("REPEAT", F(8, 4), <<F(4, 2)>>)>>),
  Family(<<V("ADD", F(8, 4), <<F(8, 4), F(8, 4)>>), V("ADD", F(6, 4), <<F(6, 4), F(6, 1)>>),
           V("MUL", F(8, 4), <<F(8, 4), F(1, 4)>>), V("SUB", F(5, 2), <<F(5, 2), F(1, 1)>>),
           V("DIV", F(1280, 3), <<F(1280, 3), F(1280, 1)>>),
           V("ADD", F(512, 200), <<F(512, 200), F(512, 1)>>)>>),
  Family(<<P("ACC", [Par EXCEPT !.inplace = TRUE], F(8, 4), <<F(8, 4), F(8, 2)>>),
           V("ACC", F(8, 4), <<F(8, 4), F(4, 2)>>), V("ADD", F(7, 4), <<F(7, 4), F(7, 4)>>)>>),
  Family(<<V("UNARY", F(8, 4), <<F(8, 4)>>), V("UNARY", F(6, 4), <<F(6, 4)>>),
           P("UNARY", [Par EXCEPT !.unary = "relu"], H(6, 4), <<H(6, 4)>>),
           V("SCALE", F(1280, 64), <<F(1280, 64)>>), V("LOG", F(1500, 30), <<F(1500, 30)>>),
           P("CLAMP", [Par EXCEPT !.unary = "clamp"], F(6, 4), <<F(6, 4)>>)>>),
  Family(<<V("GLU", F(4, 3), <<F(8, 3)>>), V("GLU", F(2560, 3), <<F(5120, 3)>>),
           P("GLU", [Par EXCEPT !.glu = "geglu"], F(4, 3), <<F(4, 3), F(4, 3)>>),
           V("TRI", F(4, 4), <<F(4, 4)>>),
           P("TRI", [Par EXCEPT !.ttype = "upper"], F(700, 700), <<F(700, 700)>>)>>)}

Reductions == {
  Family(<<V("SUM", F(1, 1), <<F(5, 1)>>), V("SUM", F(1, 1), <<F(900, 900)>>),
           V("SUM_ROWS", F(1, 3), <<F(6, 3)>>), V("SUM_ROWS", F(1, 3), <<F(384, 3)>>),
           V("MEAN", F(1, 3), <<F(6, 3)>>), V("MEAN", F(1, 3), <<F(384, 3)>>)>>),
  Family(<<V("CUMSUM", F(6, 2), <<F(6, 2)>>), V("CUMSUM", F(1025, 2), <<F(1025, 2)>>)>>),
  Family(<<V("SOFT_MAX", F(1500, 8), <<F(1500, 8)>>), V("SOFT_MAX", F(30, 1), <<F(30, 1), H(30, 1)>>),
           V("SOFT_MAX", F(32, 4), <<F(32, 4), F(32, 4)>>),
           V("ARGMAX", I(3, 1), <<F(900, 3)>>), V("DIAG", F(7, 7), <<F(7, 1)>>)>>),
  Family(<<V("SSM_CONV", F(8, 1), <<F(4, 8), F(4, 8)>>), V("SSM_CONV", F(8, 3), <<F(6, 8), F(4, 8)>>),
           V("SSM_CONV", F(8, 200), <<F(203, 8), F(3, 8)>>),
           V("SSM_SCAN", F(64, 1), <<Sh("f32", 16, 8, 2, 1), Sh("f32", 8, 2, 4, 1), F(2, 4), F(16, 2),
                                    F(16, 4), F(16, 4), I(1, 1)>>),
           V("SSM_SCAN", F(64, 1), <<Sh("f32", 128, 8, 2, 1), Sh("f32", 8, 2, 4, 1), F(2, 4), F(128, 2),
                                    F(128, 4), F(128, 4), I(1, 1)>>)>>),
  Family(<<V("RWKV_WKV6", F(128, 6), <<Sh("f32", 64, 2, 4, 1), F(64, 2), F(64, 2), F(64, 2),
                                      F(64, 2), F(128, 1)>>),
           V("RWKV_WKV7", F(128, 6), <<Sh("f32", 64, 2, 4, 1), F(64, 2), F(64, 2), F(64, 2),
                                      F(64, 2), F(64, 2), F(128, 1)>>),
           V("GATED_DELTA_NET", F(128, 4), <<Sh("f32", 64, 2, 4, 1), Sh("f32", 64, 2, 4, 1),
              Sh("f32", 64, 2, 4, 1), F(1, 2), F(1, 2), F(64, 64)>>),
           V("SOLVE_TRI", F(9, 16), <<F(16, 16), F(9, 16)>>),
           V("SOLVE_TRI", F(8, 64), <<F(64, 64), F(8, 64)>>)>>),
  Family(<<V("NORM", F(384, 3), <<F(384, 3)>>), V("NORM", F(1280, 3), <<F(1280, 3)>>),
           V("NORM", F(6, 3), <<F(6, 3)>>), V("RMS_NORM", F(1280, 3), <<F(1280, 3)>>),
           V("L2_NORM", F(64, 3), <<F(64, 3)>>), V("L2_NORM", F(65, 3), <<F(65, 3)>>)>>),
  Family(<<V("GROUP_NORM", F(64, 4), <<F(64, 4)>>),
           V("COUNT_EQUAL", Sh("i64", 1, 1, 1, 1), <<I(70, 3), I(70, 3)>>),
           V("COUNT_EQUAL", Sh("i64", 1, 1, 1, 1), <<I(2000, 1), I(2000, 1)>>)>>)}

Mat(t0, t1, k, m, n) == V("MUL_MAT", F(m, n), <<Sh(t0, k, m, 1, 1), Sh(t1, k, n, 1, 1)>>)
Products == {
  Family(<<Mat("f16", "f32", 64, 100, 1), Mat("f16", "f32", 384, 100, 1),
           Mat("f32", "f32", 24, 5, 1), Mat("f16", "f16", 384, 100, 1),
           Mat("f32", "f32", 30, 100, 3), Mat("f16", "f32", 1500, 64, 1)>>),
  Family(<<Mat("q4_0", "f32", 384, 51, 1), Mat("q8_0", "f32", 384, 51, 1),
           Mat("q5_K", "f32", 256, 7, 1), Mat("iq2_xs", "f32", 256, 8, 1),
           Mat("iq4_nl", "f32", 256, 8, 1), Mat("q1_0", "f32", 256, 9, 1)>>),
  Family(<<Mat("f16", "f32", 384, 384, 2), Mat("f16", "f32", 256, 384, 2),
           Mat("f16", "f32", 384, 51, 5), Mat("q4_0", "f32", 384, 50, 6),
           Mat("q4_K", "f32", 256, 50, 8), Mat("q4_K", "f32", 256, 50, 3)>>),
  Family(<<Mat("f16", "f32", 384, 384, 1500), Mat("f16", "f32", 384, 1536, 64),
           Mat("f16", "f32", 100, 63, 9), Mat("q8_0", "f32", 384, 128, 65),
           Mat("f32", "f32", 64, 64, 128), Mat("bf16", "f32", 80, 64, 9)>>),
  Family(<<V("MUL_MAT_ID", Sh("f32", 70, 2, 40, 1),
             <<Sh("q4_0", 256, 70, 8, 1), Sh("f32", 256, 2, 40, 1), I(2, 40)>>),
           V("MUL_MAT_ID", Sh("f32", 70, 2, 3, 1),
             <<Sh("q8_0", 256, 70, 8, 1), Sh("f32", 256, 2, 3, 1), I(2, 3)>>),
           V("MUL_MAT_ID", Sh("f32", 70, 2, 3, 1),
             <<Sh("f16", 100, 70, 8, 1), Sh("f32", 100, 2, 3, 1), I(2, 3)>>)>>)}

Moves == {
  Family(<<V("GET_ROWS", F(384, 5), <<H(384, 90), I(5, 1)>>),
           V("GET_ROWS", F(2560, 5), <<F(2560, 90), I(5, 1)>>),
           V("GET_ROWS", F(384, 5), <<Sh("q8_0", 384, 90, 1, 1), I(5, 1)>>),
           V("CPY", H(64, 3), <<F(64, 3), H(64, 3)>>), V("DUP", F(3000, 2), <<F(3000, 2)>>),
           V("CPY", Sh("q8_0", 64, 3, 1, 1), <<F(64, 3), Sh("q8_0", 64, 3, 1, 1)>>)>>),
  Family(<<V("CPY", F(64, 3), <<Sh("q4_0", 64, 3, 1, 1), F(64, 3)>>),
           V("SET_ROWS", H(384, 90), <<F(384, 5), Sh("i64", 5, 1, 1, 1), H(384, 90)>>),
           V("SET_ROWS", H(8, 90), <<F(8, 70), I(70, 1), H(8, 90)>>),
           V("SET_ROWS", Sh("q8_0", 512, 90, 1, 1), <<F(512, 5), I(5, 1), Sh("q8_0", 512, 90, 1, 1)>>),
           V("SET", F(8, 4), <<F(8, 4), F(8, 2)>>),
           P("SET", [Par EXCEPT !.inplace = TRUE], F(8, 4), <<F(8, 4), F(4, 2)>>)>>),
  Family(<<V("ROPE", F(64, 6), <<F(64, 6), I(6, 1)>>),
           P("ROPE", [Par EXCEPT !.mode = "NEOX"], F(64, 6), <<F(64, 6), I(6, 1)>>),
           P("ROPE", [Par EXCEPT !.mode = "MROPE"], F(64, 6), <<F(64, 6), I(24, 1)>>),
           P("ROPE", [Par EXCEPT !.mode = "IMROPE"], F(64, 6), <<F(64, 6), I(24, 1)>>),
           P("ROPE", [Par EXCEPT !.mode = "VISION"], F(64, 6), <<F(64, 6), I(24, 1)>>)>>),
  Family(<<V("UPSCALE", F(16, 8), <<F(8, 4)>>),
           P("UPSCALE", [Par EXCEPT !.scale = "bilinear", !.antialias = TRUE], F(16, 8), <<F(8, 4)>>),
           V("PAD", F(16, 8), <<F(8, 4)>>), V("PAD_REFLECT_1D", F(3000, 2), <<F(2996, 2)>>),
           V("ROLL", F(1600, 2), <<F(1600, 2)>>)>>),
  Family(<<V("ARANGE", F(1500, 1), <<>>), V("TIMESTEP_EMBEDDING", F(8, 5), <<F(5, 1)>>),
           V("OPT_STEP_SGD", F(70, 30), <<F(70, 30), F(70, 30), F(2, 1)>>),
           P("POOL_1D", [Par EXCEPT !.pool = "max"], F(700, 3), <<F(1400, 3)>>),
           V("POOL_2D", F(7, 3), <<F(14, 6)>>), P("POOL_2D", [Par EXCEPT !.pool = "max"], F(7, 3), <<F(14, 6)>>)>>)}

Convolutions == {
  Family(<<P("IM2COL", [Par EXCEPT !.is_2D = FALSE], H(240, 3000), <<H(3, 80), F(3000, 80)>>),
           V("IM2COL", Sh("f32", 27, 4, 4, 1), <<Sh("f16", 3, 3, 3, 8), Sh("f32", 6, 6, 3, 1)>>),
           V("CONV_2D", Sh("f32", 4, 4, 8, 1), <<Sh("f16", 3, 3, 3, 8), Sh("f32", 6, 6, 3, 1)>>),
           V("CONV_3D", Sh("f32", 4, 4, 3, 2), <<Sh("f16", 3, 3, 3, 8), Sh("f32", 6, 6, 5, 3)>>)>>),
  Family(<<V("CONV_TRANSPOSE_1D", F(12, 8), <<Sh("f16", 3, 8, 4, 1), F(4, 4)>>),
           V("CONV_TRANSPOSE_2D", Sh("f32", 8, 8, 2, 1), <<Sh("f16", 2, 2, 2, 4), Sh("f32", 4, 4, 4, 1)>>)>>)}

Sorts == {
  Family(<<V("ARGSORT", I(10, 2), <<F(10, 2)>>), V("ARGSORT", I(3000, 2), <<F(3000, 2)>>)>>),
  Family(<<V("ARGSORT", I(2000, 2), <<F(2000, 2)>>), V("TOP_K", I(40, 2), <<F(3000, 2)>>)>>),
  Family(<<P("ARGSORT", [Par EXCEPT !.order = "desc"], I(6000, 1), <<F(6000, 1)>>),
           V("TOP_K", I(1000, 1), <<F(2500, 1)>>)>>),
  Family(<<V("TOP_K", I(3, 2), <<F(5, 2)>>), V("TOP_K", I(40, 2), <<F(1500, 2)>>)>>)}

\* q: d x n queries x heads; k and v: d x n_kv x heads; mask: n_kv x n queries.
Attn(par, d, n, n_kv, masked) ==
  P("FLASH_ATTN_EXT", par, Sh("f32", d, 2, n, 1),
    <<Sh("f32", d, n, 2, 1), Sh("f16", d, n_kv, 2, 1), Sh("f16", d, n_kv, 2, 1)>>
    \o IF masked THEN <<Sh("f16", n_kv, n, 1, 1)>> ELSE <<>>)
Attentions == {
  Family(<<Attn(Par, 64, 1500, 1536, FALSE), Attn(Par, 64, 100, 4096, TRUE)>>),
  Family(<<Attn(Par, 64, 1, 256, TRUE), Attn(Par, 64, 1, 1500, FALSE)>>),
  Family(<<Attn(Par, 64, 5, 250, TRUE), Attn([Par EXCEPT !.softcap = TRUE], 80, 20, 64, TRUE)>>),
  Family(<<Attn([Par EXCEPT !.bias = TRUE], 128, 19, 64, TRUE), Attn(Par, 576, 40, 65, TRUE)>>)}

-------------------------------------------------------------------------------
(* Graphs of nodes that depend on each other.                                 *)

X(id, op, sh, srcs, n) == Tensor(id, op, Par, sh, srcs, Place(n))
L(id, sh) == Leaf(id, sh, Place(10 * id))
Cuts(nodes) == {Graph(nodes, c) : c \in 0..Len(nodes)}

x == L(101, F(384, 3))
w == L(102, F(384, 1))
b == L(103, F(384, 1))
v == L(104, F(384, 3))
other == Leaf(105, F(384, 3), <<"weights", 7>>)

\* The layer norm of whisper: NORM, MUL by the weights, ADD the bias.
LayerNorm ==
  LET n == X(1, "NORM", F(384, 3), <<x>>, 1)
      m == X(2, "MUL", F(384, 3), <<n, w>>, 11)
      a == X(3, "ADD", F(384, 3), <<m, b>>, 1)
  IN  <<n, m, a>>
\* The weights of the fused multiplication are computed just before.
LateWeights ==
  LET g == X(4, "SCALE", F(384, 1), <<w>>, 41)
      n == X(1, "NORM", F(384, 3), <<x>>, 1)
      m == X(2, "MUL", F(384, 3), <<n, g>>, 11)
  IN  <<g, n, m>>
\* The normalised tensor is used a second time: it must be kept.
UsedTwice ==
  LET n == X(1, "NORM", F(384, 3), <<x>>, 1)
      m == X(2, "MUL", F(384, 3), <<n, w>>, 11)
      a == X(3, "ADD", F(384, 3), <<m, n>>, 21)
  IN  <<n, m, a>>
Sums(second) ==
  LET a1 == X(1, "ADD", F(384, 3), <<x, v>>, 1)
      a2 == X(2, "ADD", F(384, 3), <<a1, second>>, 11)
      a3 == X(3, "ADD", F(384, 3), <<a2, v>>, 1)
  IN  <<a1, a2, a3>>
\* The result of the first addition is the second operand of the next.
OtherSide ==
  LET a1 == X(1, "ADD", F(384, 3), <<x, v>>, 1)
      a2 == X(2, "ADD", F(384, 3), <<v, a1>>, 11)
  IN  <<a1, a2>>
\* Keys and values of a token go to the cache while its queries are computed;
\* the attention reads the cache.
KvStore ==
  LET k == L(106, Sh("f16", 64, 32, 2, 1))
      q == X(1, "MUL_MAT", F(128, 32), <<L(107, H(384, 128)), L(114, F(384, 32))>>, 1)
      c == X(2, "CPY", Sh("f16", 64, 32, 2, 1), <<L(108, Sh("f32", 64, 32, 2, 1)), k>>, 1060)
      f == Tensor(3, "FLASH_ATTN_EXT", Par, Sh("f32", 64, 2, 32, 1),
             <<[q EXCEPT !.ne = Sh("f32", 64, 32, 2, 1).ne], [k EXCEPT !.id = 109], k,
               L(110, Sh("f16", 32, 32, 1, 1))>>, Place(21))
  IN  <<q, c, f>>
\* The memory of a tensor that is needed no more is written again.
Reuse ==
  LET a == X(1, "SCALE", F(384, 3), <<x>>, 1)
      s == X(2, "SOFT_MAX", F(384, 3), <<a>>, 11)
      r == X(3, "SQR", F(384, 3), <<v>>, 1)
      d == X(4, "MUL", F(384, 3), <<s, r>>, 21)
  IN  <<a, s, r, d>>
\* Two sorts whose intermediate room is the same memory.
SharedRoom ==
  LET s1 == Tensor(1, "ARGSORT", Par, I(1500, 1), <<L(111, F(1500, 1))>>, Place(1))
      s2 == [Tensor(2, "ARGSORT", Par, I(1500, 1), <<L(112, F(1500, 1))>>, Place(11))
             EXCEPT !.scratch = s1.scratch]
  IN  <<s1, s2>>
\* Nodes without work: a view, a tensor of size zero, one that is not asked for.
Idle ==
  LET a == X(1, "SCALE", F(384, 3), <<x>>, 1)
      view == X(2, "VIEW", F(384, 2), <<a>>, 1)
      none == X(3, "ADD", F(0, 3), <<view, v>>, 11)
      off  == [X(4, "SQR", F(384, 3), <<x>>, 21) EXCEPT !.compute = FALSE]
      r    == X(5, "SQR", F(384, 2), <<view>>, 31)
  IN  <<a, view, none, off, r>>
\* Prefix sums of several blocks, read by the next node; both need the memory.
Prefix ==
  LET c == Tensor(1, "CUMSUM", Par, F(1500, 2), <<L(113, F(1500, 2))>>, Place(1))
      s == X(2, "SCALE", F(1500, 2), <<c>>, 11)
      e == X(3, "COUNT_EQUAL", Sh("i64", 1, 1, 1, 1), <<c, s>>, 21)
  IN  <<c, s, e>>

MCGraphs ==
  Elementwise \cup Reductions \cup Products \cup Moves \cup Convolutions \cup Sorts
  \cup Attentions
  \cup UNION {Cuts(g) : g \in {LayerNorm, LateWeights, UsedTwice, Sums(v), Sums(other),
                               OtherSide, KvStore, Reuse, SharedRoom, Idle, Prefix}}

\* The hypotheses of the theorems LaunchesFit and GridsCover hold of these graphs:
\* their operations keep to one group of each device, and no row is too long for the
\* copy ahead of ACC and SET.
ASSUME MCLimitsKept == LimitsKept
ASSUME MCCopiesFit ==
  /\ CopiesFit
  /\ \E g \in MCGraphs, e \in Encoders : \E i \in DOMAIN Half(g, e) :
       Half(g, e)[i].op = "ACC" /\ ~Half(g, e)[i].par.inplace
===============================================================================
