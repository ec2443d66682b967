----------------------------- MODULE MetalEncoder -----------------------------
(* The encoding of a compute graph for the GPU, struct ggml_metal_op and      *)
(* ggml_metal_op_encode of ggml-metal-ops.cpp, and what the GPU makes of it.  *)
(* A graph is cut in two, and two threads encode their parts at the same      *)
(* time, each into a command buffer of its own; they share the library of     *)
(* compiled pipelines.  An encoder puts the dispatches of independent nodes   *)
(* into one group, and a memory barrier where a node needs the results of the *)
(* group.  The GPU runs the groups in order, and the dispatches of a group in *)
(* any order.  Memory holds symbolic values: the operation applied to the     *)
(* values read.                                                               *)
EXTENDS MetalOps, SequencesExt

CONSTANTS
  Graphs,    \* [nodes: the tensors in order, cut: how many the first one encodes]
  Devices

Encoders == {1, 2}

VARIABLES
  graph, dev,
  next,        \* next[e]: the index of the node encoder e encodes next
  ranges,      \* mem_ranges: the memory used since the last barrier
  group,       \* group[e]: how many groups encoder e has begun
  dispatched,  \* the dispatches, each with its encoder, group and identity
  lib,         \* the compiled pipelines
  ran,         \* the dispatches the GPU has run
  mem          \* the value at each place

vars == <<graph, dev, next, ranges, group, dispatched, lib, ran, mem>>

-------------------------------------------------------------------------------
(* The nodes and the memory they are known to use.                            *)

Elems(s) == {s[k] : k \in DOMAIN s}

\* The constructor of ggml_metal_op: nodes without work are left out.
Filtered(nodes) ==
  LET hasWork(t) == t.op \notin NoOps /\ Elements(t) # 0
  IN  SelectSeq(nodes, hasWork)
Half(g, e) ==
  Filtered(IF e = 1 THEN SubSeq(g.nodes, 1, g.cut)
           ELSE SubSeq(g.nodes, g.cut + 1, Len(g.nodes)))
Nodes(e) == Half(graph, e)

SrcPlaces(t) == Elems(Sources(t))
DstPlaces(t) == {t.at} \cup Elems(t.scratch)
Ranges(t) == [kind : {"src"}, at : SrcPlaces(t)] \cup [kind : {"dst"}, at : DstPlaces(t)]

\* The node writes nothing the group uses, and reads nothing the group writes.
IsConcurrent(rs, t) ==
  \A r \in rs : /\ r.at \notin DstPlaces(t)
                /\ r.kind = "dst" => r.at \notin SrcPlaces(t)

\* The nodes fused with the one at i, and that one.
Taken(nodes, i, d) == {nodes[k] : k \in i..(i + Fused(nodes, i, d) - 1)}

Reads(d)  == Elems(d.in)
Writes(d) == Elems(d.out)
Conflict(a, b) == \/ Writes(a) \cap (Reads(b) \cup Writes(b)) # {}
                  \/ Writes(b) \cap Reads(a) # {}

\* Each operation is a known one, takes nodes of its encoder only, has work to
\* do, uses only memory of these nodes, and leaves a barrier between its own
\* dispatches that need one.
Declared(nodes, i, d) ==
  LET stages == Stages(nodes, i, d)
      taken == Taken(nodes, i, d)
  IN  /\ nodes[i].op \in EncodedOps
      /\ Fused(nodes, i, d) \in 1..(Len(nodes) - i + 1)
      /\ Len(stages) \in Nat \ {0} /\ DOMAIN stages = 1..Len(stages)
      /\ \A s \in DOMAIN stages :
           /\ Len(stages[s]) \in Nat /\ DOMAIN stages[s] = 1..Len(stages[s])
           /\ \A k \in DOMAIN stages[s] :
                /\ \A p \in Writes(stages[s][k]) : \E t \in taken : p \in DstPlaces(t)
                /\ \A p \in Reads(stages[s][k]) :
                     \E t \in taken : p \in SrcPlaces(t) \/ p \in DstPlaces(t)
           /\ \A k, l \in DOMAIN stages[s] :
                k # l => ~Conflict(stages[s][k], stages[s][l])

Places(g) == UNION {SrcPlaces(t) \cup DstPlaces(t) : t \in Elems(g.nodes)}

ASSUME EncodingAssumption ==
  \A g \in Graphs, d \in Devices, e \in Encoders :
    LET nodes == Half(g, e)
    IN  /\ Len(nodes) \in Nat /\ DOMAIN nodes = 1..Len(nodes)
        /\ \A i \in DOMAIN nodes :
             /\ SrcPlaces(nodes[i]) \cup DstPlaces(nodes[i]) \subseteq Places(g)
             /\ nodes[i].compute => Declared(nodes, i, d)

\* How many sources the operation looks at the sizes of.
Arity(o) ==
  CASE o = "ARANGE" -> 0
    [] o \in {"SET", "ACC", "GET_ROWS", "SOLVE_TRI", "MUL_MAT", "SSM_SCAN", "IM2COL"} -> 2
    [] o \in {"MUL_MAT_ID", "GATED_DELTA_NET", "FLASH_ATTN_EXT"} -> 3
    [] o = "RWKV_WKV6" -> 6
    [] o = "RWKV_WKV7" -> 7
    [] OTHER -> 1

\* Tensors have four sizes, and a row of a quantized one has a block at least.
Sized(t) ==
  /\ t.ne \in [0..3 -> Nat \ {0}]
  /\ t.type \in QuantTypes => t.ne[0] >= 16

\* What the code asserts of the sizes (ops.cpp:1011, 1522, 3650, 2367 and 3029).
Asserted(t, d) ==
  CASE t.op = "CUMSUM" ->
         LET nth == CumsumThreads(t.src[0].ne[0], d.max)
         IN  CeilDiv(t.src[0].ne[0], nth) <= nth
    [] t.op = "SSM_SCAN" -> t.src[0].ne[0] <= d.max
    [] t.op = "IM2COL" ->
         t.src[0].ne[0] * (IF t.par.is_2D THEN t.src[0].ne[1] ELSE 1) <= d.max
    [] t.op = "MUL_MAT_ID" ->
         d.has_simdgroup_mm /\ t.src[0].ne[0] >= 64 /\ t.src[2].ne[1] >= 32
           => /\ t.src[0].ne[2] <= d.max
              /\ t.src[0].ne[2] * t.src[2].ne[0] * 2 <= d.max_smem
    [] t.op = "FLASH_ATTN_EXT" -> UseVec(t) => VecSmem(t) <= d.max_smem
    [] OTHER -> TRUE

\* The shapes the constructors of ggml give a node, what the code asserts of them,
\* and a device that runs no more threads than CumsumThreads and Doubled reckon
\* with.
WellShaped(t, d) ==
  /\ d.max \in Nat \ {0} /\ d.max <= 4096
  /\ Sized(t) /\ \A k \in DOMAIN t.src : Sized(t.src[k])
  /\ 0..(Arity(t.op) - 1) \subseteq DOMAIN t.src
  /\ Asserted(t, d)
  /\ t.op \in UnaryOps \cup BinOps => t.ne = t.src[0].ne
  /\ t.op = "GATED_DELTA_NET" => t.src[2].ne[0] % 32 = 0
  /\ t.op = "SET_ROWS" => t.blck \in 1..t.ne[0]
  /\ t.op = "SET" => CopyChunks(t.src[1], t.type, t.blck) \in Nat \ {0}
  /\ t.op \in {"DUP", "CPY", "CONT"} =>
       CopyChunks(t.src[0], t.type, t.blck) \in Nat \ {0}
  /\ t.op = "MUL_MAT" => t.ne[0] = t.src[0].ne[1] /\ t.ne[1] = t.src[1].ne[1]
  /\ t.op \in {"MUL_MAT", "MUL_MAT_ID"} => t.src[0].type \in FloatTypes \cup QuantTypes
  /\ t.op = "FLASH_ATTN_EXT" =>
       LET q == t.src[0]
       IN  t.ne[1] = q.ne[2] /\ t.ne[2] = q.ne[1] /\ t.ne[3] = q.ne[3]
  /\ t.op = "GROUP_NORM" => t.par.groups \in Nat \ {0}
  /\ t.op = "CONV_3D" => t.par.OC \in Nat \ {0} /\ t.par.N \in Nat \ {0}
  /\ t.op = "TIMESTEP_EMBEDDING" => t.par.dim \in Nat

ASSUME ShapesAssumption ==
  \A g \in Graphs, d \in Devices, e \in Encoders :
    \A i \in DOMAIN Half(g, e) :
      Half(g, e)[i].compute => WellShaped(Half(g, e)[i], d)

\* The copy ahead of ACC and SET has a thread for each element of a row.
CopiesFit ==
  \A g \in Graphs, d \in Devices, e \in Encoders :
    \A i \in DOMAIN Half(g, e) :
      LET t == Half(g, e)[i]
      IN  t.compute /\ t.op \in {"ACC", "SET"} /\ ~t.par.inplace
          => t.src[0].ne[0] <= d.max

\* Sizes the code takes for granted: a device of 256 threads and 32 KB a group,
\* and operations for which one of its groups is enough.
WithinLimits(t, d) ==
  /\ d.max >= 256 /\ d.max_smem \in Nat /\ d.max_smem >= 32768
  /\ t.op = "GLU" => t.src[0].ne[0] >= 2
  /\ t.op \in {"RWKV_WKV6", "RWKV_WKV7"} => t.ne[0] \div t.src[0].ne[1] \in 1..d.max
  /\ t.op = "GATED_DELTA_NET" => t.src[2].ne[0] <= d.max
  /\ t.op = "SOLVE_TRI" => t.src[1].ne[1] <= 1024
  /\ t.op = "CONV_TRANSPOSE_2D" => t.src[0].ne[0] * t.src[0].ne[1] <= d.max
  /\ t.op = "FLASH_ATTN_EXT" => UseVec(t) \/ MatrixSmem(t) <= d.max_smem

\* The kernels' own constants keep to such a device, and attention with one query
\* takes blocks no wider than those room is reserved for (ops.cpp:2555).
SmallKernels ==
  /\ \A t \in QuantTypes : N_SG[t] <= 8
  /\ N_R0["q8_0"] <= 64 /\ N_MM_SG <= 8 /\ NRA * N_MM_NK_TOTAL <= 16384
  /\ VEC_NCPSG <= NCPSG

LimitsKept ==
  /\ SmallKernels
  /\ \A g \in Graphs, d \in Devices, e \in Encoders :
       \A i \in DOMAIN Half(g, e) :
         Half(g, e)[i].compute => WithinLimits(Half(g, e)[i], d)

-------------------------------------------------------------------------------
(* The values a dispatch computes.                                            *)

NoPlace == <<"none", 0>>
Initially(p) == [op |-> "init", of |-> <<>>, part |-> 1, at |-> p]
Value(op, of) ==
  IF op = "copy" THEN of[1] ELSE [op |-> op, of |-> of, part |-> 1, at |-> NoPlace]

\* The first operation takes the arguments the later ones leave; each later one
\* takes the result so far and one more.
Computed(does, args) ==
  LET n     == Len(does)
      first == Len(args) - (n - 1)
      v[k \in 1..n] ==
        IF k = 1 THEN Value(does[1], SubSeq(args, 1, first))
        ELSE Value(does[k], <<v[k - 1], args[first + k - 1]>>)
  IN  v[n]
Result(d, m) == Computed(d.does, [k \in DOMAIN d.in |-> m[d.in[k]]])

\* What a dispatch of this result writes to a place: the result, or a part of it.
Written(d, p, result) ==
  LET k == CHOOSE k \in DOMAIN d.out : d.out[k] = p
  IN  IF k = 1 THEN result ELSE [result EXCEPT !.part = k]
Apply(m, d) ==
  [p \in DOMAIN m |-> IF p \in Writes(d) THEN Written(d, p, Result(d, m)) ELSE m[p]]

Flat(ss) == FoldLeft(LAMBDA a, s : a \o s, <<>>, ss)

Blank(g) == [p \in Places(g) |-> Initially(p)]

\* One node after the other, none fused with the next.
Serially(g, d) ==
  LET nodes == Filtered(g.nodes)
      alone == [d EXCEPT !.use_fusion = FALSE]
      node(m, i) == IF nodes[i].compute
                    THEN FoldLeft(Apply, m, Flat(Stages(nodes, i, alone))) ELSE m
  IN  FoldLeft(node, Blank(g), [i \in DOMAIN nodes |-> i])

-------------------------------------------------------------------------------
Init ==
  /\ graph \in Graphs /\ dev \in Devices
  /\ next = [e \in Encoders |-> 1]
  /\ ranges = [e \in Encoders |-> {}]
  /\ group = [e \in Encoders |-> 1]
  /\ dispatched = {}
  /\ lib = NoPipelines
  /\ ran = {} /\ mem = Blank(graph)

Encoded(e) == next[e] > Len(Nodes(e))

\* A node that is not flagged for computation.
Skip_Faulty(e) ==
  /\ ~Encoded(e) /\ ~Nodes(e)[next[e]].compute
  /\ next' = [next EXCEPT ![e] = @ + 2]
  /\ UNCHANGED <<graph, dev, ranges, group, dispatched, lib, ran, mem>>
Skip(e) ==
  /\ ~Encoded(e) /\ ~Nodes(e)[next[e]].compute
  /\ next' = [next EXCEPT ![e] = @ + 1]
  /\ UNCHANGED <<graph, dev, ranges, group, dispatched, lib, ran, mem>>

\* The node at i needs no barrier before it, and no later one fused with it does.
Joins_Faulty(rs, nodes, i, d) == IsConcurrent(rs, nodes[i])
Joins(rs, nodes, i, d) == \A t \in Taken(nodes, i, d) : IsConcurrent(rs, t)

\* The dispatches of the stages, the first one in the group `first`.
Dispatches(e, i, stages, first) ==
  UNION {{[enc |-> e, group |-> first + s - 1, id |-> <<i, s, k>>, run |-> stages[s][k]] :
            k \in DOMAIN stages[s]} : s \in DOMAIN stages}

\* The library after the dispatches of a stage, and of all stages: each asks for
\* its pipeline when it is encoded.
WithStage(l, ds) ==
  LET after[k \in 0..Len(ds)] == IF k = 0 THEN l ELSE Compiled(after[k - 1], ds[k].req)
  IN  after[Len(ds)]
WithStages(l, stages) ==
  LET after[s \in 0..Len(stages)] ==
        IF s = 0 THEN l ELSE WithStage(after[s - 1], stages[s])
  IN  after[Len(stages)]

Encode(e) ==
  LET nodes  == Nodes(e)
      i      == next[e]
      stages == Stages(nodes, i, dev)
      joins  == Joins(ranges[e], nodes, i, dev)
      first  == IF joins THEN group[e] ELSE group[e] + 1
  IN  /\ ~Encoded(e) /\ nodes[i].compute
      /\ next' = [next EXCEPT ![e] = @ + Fused(nodes, i, dev)]
      /\ dispatched' = dispatched \cup Dispatches(e, i, stages, first)
      /\ group' = [group EXCEPT ![e] = first + Len(stages) - 1]
      /\ ranges' = [ranges EXCEPT ![e] =
           (IF joins /\ Len(stages) = 1 THEN @ ELSE {})
           \cup UNION {Ranges(t) : t \in Taken(nodes, i, dev)}]
      /\ lib' = WithStages(lib, stages)
      /\ UNCHANGED <<graph, dev, ran, mem>>

\* The GPU: the second command buffer after the first.
Before(a, b) == a.enc < b.enc \/ (a.enc = b.enc /\ a.group < b.group)
Execute ==
  /\ \A e \in Encoders : Encoded(e)
  /\ \E a \in dispatched \ ran :
       /\ \A b \in dispatched : Before(b, a) => b \in ran
       /\ ran' = ran \cup {a}
       /\ mem' = Apply(mem, a.run)
  /\ UNCHANGED <<graph, dev, next, ranges, group, dispatched, lib>>

Next == (\E e \in Encoders : Skip(e) \/ Encode(e)) \/ Execute

Spec == Init /\ [][Next]_vars

-------------------------------------------------------------------------------
MetalTypeOK ==
  /\ graph \in Graphs /\ dev \in Devices
  /\ next \in [Encoders -> Nat \ {0}] /\ group \in [Encoders -> Nat \ {0}]
  /\ \A e \in Encoders : next[e] <= Len(Nodes(e)) + 1
  /\ DOMAIN ranges = Encoders
  /\ \A e \in Encoders : \A r \in ranges[e] : r.kind \in {"src", "dst"}
  /\ ran \subseteq dispatched
  /\ DOMAIN mem = Places(graph)

\* The dispatches between two barriers, which the GPU may run in any order,
\* touch nothing that one of the others writes (the comment at ops.cpp:215).
NoRace ==
  \A a, b \in dispatched :
    a.id # b.id /\ a.enc = b.enc /\ a.group = b.group => ~Conflict(a.run, b.run)

\* However the nodes are fused, staged, cut among the encoders and ordered by
\* the GPU, the results of the graph are those of its nodes one after the other.
Finished == (\A e \in Encoders : Encoded(e)) /\ ran = dispatched
\* Results: the nodes no other node uses.
Results(g) ==
  {t.at : t \in {t \in Elems(Filtered(g.nodes)) :
                   t.compute /\ t.uses = 0}}
ResultsAreSerial ==
  Finished => LET serial == Serially(graph, dev)
              IN  \A p \in Results(graph) : mem[p] = serial[p]

\* The pipeline found under the name a kernel asks for is the kernel it asks
\* for, compiled with the constants it asks for: names do not collide.
KernelIsOwn ==
  \A a \in dispatched :
    LET req == a.run.req
    IN  req.name \in DOMAIN lib
        /\ lib[req.name] = [base |-> req.base, consts |-> req.consts]

\* The groups of a launch do all of the work, none of them has nothing to do,
\* and a kernel without bounds checks gets whole groups only.
GridCovers ==
  \A a \in dispatched : \A c \in a.run.cover :
    /\ c.groups * c.per >= c.work
    /\ (c.groups - 1) * c.per < c.work
    /\ c.checked \/ c.groups * c.per = c.work

\* A group has threads, no more than the device runs, and no more memory than it
\* has; intermediate data fits in the room reserved for it behind the result.
\* These kernels ask for a number of threads that the code does not compare
\* with the limit of the device, or only in an assertion.
FixedThreads ==
  {"CONCAT", "roll", "pad", "pad_reflect_1d", "arange", "timestep_embedding",
   "rope", "flash_attn_ext_vec_reduce", "soft_max", "argmax", "set_rows",
   "count_equal"}
LaunchFits ==
  \A a \in dispatched :
    /\ a.run.threads >= 1 /\ \A k \in 1..3 : a.run.grid[k] >= 1
    /\ a.run.threads <= dev.max \/ a.run.req.base.kernel \in FixedThreads
    /\ a.run.smem <= dev.max_smem
    /\ \A r \in a.run.room : r.needs <= r.has
===============================================================================
