-------------------------- MODULE MetalEncoder_proofs --------------------------
(* For every graph and device that satisfy EncodingAssumption: MetalTypeOK    *)
(* and NoRace of MetalEncoder, that no order of the encoders and of the GPU   *)
(* changes what is in memory at the end, and that the library of pipelines    *)
(* gives every dispatch its own kernel.  NoRace alone is not inductive: that  *)
(* a node may join the open group follows from mem_ranges, so the invariant   *)
(* says that mem_ranges knows all the memory the dispatches of the open group *)
(* touch.  The last parts show, operation by operation, that the grids cover  *)
(* the results (GridCovers), from the shapes ShapesAssumption allows, and     *)
(* that the launches fit the device (LaunchFits), if the limits of LimitsKept *)
(* are kept.                                                                  *)
EXTENDS MetalEncoder, NumberLemmas, FiniteSetTheorems, SequenceTheorems, TLAPS

\* mem_ranges covers what the dispatches of the open group write and read.
RangesCoverGroup ==
  \A a \in dispatched : a.group = group[a.enc] =>
    /\ \A p \in Writes(a.run) : \E r \in ranges[a.enc] : r.kind = "dst" /\ r.at = p
    /\ \A p \in Reads(a.run) : \E r \in ranges[a.enc] : r.at = p

\* No dispatch is in a group its encoder has not begun.
GroupsAreBegun ==
  \A a \in dispatched : a.enc \in Encoders /\ a.group \in 1..group[a.enc]

MetalInv == MetalTypeOK /\ GroupsAreBegun /\ RangesCoverGroup /\ NoRace

-------------------------------------------------------------------------------
\* What the assumption says of the node an encoder is at.
LEMMA NextIsDeclared ==
  ASSUME MetalTypeOK, NEW e \in Encoders, ~Encoded(e)
  PROVE  /\ next[e] \in DOMAIN Nodes(e) /\ Len(Nodes(e)) \in Nat
         /\ Nodes(e)[next[e]].compute => Declared(Nodes(e), next[e], dev)
<1>1. graph \in Graphs /\ dev \in Devices /\ next[e] \in Nat \ {0}
  BY DEF MetalTypeOK
<1>3. /\ Len(Nodes(e)) \in Nat /\ DOMAIN Nodes(e) = 1..Len(Nodes(e))
      /\ \A i \in DOMAIN Nodes(e) : Nodes(e)[i].compute => Declared(Nodes(e), i, dev)
  BY <1>1, EncodingAssumption DEF Nodes
<1>4. next[e] <= Len(Nodes(e))
  BY <1>1, <1>3 DEF Encoded
<1> QED
  BY <1>1, <1>3, <1>4

\* A node that joins the open group conflicts with none of its dispatches.
LEMMA JoiningIsSafe ==
  ASSUME NEW rs, NEW T, NEW x, NEW y,
         \A t \in T : IsConcurrent(rs, t),
         \A p \in Writes(x) : \E r \in rs : r.kind = "dst" /\ r.at = p,
         \A p \in Reads(x) : \E r \in rs : r.at = p,
         \A p \in Writes(y) : \E t \in T : p \in DstPlaces(t),
         \A p \in Reads(y) : \E t \in T : p \in SrcPlaces(t) \/ p \in DstPlaces(t)
  PROVE  ~Conflict(x, y)
<1>1. ASSUME NEW p, p \in Writes(y), p \in Reads(x) \cup Writes(x)
      PROVE  FALSE
  <2>1. PICK t \in T : p \in DstPlaces(t)
    BY <1>1
  <2>2. PICK r \in rs : r.at = p
    BY <1>1
  <2> QED
    BY <2>1, <2>2 DEF IsConcurrent
<1>2. ASSUME NEW p, p \in Writes(x), p \in Reads(y)
      PROVE  FALSE
  <2>1. PICK t \in T : p \in SrcPlaces(t) \/ p \in DstPlaces(t)
    BY <1>2
  <2>2. PICK r \in rs : r.kind = "dst" /\ r.at = p
    BY <1>2
  <2> QED
    BY <2>1, <2>2 DEF IsConcurrent
<1> QED
  BY <1>1, <1>2 DEF Conflict

LEMMA ConflictIsMutual == ASSUME NEW x, NEW y PROVE Conflict(x, y) <=> Conflict(y, x)
  BY DEF Conflict

\* The ranges of the nodes taken know what their dispatches use.
LEMMA TakenAreCovered ==
  ASSUME NEW T, NEW y,
         \A p \in Writes(y) : \E t \in T : p \in DstPlaces(t),
         \A p \in Reads(y) : \E t \in T : p \in SrcPlaces(t) \/ p \in DstPlaces(t)
  PROVE  LET rs == UNION {Ranges(t) : t \in T}
         IN  /\ \A p \in Writes(y) : \E r \in rs : r.kind = "dst" /\ r.at = p
             /\ \A p \in Reads(y) : \E r \in rs : r.at = p
<1> DEFINE rs == UNION {Ranges(t) : t \in T}
<1>1. ASSUME NEW t \in T, NEW p \in DstPlaces(t)
      PROVE  [kind |-> "dst", at |-> p] \in rs
  BY DEF Ranges
<1>2. ASSUME NEW t \in T, NEW p \in SrcPlaces(t)
      PROVE  [kind |-> "src", at |-> p] \in rs
  BY DEF Ranges
<1>3. \A p \in Writes(y) : \E r \in rs : r.kind = "dst" /\ r.at = p
  <2> SUFFICES ASSUME NEW p \in Writes(y)
               PROVE  \E r \in rs : r.kind = "dst" /\ r.at = p
    OBVIOUS
  <2>1. PICK t \in T : p \in DstPlaces(t)
    OBVIOUS
  <2>2. [kind |-> "dst", at |-> p] \in rs
    BY <1>1, <2>1
  <2> HIDE DEF rs
  <2> QED
    BY <2>2
<1>4. \A p \in Reads(y) : \E r \in rs : r.at = p
  <2> SUFFICES ASSUME NEW p \in Reads(y)
               PROVE  \E r \in rs : r.at = p
    OBVIOUS
  <2>1. PICK t \in T : p \in SrcPlaces(t) \/ p \in DstPlaces(t)
    OBVIOUS
  <2>2. [kind |-> "dst", at |-> p] \in rs \/ [kind |-> "src", at |-> p] \in rs
    BY <1>1, <1>2, <2>1
  <2> HIDE DEF rs
  <2> QED
    BY <2>2
<1> QED
  BY <1>3, <1>4

\* What a dispatch of an operation is.
LEMMA DispatchesAreOfStages ==
  ASSUME NEW e, NEW i, NEW stages, NEW first, NEW b \in Dispatches(e, i, stages, first)
  PROVE  \E s \in DOMAIN stages : \E k \in DOMAIN stages[s] :
           /\ b.enc = e /\ b.group = first + s - 1
           /\ b.id = <<i, s, k>> /\ b.run = stages[s][k]
<1>1. PICK s \in DOMAIN stages : b \in
        {[enc |-> e, group |-> first + s - 1, id |-> <<i, s, k>>, run |-> stages[s][k]] :
           k \in DOMAIN stages[s]}
  BY DEF Dispatches
<1>2. PICK k \in DOMAIN stages[s] :
        b = [enc |-> e, group |-> first + s - 1, id |-> <<i, s, k>>, run |-> stages[s][k]]
  BY <1>1
<1> QED
  BY <1>2

-------------------------------------------------------------------------------
LEMMA InitEstablishes == Init => MetalInv
<1> SUFFICES ASSUME Init PROVE MetalInv
  OBVIOUS
<1>1. MetalTypeOK
  <2>1. \A e \in Encoders : Len(Nodes(e)) \in Nat
    BY EncodingAssumption DEF Init, Nodes
  <2>2. \A e \in Encoders : next[e] <= Len(Nodes(e)) + 1
    BY <2>1 DEF Init
  <2> QED
    BY <2>2 DEF MetalTypeOK, Init, Blank
<1>2. GroupsAreBegun /\ RangesCoverGroup /\ NoRace
  BY DEF GroupsAreBegun, RangesCoverGroup, NoRace, Init
<1> QED
  BY <1>1, <1>2 DEF MetalInv

LEMMA SkipPreserves ==
  ASSUME MetalInv, NEW e \in Encoders, Skip(e)
  PROVE  MetalInv'
<1> USE DEF MetalInv
<1>1. /\ next[e] \in 1..Len(Nodes(e)) /\ Len(Nodes(e)) \in Nat
      /\ \A f \in Encoders : Nodes(f)' = Nodes(f)
  <2>1. DOMAIN Nodes(e) = 1..Len(Nodes(e))
    BY EncodingAssumption DEF MetalTypeOK, Nodes
  <2> QED
    BY <2>1, NextIsDeclared DEF Skip, Nodes
<1>2. MetalTypeOK'
  BY <1>1 DEF MetalTypeOK, Skip
<1>3. GroupsAreBegun' /\ RangesCoverGroup' /\ NoRace'
  BY DEF GroupsAreBegun, RangesCoverGroup, NoRace, Skip
<1> QED
  BY <1>2, <1>3

LEMMA ExecutePreserves == ASSUME MetalInv, Execute PROVE MetalInv'
<1> USE DEF MetalInv
<1>1. UNCHANGED <<graph, dev, next, ranges, group, dispatched, lib>>
  BY DEF Execute
<1>2. MetalTypeOK'
  <2>1. PICK a \in dispatched : ran' = ran \cup {a} /\ mem' = Apply(mem, a.run)
    BY DEF Execute
  <2>2. DOMAIN mem' = DOMAIN mem
    BY <2>1 DEF Apply
  <2>3. \A e \in Encoders : Nodes(e)' = Nodes(e)
    BY <1>1 DEF Nodes
  <2> QED
    BY <1>1, <2>1, <2>2, <2>3 DEF MetalTypeOK
<1>3. GroupsAreBegun' /\ RangesCoverGroup' /\ NoRace'
  BY <1>1 DEF GroupsAreBegun, RangesCoverGroup, NoRace
<1> QED
  BY <1>2, <1>3

LEMMA StutterPreserves == ASSUME MetalInv, UNCHANGED vars PROVE MetalInv'
<1>1. \A e \in Encoders : Nodes(e)' = Nodes(e)
  BY DEF vars, Nodes
<1> QED
  BY <1>1 DEF MetalInv, MetalTypeOK, GroupsAreBegun, RangesCoverGroup, NoRace, vars

\* The step that matters.  The node at i is encoded: its first stage joins the
\* open group or begins one, the further stages begin groups of their own.
LEMMA EncodePreserves ==
  ASSUME MetalInv, NEW e \in Encoders, Encode(e)
  PROVE  MetalInv'
<1> DEFINE nodes  == Nodes(e)
           i      == next[e]
           stages == Stages(nodes, i, dev)
           T      == Taken(nodes, i, dev)
           joins  == Joins(ranges[e], nodes, i, dev)
           first  == IF joins THEN group[e] ELSE group[e] + 1
           new    == Dispatches(e, i, stages, first)
           n      == Len(stages)
<1>1. /\ ~Encoded(e) /\ nodes[i].compute
      /\ next' = [next EXCEPT ![e] = @ + Fused(nodes, i, dev)]
      /\ dispatched' = dispatched \cup new
      /\ group' = [group EXCEPT ![e] = first + n - 1]
      /\ ranges' = [ranges EXCEPT ![e] =
           (IF joins /\ n = 1 THEN @ ELSE {}) \cup UNION {Ranges(t) : t \in T}]
      /\ UNCHANGED <<graph, dev, ran, mem>>
  BY DEF Encode
<1>2. i \in DOMAIN nodes /\ Declared(nodes, i, dev) /\ Len(nodes) \in Nat
  BY <1>1, NextIsDeclared DEF MetalInv
<1>3. /\ n \in Nat \ {0} /\ DOMAIN stages = 1..n
      /\ Fused(nodes, i, dev) \in 1..(Len(nodes) - i + 1)
  BY <1>2 DEF Declared
<1>4. \A s \in DOMAIN stages : \A k \in DOMAIN stages[s] :
        /\ \A p \in Writes(stages[s][k]) : \E t \in T : p \in DstPlaces(t)
        /\ \A p \in Reads(stages[s][k]) :
             \E t \in T : p \in SrcPlaces(t) \/ p \in DstPlaces(t)
  BY <1>2 DEF Declared
<1>5. \A s \in DOMAIN stages : \A k, l \in DOMAIN stages[s] :
        k # l => ~Conflict(stages[s][k], stages[s][l])
  BY <1>2 DEF Declared
<1>6. \A b \in new : \E s \in DOMAIN stages : \E k \in DOMAIN stages[s] :
        /\ b.enc = e /\ b.group = first + s - 1
        /\ b.id = <<i, s, k>> /\ b.run = stages[s][k]
  BY DispatchesAreOfStages
<1>7. /\ group[e] \in Nat \ {0} /\ first \in {group[e], group[e] + 1}
      /\ group'[e] = first + n - 1 /\ group'[e] >= group[e]
      /\ \A f \in Encoders : f # e => group'[f] = group[f] /\ ranges'[f] = ranges[f]
      /\ ranges'[e] = (IF joins /\ n = 1 THEN ranges[e] ELSE {})
                      \cup UNION {Ranges(t) : t \in T}
  BY <1>1, <1>3 DEF MetalInv, MetalTypeOK
<1>8. \A f \in Encoders : Nodes(f)' = Nodes(f)
  BY <1>1 DEF Nodes
<1> HIDE DEF nodes, i, stages, T, joins, first, new, n
<1>10. MetalTypeOK'
  <2>1. next' \in [Encoders -> Nat \ {0}] /\ group' \in [Encoders -> Nat \ {0}]
    <3>1. next \in [Encoders -> Nat \ {0}] /\ group \in [Encoders -> Nat \ {0}]
      BY DEF MetalInv, MetalTypeOK
    <3>2. Fused(nodes, i, dev) \in Nat \ {0} /\ first + n - 1 \in Nat \ {0}
      BY <1>2, <1>3, <1>7
    <3>3. next[e] + Fused(nodes, i, dev) \in Nat \ {0}
      BY <3>1, <3>2
    <3>4. /\ next' = [next EXCEPT ![e] = next[e] + Fused(nodes, i, dev)]
          /\ group' = [group EXCEPT ![e] = first + n - 1]
      BY <1>1
    <3> QED
      BY <3>1, <3>2, <3>3, <3>4
  <2>2. \A f \in Encoders : next'[f] <= Len(Nodes(f)') + 1
    BY <1>1, <1>2, <1>3, <1>8, SMTT(30) DEF MetalInv, MetalTypeOK, i, nodes
  <2>3. \A r \in UNION {Ranges(t) : t \in T} : r.kind \in {"src", "dst"}
    BY DEF Ranges
  <2>4. \A f \in Encoders : \A r \in ranges'[f] : r.kind \in {"src", "dst"}
    BY <1>7, <2>3 DEF MetalInv, MetalTypeOK
  <2> QED
    BY <1>1, <2>1, <2>2, <2>4 DEF MetalInv, MetalTypeOK
<1>11. GroupsAreBegun'
  <2>1. ASSUME NEW a \in dispatched
        PROVE  a.enc \in Encoders /\ a.group \in 1..group'[a.enc]
    <3>1. a.enc \in Encoders /\ a.group \in 1..group[a.enc]
      BY DEF MetalInv, GroupsAreBegun
    <3>2. /\ group[a.enc] \in Nat /\ group'[a.enc] \in Nat
          /\ group'[a.enc] >= group[a.enc]
      <4>1. CASE a.enc = e
        BY <1>3, <1>7, <4>1
      <4>2. CASE a.enc # e
        BY <1>7, <3>1, <4>2 DEF MetalInv, MetalTypeOK
      <4> QED
        BY <4>1, <4>2
    <3> QED
      BY <3>1, <3>2
  <2>2. ASSUME NEW b \in new
        PROVE  b.enc \in Encoders /\ b.group \in 1..group'[b.enc]
    <3>1. PICK s \in 1..n : b.enc = e /\ b.group = first + s - 1
      BY <1>3, <1>6
    <3>2. first \in Nat \ {0}
      BY <1>7
    <3> QED
      BY <1>3, <1>7, <3>1, <3>2
  <2> QED
    BY <1>1, <2>1, <2>2 DEF GroupsAreBegun
<1>12. RangesCoverGroup'
  <2> SUFFICES ASSUME NEW a \in dispatched', a.group = group'[a.enc]
               PROVE  /\ \A p \in Writes(a.run) :
                           \E r \in ranges'[a.enc] : r.kind = "dst" /\ r.at = p
                      /\ \A p \in Reads(a.run) : \E r \in ranges'[a.enc] : r.at = p
    BY DEF RangesCoverGroup
  <2>1. CASE a \in new
    <3>1. PICK s \in DOMAIN stages : \E k \in DOMAIN stages[s] :
            a.enc = e /\ a.run = stages[s][k]
      BY <1>6, <2>1
    <3>1a. PICK k \in DOMAIN stages[s] :
            a.enc = e /\ a.run = stages[s][k]
      BY <3>1
    <3>2. \A r \in UNION {Ranges(t) : t \in T} : r \in ranges'[e]
      BY <1>7
    <3>3. LET rs == UNION {Ranges(t) : t \in T}
          IN  /\ \A p \in Writes(a.run) : \E r \in rs : r.kind = "dst" /\ r.at = p
              /\ \A p \in Reads(a.run) : \E r \in rs : r.at = p
      BY <1>4, <3>1a, TakenAreCovered
    <3> QED
      BY <3>1a, <3>2, <3>3
  <2>2. CASE a \in dispatched /\ a.enc # e
    BY <1>7, <2>2 DEF MetalInv, RangesCoverGroup, GroupsAreBegun
  <2>3. CASE a \in dispatched /\ a.enc = e
    <3>1. a.group <= group[e]
      BY <1>7, <2>3 DEF MetalInv, GroupsAreBegun
    <3>2. a.group = group[e] /\ joins /\ n = 1
      BY <1>3, <1>7, <2>3, <3>1 DEF first, MetalInv, GroupsAreBegun
    <3>3. \A r \in ranges[e] : r \in ranges'[e]
      BY <1>7, <3>2
    <3> QED
      BY <2>3, <3>2, <3>3 DEF MetalInv, RangesCoverGroup
  <2> QED
    BY <1>1, <2>1, <2>2, <2>3
<1>13. NoRace'
  <2>1. ASSUME NEW a \in dispatched, NEW b \in new, a.enc = e, a.group = b.group
        PROVE  ~Conflict(a.run, b.run)
    <3>1. PICK s \in DOMAIN stages : \E k \in DOMAIN stages[s] :
            b.group = first + s - 1 /\ b.run = stages[s][k]
      BY <1>6
    <3>1a. PICK k \in DOMAIN stages[s] :
            b.group = first + s - 1 /\ b.run = stages[s][k]
      BY <3>1
    <3>2. a.group = group[e] /\ joins
      BY <1>3, <1>7, <2>1, <3>1a, SMTT(30) DEF first, MetalInv, GroupsAreBegun
    <3>3. \A t \in T : IsConcurrent(ranges[e], t)
      BY <3>2 DEF joins, Joins, T
    <3>4. /\ \A p \in Writes(a.run) : \E r \in ranges[e] : r.kind = "dst" /\ r.at = p
          /\ \A p \in Reads(a.run) : \E r \in ranges[e] : r.at = p
      BY <2>1, <3>2 DEF MetalInv, RangesCoverGroup
    <3> QED
      BY <1>4, <3>1a, <3>3, <3>4, JoiningIsSafe
  <2>2. ASSUME NEW a \in new, NEW b \in new, a.id # b.id, a.group = b.group
        PROVE  ~Conflict(a.run, b.run)
    <3>1. PICK s \in DOMAIN stages : \E k \in DOMAIN stages[s] :
            a.group = first + s - 1 /\ a.run = stages[s][k] /\ a.id = <<i, s, k>>
      BY <1>6
    <3>1a. PICK k \in DOMAIN stages[s] :
            a.group = first + s - 1 /\ a.run = stages[s][k] /\ a.id = <<i, s, k>>
      BY <3>1
    <3>2. PICK u \in DOMAIN stages : \E l \in DOMAIN stages[u] :
            b.group = first + u - 1 /\ b.run = stages[u][l] /\ b.id = <<i, u, l>>
      BY <1>6
    <3>2a. PICK l \in DOMAIN stages[u] :
            b.group = first + u - 1 /\ b.run = stages[u][l] /\ b.id = <<i, u, l>>
      BY <3>2
    <3>3. s = u
      <4>1. first + s - 1 = first + u - 1
        BY <2>2, <3>1a, <3>2a
      <4>2. s \in Int /\ u \in Int /\ first \in Int
        BY <1>3, <1>7
      <4> QED
        BY <4>1, <4>2
    <3> QED
      BY <1>5, <2>2, <3>1a, <3>2a, <3>3
  <2>3. \A b \in new : b.enc = e
    BY <1>6
  <2> SUFFICES ASSUME NEW a \in dispatched', NEW b \in dispatched',
                      a.id # b.id, a.enc = b.enc, a.group = b.group
               PROVE  ~Conflict(a.run, b.run)
    BY DEF NoRace
  <2>4. CASE a \in dispatched /\ b \in dispatched
    BY <2>4 DEF MetalInv, NoRace
  <2>5. CASE a \in dispatched /\ b \in new
    BY <2>1, <2>3, <2>5
  <2>6. CASE a \in new /\ b \in dispatched
    BY <2>1, <2>3, <2>6, ConflictIsMutual
  <2>7. CASE a \in new /\ b \in new
    BY <2>2, <2>7
  <2> QED
    BY <1>1, <2>4, <2>5, <2>6, <2>7
<1> QED
  BY <1>10, <1>11, <1>12, <1>13 DEF MetalInv

\* MetalInv holds in every state.
THEOREM MetalInvariant == Spec => []MetalInv
<1>1. MetalInv /\ [Next]_vars => MetalInv'
  BY SkipPreserves, EncodePreserves, ExecutePreserves, StutterPreserves DEF Next
<1> QED
  BY InitEstablishes, <1>1, PTL DEF Spec

\* The variables have their types; no encoder runs past its nodes, which the code
\* checks with an abort (ops.cpp:506).
THEOREM MetalTypes == Spec => []MetalTypeOK
<1>1. MetalInv => MetalTypeOK
  BY DEF MetalInv
<1> QED
  BY MetalInvariant, <1>1, PTL

\* Dispatches that may run at the same time never touch what another writes.
THEOREM GroupsAreRaceFree == Spec => []NoRace
<1>1. MetalInv => NoRace
  BY DEF MetalInv
<1> QED
  BY MetalInvariant, <1>1, PTL

-------------------------------------------------------------------------------
(* The GPU may run the dispatches of a group in any order.  What they leave   *)
(* in memory is what they leave when they are run in one given order: the     *)
(* dispatches of the first encoder, node after node and stage after stage,    *)
(* then those of the second.                                                  *)

\* What encoder e dispatches for the nodes from each of them on.  A dispatch
\* has the number of its stage for a group.
Program(g, d, e) ==
  LET nodes == Half(g, e)
      rest[i \in 1..(Len(nodes) + 1)] ==
        IF i = Len(nodes) + 1 THEN {}
        ELSE IF nodes[i].compute
        THEN Dispatches(e, i, Stages(nodes, i, d), 1) \cup rest[i + Fused(nodes, i, d)]
        ELSE rest[i + 1]
  IN  rest

\* The memory after each set of dispatches, the last ones run last.
Precedes(a, b) ==
  \/ a.enc < b.enc
  \/ a.enc = b.enc /\ \/ a.id[1] < b.id[1]
                      \/ a.id[1] = b.id[1] /\ a.id[2] < b.id[2]
LastOf(R) == CHOOSE a \in R : \A b \in R : ~Precedes(a, b)
AllOf(g, d) == Program(g, d, 1)[1] \cup Program(g, d, 2)[1]
Memory(g, d) ==
  LET m[R \in SUBSET AllOf(g, d)] ==
        IF R = {} THEN Blank(g)
        ELSE Apply(m[R \ {LastOf(R)}], LastOf(R).run)
  IN  m
InOrder(g, d) == Memory(g, d)[AllOf(g, d)]

\* The facts that EncodingAssumption gives about half a graph.
LEMMA HalfIsKnown ==
  ASSUME NEW g \in Graphs, NEW d \in Devices, NEW e \in Encoders
  PROVE  LET nodes == Half(g, e)
         IN  /\ Len(nodes) \in Nat /\ DOMAIN nodes = 1..Len(nodes)
             /\ \A i \in 1..Len(nodes) :
                  /\ SrcPlaces(nodes[i]) \cup DstPlaces(nodes[i]) \subseteq Places(g)
                  /\ nodes[i].compute =>
                       /\ Declared(nodes, i, d)
                       /\ Fused(nodes, i, d) \in 1..(Len(nodes) - i + 1)
                       /\ i + Fused(nodes, i, d) \in (i + 1)..(Len(nodes) + 1)
<1>. DEFINE nodes == Half(g, e)
<1>1. /\ Len(nodes) \in Nat /\ DOMAIN nodes = 1..Len(nodes)
      /\ \A i \in DOMAIN nodes :
           /\ SrcPlaces(nodes[i]) \cup DstPlaces(nodes[i]) \subseteq Places(g)
           /\ nodes[i].compute => Declared(nodes, i, d)
  BY EncodingAssumption
<1>. PICK N \in Nat : N = Len(nodes)
  BY <1>1
<1>2. ASSUME NEW i \in 1..N, nodes[i].compute
      PROVE  Fused(nodes, i, d) \in 1..(N - i + 1) /\ i + Fused(nodes, i, d) \in (i + 1)..(N + 1)
  <2>1. Fused(nodes, i, d) \in 1..(N - i + 1)
    BY <1>1, <1>2 DEF Declared
  <2>. QED BY <2>1
<1>. HIDE DEF nodes
<1>3. \A i \in 1..N : nodes[i].compute =>
        Fused(nodes, i, d) \in 1..(N - i + 1) /\ i + Fused(nodes, i, d) \in (i + 1)..(N + 1)
  BY <1>2
<1>. QED BY <1>1, <1>3 DEF nodes

\* Program is the function its equation describes.
LEMMA ProgramUnfolds ==
  ASSUME NEW g \in Graphs, NEW d \in Devices, NEW e \in Encoders
  PROVE  LET nodes == Half(g, e)
             rest  == Program(g, d, e)
         IN  /\ rest[Len(nodes) + 1] = {}
             /\ \A i \in 1..Len(nodes) :
                  rest[i] = IF nodes[i].compute
                            THEN Dispatches(e, i, Stages(nodes, i, d), 1)
                                 \cup rest[i + Fused(nodes, i, d)]
                            ELSE rest[i + 1]
<1>. DEFINE nodes == Half(g, e)
            own(i) == Dispatches(e, i, Stages(nodes, i, d), 1)
            step(i) == Fused(nodes, i, d)
            body(f, i) == IF i = Len(nodes) + 1 THEN {}
                          ELSE IF nodes[i].compute THEN own(i) \cup f[i + step(i)]
                          ELSE f[i + 1]
<1>1. PICK N \in Nat : N = Len(nodes)
  BY HalfIsKnown
<1>2. \A i \in 1..N : nodes[i].compute => i + step(i) \in (i + 1)..(N + 1)
  BY <1>1, HalfIsKnown
<1>. DEFINE T == {n \in Nat : n <= N =>
                    \E f : f = [i \in (N + 1 - n)..(N + 1) |-> body(f, i)]}
<1>3. ASSUME NEW n \in Nat, \A k \in 0..(n - 1) : k \in T
      PROVE  n \in T
  <2>. SUFFICES ASSUME n <= N
                PROVE  \E f : f = [i \in (N + 1 - n)..(N + 1) |-> body(f, i)]
    OBVIOUS
  <2>1. CASE n = 0
    <3>. DEFINE f == [i \in (N + 1 - n)..(N + 1) |-> {}]
    <3>1. \A i \in (N + 1 - n)..(N + 1) : body(f, i) = {}
      BY <2>1, <1>1
    <3>2. f = [i \in (N + 1 - n)..(N + 1) |-> body(f, i)]
      BY <3>1
    <3>. QED BY <3>2
  <2>2. CASE n # 0
    <3>1. n - 1 \in T /\ n - 1 \in 0..N
      <4>1. n - 1 \in 0..(n - 1) /\ n - 1 \in 0..N
        BY <2>2
      <4>. HIDE DEF T
      <4>. QED BY <1>3, <4>1
    <3>2. PICK h : h = [i \in (N + 1 - (n - 1))..(N + 1) |-> body(h, i)]
      BY <3>1
    <3>. DEFINE f == [i \in (N + 1 - n)..(N + 1) |-> body(h, i)]
    <3>3. \A i \in (N + 2 - n)..(N + 1) : f[i] = h[i]
      <4>1. \A i \in (N + 2 - n)..(N + 1) :
              i \in (N + 1 - n)..(N + 1) /\ i \in (N + 1 - (n - 1))..(N + 1)
        OBVIOUS
      <4>2. \A i \in (N + 1 - (n - 1))..(N + 1) : h[i] = body(h, i)
        <5>. HIDE DEF body
        <5>. QED BY <3>2
      <4>. HIDE DEF body
      <4>. QED BY <4>1, <4>2
    <3>4. ASSUME NEW i \in (N + 1 - n)..(N + 1) PROVE body(h, i) = body(f, i)
      <4>1. CASE i = N + 1
        BY <4>1, <1>1
      <4>2. CASE i # N + 1
        <5>1. i \in 1..N /\ i + 1 \in (N + 2 - n)..(N + 1)
          BY <4>2
        <5>2. nodes[i].compute => i + step(i) \in (N + 2 - n)..(N + 1)
          <6>. HAVE nodes[i].compute
          <6>1. i + step(i) \in (i + 1)..(N + 1)
            BY <1>2, <5>1
          <6>. QED BY <6>1
        <5>3. /\ h[i + 1] = f[i + 1]
              /\ nodes[i].compute => h[i + step(i)] = f[i + step(i)]
          <6>. HIDE DEF f
          <6>. QED BY <3>3, <5>1, <5>2
        <5>. HIDE DEF f, own, step, nodes
        <5>. QED BY <5>3
      <4>. QED BY <4>1, <4>2
    <3>5. f = [i \in (N + 1 - n)..(N + 1) |-> body(f, i)]
      <4>. HIDE DEF body
      <4>. QED BY <3>4
    <3>. QED BY <3>5
  <2>. QED BY <2>1, <2>2
<1>4. N \in T
  <2>. HIDE DEF T
  <2>1. \A n \in Nat : (\A k \in 0..(n - 1) : k \in T) => n \in T
    BY <1>3
  <2>. QED BY <2>1, EveryNumber, Zenon
<1>. DEFINE rest == CHOOSE f : f = [i \in 1..(N + 1) |-> body(f, i)]
<1>5. rest = [i \in 1..(N + 1) |-> body(rest, i)]
  <2>1. N + 1 - N = 1
    OBVIOUS
  <2>2. \E f : f = [i \in 1..(N + 1) |-> body(f, i)]
    <3>. HIDE DEF body
    <3>. QED BY <1>4, <2>1
  <2>. HIDE DEF body
  <2>. QED BY <2>2
<1>6. Program(g, d, e) = rest
  BY <1>1 DEF Program
<1>7. \A i \in 1..(N + 1) : rest[i] = body(rest, i)
  <2>. HIDE DEF body, rest
  <2>. QED BY <1>5
<1>8. rest[N + 1] = {}
  <2>1. rest[N + 1] = body(rest, N + 1)
    <3>. HIDE DEF body, rest
    <3>. QED BY <1>7
  <2>. HIDE DEF rest
  <2>. QED BY <2>1, <1>1
<1>9. ASSUME NEW i \in 1..N
      PROVE  rest[i] = IF nodes[i].compute THEN own(i) \cup rest[i + step(i)] ELSE rest[i + 1]
  <2>1. rest[i] = body(rest, i) /\ i # N + 1
    <3>. HIDE DEF body, rest
    <3>. QED BY <1>7
  <2>. HIDE DEF rest, own, step
  <2>. QED BY <2>1, <1>1
<1>. HIDE DEF rest
<1>. QED BY <1>1, <1>6, <1>8, <1>9

\* A dispatch of the node at j: where it stands, and the memory it uses.
StandsAt(x, g, e, j, n) ==
  /\ x.enc = e /\ x.id[1] = j /\ x.id[2] \in 1..n
  /\ Reads(x.run) \cup Writes(x.run) \subseteq Places(g)

LEMMA DispatchesAreTyped ==
  ASSUME NEW g \in Graphs, NEW d \in Devices, NEW e \in Encoders,
         NEW j \in 1..Len(Half(g, e)), Half(g, e)[j].compute, NEW first
  PROVE  LET stages == Stages(Half(g, e), j, d)
             own == Dispatches(e, j, stages, first)
         IN  /\ Len(stages) \in Nat
             /\ IsFiniteSet(own)
             /\ \A x \in own : StandsAt(x, g, e, j, Len(stages))
<1>. DEFINE nodes == Half(g, e)
            stages == Stages(nodes, j, d)
            T == Taken(nodes, j, d)
            entry(s, k) == [enc |-> e, group |-> first + s - 1, id |-> <<j, s, k>>,
                            run |-> stages[s][k]]
            ofStage(s) == {entry(s, k) : k \in DOMAIN stages[s]}
<1>1. /\ Len(nodes) \in Nat /\ Declared(nodes, j, d)
      /\ Fused(nodes, j, d) \in 1..(Len(nodes) - j + 1)
      /\ \A k \in 1..Len(nodes) : SrcPlaces(nodes[k]) \cup DstPlaces(nodes[k]) \subseteq Places(g)
  BY HalfIsKnown
<1>2. /\ Len(stages) \in Nat /\ DOMAIN stages = 1..Len(stages)
      /\ \A s \in DOMAIN stages :
           /\ Len(stages[s]) \in Nat /\ DOMAIN stages[s] = 1..Len(stages[s])
           /\ \A k \in DOMAIN stages[s] :
                /\ \A p \in Writes(stages[s][k]) : \E t \in T : p \in DstPlaces(t)
                /\ \A p \in Reads(stages[s][k]) :
                     \E t \in T : p \in SrcPlaces(t) \/ p \in DstPlaces(t)
  BY <1>1 DEF Declared
<1>3. \A t \in T : SrcPlaces(t) \cup DstPlaces(t) \subseteq Places(g)
  <2>1. \A k \in j..(j + Fused(nodes, j, d) - 1) : k \in 1..Len(nodes)
    <3>. HIDE DEF nodes
    <3>. QED BY <1>1
  <2>. QED BY <1>1, <2>1 DEF Taken
<1>4. ASSUME NEW x \in Dispatches(e, j, stages, first)
      PROVE  StandsAt(x, g, e, j, Len(stages))
  <2>1. PICK s \in DOMAIN stages : \E k \in DOMAIN stages[s] :
           /\ x.enc = e /\ x.group = first + s - 1
           /\ x.id = <<j, s, k>> /\ x.run = stages[s][k]
    BY DispatchesAreOfStages
  <2>2. PICK k \in DOMAIN stages[s] :
           x.enc = e /\ x.id = <<j, s, k>> /\ x.run = stages[s][k]
    BY <2>1
  <2>3. Reads(x.run) \cup Writes(x.run) \subseteq Places(g)
    <3>. HIDE DEF T, stages
    <3>. QED BY <1>2, <1>3, <2>2
  <2>. HIDE DEF stages
  <2>. QED BY <1>2, <2>2, <2>3 DEF StandsAt
<1>5. IsFiniteSet(Dispatches(e, j, stages, first))
  <2>. DEFINE all == {ofStage(s) : s \in DOMAIN stages}
  <2>1. ASSUME NEW s \in DOMAIN stages PROVE IsFiniteSet(ofStage(s))
    <3>. DEFINE f == [k \in 1..Len(stages[s]) |-> entry(s, k)]
    <3>1. IsFiniteSet(1..Len(stages[s]))
      BY <1>2, FS_Interval, 1 \in Int
    <3>2. f \in Surjection(1..Len(stages[s]), ofStage(s))
      <4>1. DOMAIN stages[s] = 1..Len(stages[s])
        BY <1>2
      <4>. HIDE DEF stages, entry
      <4>2. f \in [1..Len(stages[s]) -> ofStage(s)]
        BY <4>1
      <4>3. \A t \in ofStage(s) : \E k \in 1..Len(stages[s]) : f[k] = t
        BY <4>1
      <4>. QED BY <4>2, <4>3 DEF Surjection
    <3>. HIDE DEF f, ofStage
    <3>. QED BY <3>1, <3>2, FS_Surjection
  <2>2. IsFiniteSet(all)
    <3>. DEFINE f == [s \in 1..Len(stages) |-> ofStage(s)]
    <3>1. IsFiniteSet(1..Len(stages))
      BY <1>2, FS_Interval, 1 \in Int
    <3>2. f \in Surjection(1..Len(stages), all)
      <4>1. DOMAIN stages = 1..Len(stages)
        BY <1>2
      <4>. HIDE DEF stages, ofStage
      <4>2. f \in [1..Len(stages) -> all]
        BY <4>1
      <4>3. \A t \in all : \E k \in 1..Len(stages) : f[k] = t
        BY <4>1
      <4>. QED BY <4>2, <4>3 DEF Surjection
    <3>. HIDE DEF f, all
    <3>. QED BY <3>1, <3>2, FS_Surjection
  <2>3. Dispatches(e, j, stages, first) = UNION all
    BY DEF Dispatches
  <2>4. \A T0 \in all : IsFiniteSet(T0)
    <3>. HIDE DEF ofStage
    <3>. QED BY <2>1
  <2>. HIDE DEF all
  <2>. QED BY <2>2, <2>3, <2>4, FS_UNION
<1>. QED BY <1>2, <1>4, <1>5

\* What an encoder dispatches from a node on is a finite set of dispatches of
\* that node and later ones.
LEMMA ProgramIsTyped ==
  ASSUME NEW g \in Graphs, NEW d \in Devices, NEW e \in Encoders
  PROVE  LET nodes == Half(g, e)
             rest  == Program(g, d, e)
         IN  \A i \in 1..(Len(nodes) + 1) :
               /\ IsFiniteSet(rest[i])
               /\ \A x \in rest[i] : \E j \in 1..Len(nodes) :
                    /\ nodes[j].compute
                    /\ StandsAt(x, g, e, j, Len(Stages(nodes, j, d)))
<1>. DEFINE nodes == Half(g, e)
            rest  == Program(g, d, e)
            own(j) == Dispatches(e, j, Stages(nodes, j, d), 1)
            Typed(R) == /\ IsFiniteSet(R)
                        /\ \A x \in R : \E j \in 1..Len(nodes) :
                             /\ nodes[j].compute
                             /\ StandsAt(x, g, e, j, Len(Stages(nodes, j, d)))
<1>1. PICK N \in Nat : N = Len(nodes)
  BY HalfIsKnown
<1>. DEFINE T == {n \in Nat : n <= N => Typed(rest[N + 1 - n])}
<1>2. ASSUME NEW n \in Nat, \A k \in 0..(n - 1) : k \in T
      PROVE  n \in T
  <2>. SUFFICES ASSUME n <= N PROVE Typed(rest[N + 1 - n])
    OBVIOUS
  <2>1. CASE n = 0
    <3>1. rest[N + 1 - n] = {}
      BY <2>1, <1>1, ProgramUnfolds
    <3>. QED BY <3>1, FS_EmptySet
  <2>2. CASE n # 0
    <3>. DEFINE i == N + 1 - n
    <3>1. i \in 1..N
      BY <2>2
    <3>2. ASSUME NEW j \in (i + 1)..(N + 1) PROVE Typed(rest[j])
      <4>1. N + 1 - j \in 0..(n - 1) /\ N + 1 - j <= N /\ N + 1 - (N + 1 - j) = j
        OBVIOUS
      <4>2. N + 1 - j \in T
        BY <4>1, <1>2
      <4>. HIDE DEF Typed, rest
      <4>. QED BY <4>1, <4>2
    <3>3. rest[i] = IF nodes[i].compute THEN own(i) \cup rest[i + Fused(nodes, i, d)]
                    ELSE rest[i + 1]
      BY <1>1, <3>1, ProgramUnfolds
    <3>4. CASE nodes[i].compute
      <4>1. i + Fused(nodes, i, d) \in (i + 1)..(N + 1)
        BY <1>1, <3>1, <3>4, HalfIsKnown
      <4>2. Typed(rest[i + Fused(nodes, i, d)])
        <5>. HIDE DEF Typed, rest, nodes, i
        <5>. QED BY <3>2, <4>1
      <4>3. IsFiniteSet(own(i)) /\ \A x \in own(i) : StandsAt(x, g, e, i, Len(Stages(nodes, i, d)))
        BY <1>1, <3>1, <3>4, DispatchesAreTyped
      <4>4. Typed(own(i))
        <5>. HIDE DEF own, nodes, i
        <5>. QED BY <4>3, <3>1, <3>4, <1>1
      <4>5. rest[i] = own(i) \cup rest[i + Fused(nodes, i, d)]
        BY <3>3, <3>4
      <4>6. IsFiniteSet(rest[i])
        <5>. HIDE DEF own, rest, i
        <5>. QED BY <4>2, <4>4, <4>5, FS_Union
      <4>7. Typed(rest[i])
        <5>. HIDE DEF own, rest, i, nodes
        <5>. QED BY <4>2, <4>4, <4>5, <4>6, Zenon
      <4>. QED BY <4>7
    <3>5. CASE ~nodes[i].compute
      <4>1. rest[i] = rest[i + 1] /\ i + 1 \in (i + 1)..(N + 1)
        BY <3>1, <3>3, <3>5
      <4>2. Typed(rest[i + 1])
        <5>. HIDE DEF Typed, rest, nodes, i
        <5>. QED BY <3>2, <4>1
      <4>. HIDE DEF Typed, rest, nodes
      <4>. QED BY <4>1, <4>2
    <3>. QED BY <3>4, <3>5
  <2>. QED BY <2>1, <2>2
<1>3. \A n \in Nat : n \in T
  <2>1. \A n \in Nat : (\A k \in 0..(n - 1) : k \in T) => n \in T
    BY <1>2
  <2>. HIDE DEF T
  <2>. QED BY <2>1, EveryNumber, Zenon
<1>4. ASSUME NEW i \in 1..(N + 1) PROVE Typed(rest[i])
  <2>1. N + 1 - i \in Nat /\ N + 1 - i <= N /\ N + 1 - (N + 1 - i) = i
    OBVIOUS
  <2>2. N + 1 - i \in T
    <3>. HIDE DEF T
    <3>. QED BY <2>1, <1>3
  <2>. HIDE DEF Typed, rest
  <2>. QED BY <2>1, <2>2
<1>5. \A i \in 1..(Len(nodes) + 1) : Typed(rest[i])
  <2>. HIDE DEF Typed, rest, nodes
  <2>. QED BY <1>1, <1>4
<1>. QED BY <1>5

\* The dispatches of a graph are finitely many, and their places are known.
LEMMA AllAreKnown ==
  ASSUME NEW g \in Graphs, NEW d \in Devices
  PROVE  /\ IsFiniteSet(AllOf(g, d))
         /\ \A x \in AllOf(g, d) :
              LET N == Len(Half(g, x.enc))
                  M == Len(Stages(Half(g, x.enc), x.id[1], d))
              IN  /\ x.enc \in Encoders
                  /\ N \in Nat /\ x.id[1] \in 0..N
                  /\ M \in Nat /\ x.id[2] \in 0..M
                  /\ Reads(x.run) \cup Writes(x.run) \subseteq Places(g)
<1>1. ASSUME NEW e \in Encoders
      PROVE  /\ IsFiniteSet(Program(g, d, e)[1])
             /\ Len(Half(g, e)) \in Nat
             /\ \A x \in Program(g, d, e)[1] : \E j \in 1..Len(Half(g, e)) :
                  /\ Half(g, e)[j].compute
                  /\ StandsAt(x, g, e, j, Len(Stages(Half(g, e), j, d)))
  <2>1. Len(Half(g, e)) \in Nat
    BY HalfIsKnown
  <2>2. 1 \in 1..(Len(Half(g, e)) + 1)
    BY <2>1
  <2>. QED BY <2>1, <2>2, ProgramIsTyped
<1>2. IsFiniteSet(AllOf(g, d))
  BY <1>1, FS_Union DEF AllOf, Encoders
<1>3. ASSUME NEW x \in AllOf(g, d)
      PROVE  LET N == Len(Half(g, x.enc))
                 M == Len(Stages(Half(g, x.enc), x.id[1], d))
             IN  /\ x.enc \in Encoders
                 /\ N \in Nat /\ x.id[1] \in 0..N
                 /\ M \in Nat /\ x.id[2] \in 0..M
                 /\ Reads(x.run) \cup Writes(x.run) \subseteq Places(g)
  <2>1. PICK e \in Encoders : x \in Program(g, d, e)[1]
    BY DEF AllOf, Encoders
  <2>2. PICK j \in 1..Len(Half(g, e)) :
          /\ Half(g, e)[j].compute
          /\ StandsAt(x, g, e, j, Len(Stages(Half(g, e), j, d)))
    BY <1>1, <2>1
  <2>3. Len(Half(g, e)) \in Nat /\ Len(Stages(Half(g, e), j, d)) \in Nat
    BY <1>1, <2>2, DispatchesAreTyped
  <2>4. x.enc = e /\ x.id[1] = j
    BY <2>2 DEF StandsAt
  <2>. QED BY <2>2, <2>3, <2>4 DEF StandsAt
<1>. QED BY <1>2, <1>3

\* Among some of them there is a last one.
LEMMA LastIsLast ==
  ASSUME NEW g \in Graphs, NEW d \in Devices, NEW R \in SUBSET AllOf(g, d), R # {}
  PROVE  LastOf(R) \in R /\ \A b \in R : ~Precedes(LastOf(R), b)
<1>1. \A x \in R :
        LET N == Len(Half(g, x.enc))
            M == Len(Stages(Half(g, x.enc), x.id[1], d))
        IN  /\ x.enc \in Encoders
            /\ N \in Nat /\ x.id[1] \in 0..N
            /\ M \in Nat /\ x.id[2] \in 0..M
  BY AllAreKnown
<1>2. PICK x \in R : \A b \in R : b.enc <= x.enc
  <2>. DEFINE S == {b.enc : b \in R}
  <2>1. S \in SUBSET (0..2) /\ S # {}
    <3>1. \A b \in R : b.enc \in 0..2
      BY <1>1 DEF Encoders
    <3>. QED BY <3>1
  <2>2. PICK n \in S : \A y \in S : y <= n
    <3>. HIDE DEF S
    <3>. QED BY <2>1, 2 \in Nat, GreatestNumber
  <2>. QED BY <2>2
<1>. DEFINE e == x.enc
            A == {b \in R : b.enc = e}
<1>3. PICK y \in A : \A b \in A : b.id[1] <= y.id[1]
  <2>. DEFINE S == {b.id[1] : b \in A}
  <2>1. S \in SUBSET (0..Len(Half(g, e))) /\ S # {}
    <3>1. \A b \in A : b.id[1] \in 0..Len(Half(g, e))
      BY <1>1
    <3>2. x \in A
      OBVIOUS
    <3>. HIDE DEF A
    <3>. QED BY <3>1, <3>2
  <2>2. PICK n \in S : \A z \in S : z <= n
    <3>1. Len(Half(g, e)) \in Nat
      BY <1>1
    <3>. HIDE DEF S
    <3>. QED BY <2>1, <3>1, GreatestNumber
  <2>. QED BY <2>2
<1>. DEFINE j == y.id[1]
            B == {b \in A : b.id[1] = j}
            M == Len(Stages(Half(g, e), j, d))
<1>4. PICK z \in B : \A b \in B : b.id[2] <= z.id[2]
  <2>. DEFINE S == {b.id[2] : b \in B}
  <2>1. S \in SUBSET (0..M) /\ S # {}
    <3>1. \A b \in B : b.id[2] \in 0..M
      BY <1>1
    <3>2. y \in B
      OBVIOUS
    <3>. HIDE DEF B, M
    <3>. QED BY <3>1, <3>2
  <2>2. PICK n \in S : \A w \in S : w <= n
    <3>1. M \in Nat
      BY <1>1
    <3>. HIDE DEF S, M
    <3>. QED BY <2>1, <3>1, GreatestNumber
  <2>. QED BY <2>2
<1>5. z \in R /\ z.enc = e /\ z.id[1] = j
  OBVIOUS
<1>6. ASSUME NEW b \in R, Precedes(z, b) PROVE FALSE
  <2>0. b.enc \in Int /\ b.id[1] \in Int /\ b.id[2] \in Int
    BY <1>1 DEF Encoders
  <2>0a. z.enc \in Int /\ z.id[1] \in Int /\ z.id[2] \in Int
    BY <1>1, <1>5 DEF Encoders
  <2>1. b.enc <= z.enc
    BY <1>2, <1>5
  <2>2. b.enc = z.enc
    BY <1>6, <2>0, <2>0a, <2>1 DEF Precedes
  <2>3. b \in A /\ b.id[1] <= z.id[1]
    BY <1>3, <1>5, <2>2
  <2>4. b.id[1] = z.id[1]
    BY <1>6, <2>0, <2>0a, <2>2, <2>3 DEF Precedes
  <2>5. b.id[2] <= z.id[2]
    BY <1>4, <1>5, <2>3, <2>4
  <2>. QED BY <1>6, <2>0, <2>0a, <2>2, <2>4, <2>5 DEF Precedes
<1>. QED BY <1>5, <1>6 DEF LastOf

\* Memory is the function its equation describes.
LEMMA MemoryUnfolds ==
  ASSUME NEW g \in Graphs, NEW d \in Devices
  PROVE  LET m == Memory(g, d)
         IN  /\ m[{}] = Blank(g)
             /\ \A R \in SUBSET AllOf(g, d) :
                  R # {} => m[R] = Apply(m[R \ {LastOf(R)}], LastOf(R).run)
<1>. DEFINE K == AllOf(g, d)
            body(f, R) == IF R = {} THEN Blank(g)
                          ELSE Apply(f[R \ {LastOf(R)}], LastOf(R).run)
            Upto(n) == {R \in SUBSET K : Cardinality(R) <= n}
            T == {n \in Nat : \E f : f = [R \in Upto(n) |-> body(f, R)]}
<1>1. \A R \in SUBSET K : IsFiniteSet(R) /\ Cardinality(R) \in Nat
  BY AllAreKnown, FS_Subset, FS_CardinalityType
<1>2. \A R \in SUBSET K : R # {} =>
        /\ R \ {LastOf(R)} \in SUBSET K
        /\ Cardinality(R \ {LastOf(R)}) = Cardinality(R) - 1
  BY <1>1, LastIsLast, FS_RemoveElement
<1>3. ASSUME NEW n \in Nat, \A k \in 0..(n - 1) : k \in T
      PROVE  n \in T
  <2>. SUFFICES \E f : f = [R \in Upto(n) |-> body(f, R)]
    OBVIOUS
  <2>1. CASE n = 0
    <3>. DEFINE f == [R \in Upto(n) |-> Blank(g)]
    <3>1. \A R \in Upto(n) : R = {}
      <4>. TAKE R \in Upto(n)
      <4>1. Cardinality(R) = 0 /\ IsFiniteSet(R)
        BY <1>1, <2>1
      <4>. QED BY <4>1, FS_EmptySet
    <3>2. f = [R \in Upto(n) |-> body(f, R)]
      <4>1. \A R \in Upto(n) : body(f, R) = Blank(g)
        BY <3>1
      <4>. HIDE DEF body, Upto
      <4>. QED BY <4>1
    <3>. QED BY <3>2
  <2>2. CASE n # 0
    <3>1. n - 1 \in T
      <4>1. n - 1 \in 0..(n - 1)
        BY <2>2
      <4>. HIDE DEF T
      <4>. QED BY <1>3, <4>1
    <3>2. PICK h : h = [R \in Upto(n - 1) |-> body(h, R)]
      BY <3>1
    <3>. DEFINE f == [R \in Upto(n) |-> body(h, R)]
    <3>3. \A R \in Upto(n - 1) : R \in Upto(n) /\ f[R] = h[R]
      <4>1. \A R \in Upto(n - 1) : R \in Upto(n)
        BY <1>1
      <4>2. \A R \in Upto(n - 1) : h[R] = body(h, R)
        <5>. HIDE DEF body, Upto
        <5>. QED BY <3>2
      <4>. HIDE DEF body, Upto
      <4>. QED BY <4>1, <4>2
    <3>4. ASSUME NEW R \in Upto(n) PROVE body(h, R) = body(f, R)
      <4>1. CASE R = {}
        BY <4>1
      <4>2. CASE R # {}
        <5>1. R \ {LastOf(R)} \in Upto(n - 1)
          <6>1. /\ Cardinality(R \ {LastOf(R)}) = Cardinality(R) - 1
                /\ Cardinality(R) \in Nat /\ Cardinality(R) <= n
                /\ R \ {LastOf(R)} \in SUBSET K
            BY <1>1, <1>2, <4>2
          <6>. QED BY <6>1
        <5>2. f[R \ {LastOf(R)}] = h[R \ {LastOf(R)}]
          <6>. HIDE DEF f, Upto
          <6>. QED BY <3>3, <5>1
        <5>. HIDE DEF f
        <5>. QED BY <5>2
      <4>. QED BY <4>1, <4>2
    <3>5. f = [R \in Upto(n) |-> body(f, R)]
      <4>. HIDE DEF body, Upto
      <4>. QED BY <3>4
    <3>. QED BY <3>5
  <2>. QED BY <2>1, <2>2
<1>4. \A n \in Nat : n \in T
  <2>1. \A n \in Nat : (\A k \in 0..(n - 1) : k \in T) => n \in T
    BY <1>3
  <2>. HIDE DEF T
  <2>. QED BY <2>1, EveryNumber, Zenon
<1>. DEFINE m == CHOOSE f : f = [R \in SUBSET K |-> body(f, R)]
<1>5. m = [R \in SUBSET K |-> body(m, R)]
  <2>1. Upto(Cardinality(K)) = SUBSET K
    <3>1. \A R \in SUBSET K : Cardinality(R) <= Cardinality(K)
      BY AllAreKnown, FS_Subset
    <3>. QED BY <3>1
  <2>2. Cardinality(K) \in T
    <3>1. Cardinality(K) \in Nat
      BY <1>1
    <3>. HIDE DEF T
    <3>. QED BY <1>4, <3>1
  <2>3. \E f : f = [R \in SUBSET K |-> body(f, R)]
    <3>. HIDE DEF body, Upto
    <3>. QED BY <2>1, <2>2
  <2>. HIDE DEF body
  <2>. QED BY <2>3
<1>6. Memory(g, d) = m
  BY DEF Memory
<1>7. \A R \in SUBSET K : m[R] = body(m, R)
  <2>. HIDE DEF body, m
  <2>. QED BY <1>5
<1>8. {} \in SUBSET K
  OBVIOUS
<1>. HIDE DEF m
<1>. QED BY <1>6, <1>7, <1>8

\* A dispatch leaves alone what it does not write, and its results depend on
\* nothing but what it reads.
LEMMA ResultIsOfReads ==
  ASSUME NEW x, NEW m, NEW w, Reads(x) \subseteq DOMAIN m, Reads(x) \subseteq DOMAIN w,
         \A p \in Reads(x) : m[p] = w[p]
  PROVE  Result(x, m) = Result(x, w)
<1>1. \A k \in DOMAIN x.in : m[x.in[k]] = w[x.in[k]]
  BY DEF Reads, Elems
<1>2. [k \in DOMAIN x.in |-> m[x.in[k]]] = [k \in DOMAIN x.in |-> w[x.in[k]]]
  BY <1>1
<1>. QED BY <1>2 DEF Result

\* Dispatches that do not conflict may be run in either order.
LEMMA DispatchesCommute ==
  ASSUME NEW x, NEW y, ~Conflict(x, y), NEW m,
         Reads(x) \subseteq DOMAIN m, Reads(y) \subseteq DOMAIN m
  PROVE  Apply(Apply(m, x), y) = Apply(Apply(m, y), x)
<1>. DEFINE mx == Apply(m, x)
            my == Apply(m, y)
<1>1. /\ DOMAIN mx = DOMAIN m /\ DOMAIN my = DOMAIN m
      /\ \A p \in DOMAIN m :
           /\ mx[p] = IF p \in Writes(x) THEN Written(x, p, Result(x, m)) ELSE m[p]
           /\ my[p] = IF p \in Writes(y) THEN Written(y, p, Result(y, m)) ELSE m[p]
  BY DEF Apply
<1>2. Result(y, mx) = Result(y, m) /\ Result(x, my) = Result(x, m)
  <2>1. /\ \A p \in Reads(y) : mx[p] = m[p]
        /\ \A p \in Reads(x) : my[p] = m[p]
    <3>. HIDE DEF mx, my
    <3>. QED BY <1>1 DEF Conflict
  <2>. HIDE DEF mx, my
  <2>. QED BY <1>1, <2>1, ResultIsOfReads
<1>3. /\ Apply(mx, y) = [p \in DOMAIN m |-> IF p \in Writes(y) THEN Written(y, p, Result(y, m))
                                            ELSE mx[p]]
      /\ Apply(my, x) = [p \in DOMAIN m |-> IF p \in Writes(x) THEN Written(x, p, Result(x, m))
                                            ELSE my[p]]
  <2>. HIDE DEF mx, my
  <2>. QED BY <1>1, <1>2 DEF Apply
<1>4. ASSUME NEW p \in DOMAIN m
      PROVE  (IF p \in Writes(y) THEN Written(y, p, Result(y, m)) ELSE mx[p])
             = (IF p \in Writes(x) THEN Written(x, p, Result(x, m)) ELSE my[p])
  <2>1. ~(p \in Writes(x) /\ p \in Writes(y))
    BY DEF Conflict
  <2>. HIDE DEF mx, my
  <2>. QED BY <1>1, <2>1
<1>. HIDE DEF mx, my
<1>5. [p \in DOMAIN m |-> IF p \in Writes(y) THEN Written(y, p, Result(y, m)) ELSE mx[p]]
      = [p \in DOMAIN m |-> IF p \in Writes(x) THEN Written(x, p, Result(x, m)) ELSE my[p]]
  BY <1>4
<1>. QED BY <1>3, <1>5 DEF mx, my

\* Memory keeps its places.
LEMMA MemoryKeepsPlaces ==
  ASSUME NEW g \in Graphs, NEW d \in Devices
  PROVE  \A R \in SUBSET AllOf(g, d) : DOMAIN Memory(g, d)[R] = Places(g)
<1>. DEFINE K == AllOf(g, d)
            m == Memory(g, d)
            T == {n \in Nat : \A R \in SUBSET K : Cardinality(R) = n => DOMAIN m[R] = Places(g)}
<1>1. \A R \in SUBSET K : IsFiniteSet(R) /\ Cardinality(R) \in Nat
  BY AllAreKnown, FS_Subset, FS_CardinalityType
<1>2. ASSUME NEW n \in Nat, \A k \in 0..(n - 1) : k \in T
      PROVE  n \in T
  <2>. SUFFICES ASSUME NEW R \in SUBSET K, Cardinality(R) = n
                PROVE  DOMAIN m[R] = Places(g)
    OBVIOUS
  <2>1. CASE R = {}
    BY <2>1, MemoryUnfolds DEF Blank
  <2>2. CASE R # {}
    <3>1. m[R] = Apply(m[R \ {LastOf(R)}], LastOf(R).run)
      BY <2>2, MemoryUnfolds
    <3>2. Cardinality(R \ {LastOf(R)}) = n - 1 /\ R \ {LastOf(R)} \in SUBSET K
      BY <1>1, <2>2, LastIsLast, FS_RemoveElement
    <3>3. n - 1 \in Nat /\ n - 1 \in 0..(n - 1)
      BY <1>1, <3>2
    <3>4. n - 1 \in T
      <4>. HIDE DEF T
      <4>. QED BY <1>2, <3>3
    <3>5. DOMAIN m[R \ {LastOf(R)}] = Places(g)
      <4>. HIDE DEF m, K
      <4>. QED BY <3>2, <3>4
    <3>. HIDE DEF m
    <3>. QED BY <3>1, <3>5 DEF Apply
  <2>. QED BY <2>1, <2>2
<1>3. \A n \in Nat : n \in T
  <2>1. \A n \in Nat : (\A k \in 0..(n - 1) : k \in T) => n \in T
    BY <1>2
  <2>. HIDE DEF T
  <2>. QED BY <2>1, EveryNumber, Zenon
<1>4. ASSUME NEW R \in SUBSET K PROVE DOMAIN m[R] = Places(g)
  <2>1. Cardinality(R) \in T
    <3>. HIDE DEF T
    <3>. QED BY <1>1, <1>3
  <2>. HIDE DEF m
  <2>. QED BY <2>1
<1>. QED BY <1>4

\* A set of dispatches with all that must come before them.
Closed(R, B) == \A x \in R : \A y : <<y, x>> \in B => y \in R

\* The step that matters.  B holds the pairs that the GPU keeps in order: it
\* agrees with the given order, and dispatches it leaves free do not conflict.
\* Then a dispatch run next, whichever it is, could have been run last.
LEMMA AnyNextWillDo ==
  ASSUME NEW g \in Graphs, NEW d \in Devices,
         NEW B \in SUBSET (AllOf(g, d) \X AllOf(g, d)),
         \A x, y \in AllOf(g, d) : <<x, y>> \in B => Precedes(x, y),
         \A x, y \in AllOf(g, d) :
           x # y /\ <<x, y>> \notin B /\ <<y, x>> \notin B => ~Conflict(x.run, y.run),
         NEW R \in SUBSET AllOf(g, d), NEW a \in AllOf(g, d), a \notin R,
         Closed(R, B), Closed(R \cup {a}, B)
  PROVE  Memory(g, d)[R \cup {a}] = Apply(Memory(g, d)[R], a.run)
<1>. DEFINE K == AllOf(g, d)
            m == Memory(g, d)
            Appends(Q, x) == m[Q \cup {x}] = Apply(m[Q], x.run)
            Fits(Q, x) == x \notin Q /\ Closed(Q, B) /\ Closed(Q \cup {x}, B)
            T == {n \in Nat : \A Q \in SUBSET K : Cardinality(Q) = n =>
                    \A x \in K : Fits(Q, x) => Appends(Q, x)}
<1>1. \A Q \in SUBSET K : IsFiniteSet(Q) /\ Cardinality(Q) \in Nat
  BY AllAreKnown, FS_Subset, FS_CardinalityType
<1>2. ASSUME NEW n \in Nat, \A k \in 0..(n - 1) : k \in T
      PROVE  n \in T
  <2>. SUFFICES ASSUME NEW Q \in SUBSET K, Cardinality(Q) = n, NEW x \in K, Fits(Q, x)
                PROVE  Appends(Q, x)
    OBVIOUS
  <2>. DEFINE c == LastOf(Q \cup {x})
              P == Q \ {c}
  <2>1. c \in Q \cup {x} /\ \A b \in Q \cup {x} : ~Precedes(c, b)
    <3>1. Q \cup {x} \in SUBSET AllOf(g, d) /\ Q \cup {x} # {}
      OBVIOUS
    <3>. QED BY <3>1, LastIsLast
  <2>2. m[Q \cup {x}] = Apply(m[(Q \cup {x}) \ {c}], c.run)
    BY MemoryUnfolds, ZenonT(30)
  <2>3. CASE c = x
    <3>1. (Q \cup {x}) \ {c} = Q
      BY <2>3
    <3>. QED BY <2>2, <2>3, <3>1
  <2>4. CASE c # x
    <3>. HIDE DEF c
    <3>1. c \in Q /\ c \in K /\ P \in SUBSET K /\ x \notin P /\ c \notin P
      BY <2>1, <2>4
    <3>2. P \cup {c} = Q /\ (Q \cup {x}) \ {c} = P \cup {x}
      BY <2>4, <3>1
    <3>3. \A b \in Q \cup {x} : <<c, b>> \notin B
      BY <2>1, <3>1
    <3>4. Closed(P, B) /\ Closed(P \cup {x}, B)
      BY <3>1, <3>2, <3>3 DEF Closed
    <3>5. Cardinality(P) \in T
      <4>1. Cardinality(P) = n - 1 /\ Cardinality(P) \in Nat
        BY <1>1, <3>1, FS_RemoveElement
      <4>2. Cardinality(P) \in 0..(n - 1)
        BY <4>1
      <4>. HIDE DEF T, P
      <4>. QED BY <1>2, <4>2
    <3>6. Appends(P, x) /\ Appends(P, c)
      <4>1. Fits(P, x) /\ Fits(P, c)
        BY <3>1, <3>2, <3>4
      <4>. HIDE DEF Appends, Fits, P
      <4>. QED BY <3>1, <3>5, <4>1
    <3>7. ~Conflict(x.run, c.run)
      <4>1. <<x, c>> \notin B
        BY <3>1 DEF Closed
      <4>. QED BY <2>4, <3>1, <3>3, <4>1
    <3>8. Apply(Apply(m[P], x.run), c.run) = Apply(Apply(m[P], c.run), x.run)
      <4>1. /\ DOMAIN m[P] = Places(g)
            /\ Reads(x.run) \subseteq Places(g) /\ Reads(c.run) \subseteq Places(g)
        BY <3>1, MemoryKeepsPlaces, AllAreKnown
      <4>. HIDE DEF m, P
      <4>. QED BY <3>7, <4>1, DispatchesCommute
    <3>. HIDE DEF m, P
    <3>. QED BY <2>2, <3>2, <3>6, <3>8
  <2>. QED BY <2>3, <2>4
<1>3. \A n \in Nat : n \in T
  <2>1. \A n \in Nat : (\A k \in 0..(n - 1) : k \in T) => n \in T
    BY <1>2
  <2>. HIDE DEF T
  <2>. QED BY <2>1, EveryNumber, Zenon
<1>4. Cardinality(R) \in T
  <2>. HIDE DEF T
  <2>. QED BY <1>1, <1>3
<1>5. Appends(R, a)
  <2>. HIDE DEF Appends
  <2>. QED BY <1>4
<1>. QED BY <1>5

\* A dispatch as the program of its encoder has it.
Key(a) == [enc |-> a.enc, group |-> a.id[2], id |-> a.id, run |-> a.run]
Keys(R) == {Key(a) : a \in R}
DispatchedBy(e) == {a \in dispatched : a.enc = e}

\* Dispatches are identified by their encoder and identity, are of nodes already
\* encoded, and are in the groups in the order of the nodes and stages.
IdsAreOrdered ==
  /\ \A a \in dispatched : a.id[1] \in 1..(next[a.enc] - 1)
  /\ \A a, b \in dispatched : a.enc = b.enc /\ a.id = b.id => a = b
  /\ \A a, b \in dispatched : a.enc = b.enc /\ a.group < b.group => Precedes(a, b)

\* What is dispatched and what is left to encode make up the program.
ProgramIsSplit ==
  \A e \in Encoders :
    Keys(DispatchedBy(e)) \cup Program(graph, dev, e)[next[e]] = Program(graph, dev, e)[1]

\* The GPU runs the dispatches when all are encoded, none before those it must
\* wait for, and memory is as if it had run them in order.
RunsInOrder ==
  /\ ran # {} => \A e \in Encoders : Encoded(e)
  /\ \A a \in ran, b \in dispatched : Before(b, a) => b \in ran
  /\ mem = Memory(graph, dev)[Keys(ran)]

SerialInv == MetalInv /\ IdsAreOrdered /\ ProgramIsSplit /\ RunsInOrder

LEMMA InitIsSerial == Init => SerialInv
<1>. SUFFICES ASSUME Init PROVE SerialInv
  OBVIOUS
<1>1. IdsAreOrdered /\ ProgramIsSplit
  BY DEF Init, IdsAreOrdered, ProgramIsSplit, Keys, DispatchedBy
<1>2. RunsInOrder
  <2>1. Keys(ran) = {} /\ graph \in Graphs /\ dev \in Devices /\ mem = Blank(graph)
    BY DEF Init, Keys
  <2>2. mem = Memory(graph, dev)[Keys(ran)]
    BY <2>1, MemoryUnfolds
  <2>. QED BY <2>2 DEF Init, RunsInOrder
<1>. QED BY <1>1, <1>2, InitEstablishes DEF SerialInv

\* Nothing has run while a node is left to encode.
LEMMA SkipStaysSerial ==
  ASSUME SerialInv, NEW e \in Encoders, Skip(e)
  PROVE  SerialInv'
<1>. USE DEF SerialInv
<1>1. MetalInv'
  BY SkipPreserves
<1>2. /\ ~Encoded(e) /\ ~Nodes(e)[next[e]].compute
      /\ next' = [next EXCEPT ![e] = @ + 1]
      /\ UNCHANGED <<graph, dev, ranges, group, dispatched, lib, ran, mem>>
  BY DEF Skip
<1>3. /\ graph \in Graphs /\ dev \in Devices /\ next \in [Encoders -> Nat \ {0}]
      /\ next[e] \in 1..Len(Half(graph, e)) /\ Len(Half(graph, e)) \in Nat
  <2>1. graph \in Graphs /\ dev \in Devices /\ next \in [Encoders -> Nat \ {0}]
    BY DEF MetalInv, MetalTypeOK
  <2>2. next[e] \in DOMAIN Nodes(e) /\ DOMAIN Nodes(e) = 1..Len(Nodes(e)) /\ Len(Nodes(e)) \in Nat
    BY <1>2, <2>1, NextIsDeclared, HalfIsKnown DEF MetalInv, Nodes
  <2>. QED BY <2>1, <2>2 DEF Nodes
<1>4. next'[e] = next[e] + 1 /\ \A f \in Encoders : f # e => next'[f] = next[f]
  BY <1>2, <1>3
<1>5. IdsAreOrdered'
  <2>1. ASSUME NEW a \in dispatched PROVE a.id[1] \in 1..(next'[a.enc] - 1)
    <3>1. a.enc \in Encoders /\ a.id[1] \in 1..(next[a.enc] - 1)
      BY DEF MetalInv, GroupsAreBegun, IdsAreOrdered
    <3>2. CASE a.enc = e
      BY <1>3, <1>4, <3>1, <3>2
    <3>3. CASE a.enc # e
      BY <1>4, <3>1, <3>3
    <3>. QED BY <3>2, <3>3
  <2>. QED BY <1>2, <2>1 DEF IdsAreOrdered
<1>6. ProgramIsSplit'
  <2>1. Program(graph, dev, e)[next[e]] = Program(graph, dev, e)[next'[e]]
    <3>1. \A j \in 1..Len(Half(graph, e)) : ~Half(graph, e)[j].compute =>
            Program(graph, dev, e)[j] = Program(graph, dev, e)[j + 1]
      BY <1>3, ProgramUnfolds, ZenonT(30)
    <3>2. ~Half(graph, e)[next[e]].compute
      BY <1>2 DEF Nodes
    <3>. QED BY <1>3, <1>4, <3>1, <3>2
  <2>2. \A f \in Encoders : Program(graph, dev, f)[next[f]] = Program(graph, dev, f)[next'[f]]
    BY <1>4, <2>1
  <2>3. \A f \in Encoders : DispatchedBy(f)' = DispatchedBy(f)
    BY <1>2 DEF DispatchedBy
  <2>. QED BY <1>2, <2>2, <2>3 DEF ProgramIsSplit, Keys
<1>7. RunsInOrder'
  BY <1>2 DEF RunsInOrder, Keys
<1>. QED BY <1>1, <1>5, <1>6, <1>7

LEMMA EncodeStaysSerial ==
  ASSUME SerialInv, NEW e \in Encoders, Encode(e)
  PROVE  SerialInv'
<1>. USE DEF SerialInv
<1>. DEFINE nodes  == Nodes(e)
            i      == next[e]
            stages == Stages(nodes, i, dev)
            first  == IF Joins(ranges[e], nodes, i, dev) THEN group[e] ELSE group[e] + 1
            new    == Dispatches(e, i, stages, first)
            step   == Fused(nodes, i, dev)
<1>1. MetalInv'
  BY EncodePreserves
<1>2. /\ ~Encoded(e) /\ nodes[i].compute
      /\ next' = [next EXCEPT ![e] = @ + step]
      /\ dispatched' = dispatched \cup new
      /\ UNCHANGED <<graph, dev, ran, mem>>
  BY DEF Encode
<1>3. /\ graph \in Graphs /\ dev \in Devices
      /\ next \in [Encoders -> Nat \ {0}] /\ group \in [Encoders -> Nat \ {0}]
  BY DEF MetalInv, MetalTypeOK
<1>4. /\ i \in 1..Len(Half(graph, e)) /\ Len(Half(graph, e)) \in Nat
      /\ step \in Nat \ {0} /\ Declared(nodes, i, dev)
  <2>1. i \in DOMAIN nodes /\ DOMAIN nodes = 1..Len(nodes) /\ Len(nodes) \in Nat
    BY <1>2, <1>3, NextIsDeclared, HalfIsKnown DEF MetalInv, Nodes
  <2>2. step \in 1..(Len(nodes) - i + 1) /\ Declared(nodes, i, dev)
    BY <1>2, <1>3, <2>1, HalfIsKnown DEF Nodes
  <2>. QED BY <2>1, <2>2 DEF Nodes
<1>5. next'[e] = i + step /\ \A f \in Encoders : f # e => next'[f] = next[f]
  BY <1>2, <1>3
<1>6. /\ DOMAIN stages = 1..Len(stages) /\ Len(stages) \in Nat
      /\ first \in {group[e], group[e] + 1}
  BY <1>4 DEF Declared
<1>7. \A b \in new : \E s \in DOMAIN stages : \E k \in DOMAIN stages[s] :
        /\ b.enc = e /\ b.group = first + s - 1
        /\ b.id = <<i, s, k>> /\ b.run = stages[s][k]
  BY DispatchesAreOfStages
<1>8. Keys(new) = Dispatches(e, i, stages, 1)
  <2>. DEFINE at(f, s, k) == [enc |-> e, group |-> f + s - 1, id |-> <<i, s, k>>,
                              run |-> stages[s][k]]
  <2>1. \A s \in DOMAIN stages : \A k \in DOMAIN stages[s] : Key(at(first, s, k)) = at(1, s, k)
    <3>1. \A s \in DOMAIN stages : 1 + s - 1 = s
      BY <1>6
    <3>. HIDE DEF stages, first, i
    <3>. QED BY <3>1 DEF Key
  <2>2. \A f, b : b \in Dispatches(e, i, stages, f) <=>
          \E s \in DOMAIN stages : \E k \in DOMAIN stages[s] : b = at(f, s, k)
    <3>. HIDE DEF stages, i
    <3>. QED BY DEF Dispatches
  <2>. HIDE DEF at, stages, first, i
  <2>. QED BY <2>1, <2>2 DEF Keys
<1>. HIDE DEF nodes, i, stages, first, new, step
<1>9. IdsAreOrdered'
  <2>1. ASSUME NEW a \in dispatched
        PROVE  a.id[1] \in 1..(next'[a.enc] - 1) /\ (a.enc = e => a.id[1] < i /\ a.group <= group[e])
    <3>1. /\ a.enc \in Encoders /\ a.id[1] \in 1..(next[a.enc] - 1)
          /\ a.group \in 1..group[a.enc]
      BY DEF MetalInv, GroupsAreBegun, IdsAreOrdered
    <3>2. CASE a.enc = e
      <4>1. a.id[1] \in 1..(i - 1) /\ a.group \in 1..group[e]
        BY <3>1, <3>2 DEF i
      <4>2. i \in Nat /\ step \in Nat \ {0} /\ group[e] \in Nat
        BY <1>3, <1>4
      <4>. QED BY <1>5, <3>2, <4>1, <4>2
    <3>3. CASE a.enc # e
      BY <1>5, <3>1, <3>3
    <3>. QED BY <3>2, <3>3
  <2>2. ASSUME NEW b \in new
        PROVE  /\ b.enc = e /\ b.id[1] = i /\ b.id[2] \in Nat \ {0}
               /\ b.group = first + b.id[2] - 1
               /\ b = [enc |-> e, group |-> first + b.id[2] - 1, id |-> b.id,
                       run |-> stages[b.id[2]][b.id[3]]]
    <3>1. PICK s \in DOMAIN stages : b \in
            {[enc |-> e, group |-> first + s - 1, id |-> <<i, s, k>>, run |-> stages[s][k]] :
               k \in DOMAIN stages[s]}
      BY DEF Dispatches, new
    <3>2. PICK k \in DOMAIN stages[s] :
            b = [enc |-> e, group |-> first + s - 1, id |-> <<i, s, k>>, run |-> stages[s][k]]
      BY <3>1
    <3>3. s \in Nat \ {0}
      BY <1>6
    <3>. QED BY <3>2, <3>3
  <2>3. ASSUME NEW b \in new PROVE b.id[1] \in 1..(next'[b.enc] - 1)
    <3>1. b.enc = e /\ b.id[1] = i
      BY <2>2
    <3>. QED BY <1>4, <1>5, <3>1
  <2>4. ASSUME NEW a \in dispatched', NEW b \in dispatched', a.enc = b.enc, a.id = b.id
        PROVE  a = b
    <3>1. CASE a \in dispatched /\ b \in dispatched
      BY <2>4, <3>1 DEF IdsAreOrdered
    <3>2. CASE a \in new /\ b \in new
      BY <2>2, <2>4, <3>2
    <3>3. CASE a \in dispatched /\ b \in new
      <4>1. b.enc = e /\ b.id[1] = i /\ i \in Nat
        BY <1>4, <2>2, <3>3
      <4>2. a.id[1] < i
        BY <2>1, <2>4, <3>3, <4>1
      <4>. QED BY <2>4, <4>1, <4>2
    <3>4. CASE a \in new /\ b \in dispatched
      <4>1. a.enc = e /\ a.id[1] = i /\ i \in Nat
        BY <1>4, <2>2, <3>4
      <4>2. b.id[1] < i
        BY <2>1, <2>4, <3>4, <4>1
      <4>. QED BY <2>4, <4>1, <4>2
    <3>. QED BY <1>2, <3>1, <3>2, <3>3, <3>4
  <2>5. ASSUME NEW a \in dispatched', NEW b \in dispatched', a.enc = b.enc, a.group < b.group
        PROVE  Precedes(a, b)
    <3>. PICK ge \in Nat : ge = group[e]
      BY <1>3
    <3>0. first \in Nat /\ ge <= first
      BY <1>6
    <3>1. CASE a \in dispatched /\ b \in dispatched
      BY <2>5, <3>1 DEF IdsAreOrdered
    <3>2. CASE a \in new /\ b \in new
      <4>1. /\ a.group = first + a.id[2] - 1 /\ b.group = first + b.id[2] - 1
            /\ a.id[2] \in Nat /\ b.id[2] \in Nat /\ a.id[1] = b.id[1]
        BY <2>2, <3>2
      <4>2. a.id[2] < b.id[2]
        BY <2>5, <3>0, <4>1
      <4>. QED BY <2>5, <4>1, <4>2 DEF Precedes
    <3>3. CASE a \in dispatched /\ b \in new
      BY <2>1, <2>2, <2>5, <3>3 DEF Precedes
    <3>4. CASE a \in new /\ b \in dispatched
      <4>1. /\ a.enc = e /\ a.group = first + a.id[2] - 1 /\ a.id[2] \in Nat \ {0}
        BY <2>2, <3>4
      <4>2. b.group <= ge /\ b.group \in Int
        <5>1. b.enc = e /\ b.group \in 1..group[b.enc]
          BY <2>5, <3>4, <4>1 DEF MetalInv, GroupsAreBegun
        <5>. QED BY <5>1
      <4>. QED BY <2>5, <3>0, <4>1, <4>2
    <3>. QED BY <1>2, <3>1, <3>2, <3>3, <3>4
  <2>. QED BY <1>2, <2>1, <2>3, <2>4, <2>5 DEF IdsAreOrdered
<1>10. ProgramIsSplit'
  <2>1. Program(graph, dev, e)[i] = Keys(new) \cup Program(graph, dev, e)[next'[e]]
    <3>1. \A j \in 1..Len(Half(graph, e)) : Half(graph, e)[j].compute =>
            Program(graph, dev, e)[j]
              = Dispatches(e, j, Stages(Half(graph, e), j, dev), 1)
                \cup Program(graph, dev, e)[j + Fused(Half(graph, e), j, dev)]
      BY <1>3, ProgramUnfolds
    <3>2. Half(graph, e)[i].compute
      BY <1>2 DEF Nodes, nodes
    <3>. QED BY <1>4, <1>5, <1>8, <3>1, <3>2 DEF Nodes, nodes, stages, step
  <2>2. \A b \in new : b.enc = e
    BY <1>7
  <2>3. DispatchedBy(e)' = DispatchedBy(e) \cup new
    BY <1>2, <2>2 DEF DispatchedBy
  <2>4. \A f \in Encoders : f # e => DispatchedBy(f)' = DispatchedBy(f)
    BY <1>2, <2>2 DEF DispatchedBy
  <2>5. Keys(DispatchedBy(e)') = Keys(DispatchedBy(e)) \cup Keys(new)
    BY <2>3 DEF Keys
  <2>6. ASSUME NEW f \in Encoders
        PROVE  Keys(DispatchedBy(f)') \cup Program(graph, dev, f)[next'[f]] = Program(graph, dev, f)[1]
    <3>1. CASE f = e
      BY <2>1, <2>5, <3>1 DEF ProgramIsSplit, i
    <3>2. CASE f # e
      BY <1>5, <2>4, <3>2 DEF ProgramIsSplit
    <3>. QED BY <3>1, <3>2
  <2>. QED BY <1>2, <2>6 DEF ProgramIsSplit, Keys
<1>11. RunsInOrder'
  <2>1. ran = {}
    BY <1>2 DEF RunsInOrder
  <2>. QED BY <1>2, <2>1 DEF RunsInOrder, Keys
<1>. QED BY <1>1, <1>9, <1>10, <1>11

\* When both encoders are done, all of the program is dispatched.
LEMMA AllAreDispatched ==
  ASSUME SerialInv, \A e \in Encoders : Encoded(e)
  PROVE  Keys(dispatched) = AllOf(graph, dev)
<1>. USE DEF SerialInv
<1>1. /\ graph \in Graphs /\ dev \in Devices
      /\ \A b \in dispatched : b.enc \in Encoders
  BY DEF MetalInv, MetalTypeOK, GroupsAreBegun
<1>2. ASSUME NEW e \in Encoders PROVE Program(graph, dev, e)[1] = Keys(DispatchedBy(e))
  <2>1. next[e] = Len(Half(graph, e)) + 1
    <3>1. /\ next[e] \in Nat /\ Len(Half(graph, e)) \in Nat
          /\ next[e] <= Len(Half(graph, e)) + 1 /\ next[e] > Len(Half(graph, e))
      BY <1>1, HalfIsKnown DEF MetalInv, MetalTypeOK, Nodes, Encoded
    <3>. QED BY <3>1
  <2>2. Program(graph, dev, e)[next[e]] = {}
    BY <1>1, <2>1, ProgramUnfolds
  <2>. QED BY <2>2 DEF ProgramIsSplit
<1>3. dispatched = DispatchedBy(1) \cup DispatchedBy(2)
  BY <1>1 DEF DispatchedBy, Encoders
<1>4. Keys(dispatched) = Keys(DispatchedBy(1)) \cup Keys(DispatchedBy(2))
  BY <1>3 DEF Keys
<1>. QED BY <1>2, <1>4 DEF AllOf, Encoders

\* Whichever dispatch the GPU picks.
LEMMA ExecuteStaysSerial == ASSUME SerialInv, Execute PROVE SerialInv'
<1>. USE DEF SerialInv
<1>1. MetalInv'
  BY ExecutePreserves
<1>2. /\ \A e \in Encoders : Encoded(e)
      /\ UNCHANGED <<graph, dev, next, ranges, group, dispatched, lib>>
  BY DEF Execute
<1>3. PICK a \in dispatched \ ran :
        /\ \A b \in dispatched : Before(b, a) => b \in ran
        /\ ran' = ran \cup {a}
        /\ mem' = Apply(mem, a.run)
  BY DEF Execute
<1>4. /\ graph \in Graphs /\ dev \in Devices /\ ran \subseteq dispatched
      /\ \A b \in dispatched : b.enc \in Encoders /\ b.group \in Nat
  BY DEF MetalInv, MetalTypeOK, GroupsAreBegun
<1>. DEFINE K == AllOf(graph, dev)
            B == {p \in K \X K : \E x, y \in dispatched :
                    p = <<Key(x), Key(y)>> /\ Before(x, y)}
<1>5. K = Keys(dispatched)
  BY <1>2, AllAreDispatched
<1>6. \A x, y \in dispatched : Key(x) = Key(y) => x = y
  <2>1. \A x, y \in dispatched : Key(x) = Key(y) => x.enc = y.enc /\ x.id = y.id
    BY DEF Key
  <2>. QED BY <2>1 DEF IdsAreOrdered
<1>7. \A x : Key(x).enc = x.enc /\ Key(x).id = x.id /\ Key(x).run = x.run
  BY DEF Key
<1>8. \A x, y \in dispatched : Before(x, y) <=> <<Key(x), Key(y)>> \in B
  <2>1. \A x, y \in dispatched : Key(x) \in K /\ Key(y) \in K
    BY <1>5 DEF Keys
  <2>2. \A x, y, v, w : <<x, y>> = <<v, w>> => x = v /\ y = w
    OBVIOUS
  <2>. HIDE DEF K
  <2>. QED BY <1>6, <2>1, <2>2
<1>9. B \in SUBSET (K \X K)
  OBVIOUS
<1>. HIDE DEF B
<1>10. \A x, y \in K : <<x, y>> \in B => Precedes(x, y)
  <2>. SUFFICES ASSUME NEW x \in dispatched, NEW y \in dispatched, Before(x, y)
                PROVE  Precedes(Key(x), Key(y))
    BY <1>5, <1>8 DEF Keys
  <2>1. Precedes(x, y)
    BY DEF Before, Precedes, IdsAreOrdered
  <2>. QED BY <1>7, <2>1 DEF Precedes
<1>11. \A x, y \in K : x # y /\ <<x, y>> \notin B /\ <<y, x>> \notin B
                         => ~Conflict(x.run, y.run)
  <2>. SUFFICES ASSUME NEW x \in dispatched, NEW y \in dispatched, Key(x) # Key(y),
                       ~Before(x, y), ~Before(y, x)
                PROVE  ~Conflict(Key(x).run, Key(y).run)
    BY <1>5, <1>8 DEF Keys
  <2>1. x.enc = y.enc /\ x.group = y.group
    <3>1. /\ x.enc \in Int /\ y.enc \in Int /\ x.group \in Int /\ y.group \in Int
      BY <1>4 DEF Encoders
    <3>. QED BY <3>1 DEF Before
  <2>2. x.id # y.id
    BY <2>1 DEF IdsAreOrdered
  <2>. QED BY <1>7, <2>1, <2>2 DEF MetalInv, NoRace
<1>12. \A R \in SUBSET dispatched :
         (\A x \in R, y \in dispatched : Before(y, x) => y \in R) => Closed(Keys(R), B)
  <2>. SUFFICES ASSUME NEW R \in SUBSET dispatched,
                       \A x \in R, y \in dispatched : Before(y, x) => y \in R,
                       NEW u \in Keys(R), NEW w, <<w, u>> \in B
                PROVE  w \in Keys(R)
    BY DEF Closed
  <2>1. PICK x \in R : u = Key(x)
    BY DEF Keys
  <2>2. w \in K
    BY <1>9
  <2>3. PICK y \in dispatched : w = Key(y)
    BY <1>5, <2>2 DEF Keys
  <2>4. Before(y, x)
    BY <1>8, <2>1, <2>3
  <2>. QED BY <2>1, <2>3, <2>4 DEF Keys
<1>13. Closed(Keys(ran), B) /\ Closed(Keys(ran) \cup {Key(a)}, B)
  <2>1. Closed(Keys(ran), B)
    BY <1>4, <1>12 DEF RunsInOrder
  <2>2. Closed(Keys(ran \cup {a}), B)
    <3>1. \A x \in ran \cup {a}, y \in dispatched : Before(y, x) => y \in ran \cup {a}
      BY <1>3 DEF RunsInOrder
    <3>2. ran \cup {a} \in SUBSET dispatched
      BY <1>4
    <3>. QED BY <1>12, <3>1, <3>2
  <2>3. Keys(ran \cup {a}) = Keys(ran) \cup {Key(a)}
    BY DEF Keys
  <2>. QED BY <2>1, <2>2, <2>3
<1>14. Keys(ran) \in SUBSET K /\ Key(a) \in K /\ Key(a) \notin Keys(ran)
  <2>1. Key(a) \notin Keys(ran)
    BY <1>3, <1>4, <1>6 DEF Keys
  <2>. QED BY <1>3, <1>4, <1>5, <2>1 DEF Keys
<1>15. Memory(graph, dev)[Keys(ran) \cup {Key(a)}] = Apply(Memory(graph, dev)[Keys(ran)], Key(a).run)
  BY <1>4, <1>9, <1>10, <1>11, <1>13, <1>14, AnyNextWillDo
<1>16. mem' = Memory(graph, dev)[Keys(ran')]
  <2>1. Keys(ran') = Keys(ran) \cup {Key(a)}
    BY <1>3 DEF Keys
  <2>. QED BY <1>3, <1>7, <1>15, <2>1 DEF RunsInOrder
<1>17. RunsInOrder'
  <2>1. \A e \in Encoders : Encoded(e)'
    BY <1>2 DEF Encoded, Nodes
  <2>2. \A x \in ran', y \in dispatched' : Before(y, x) => y \in ran'
    BY <1>2, <1>3 DEF RunsInOrder
  <2>. QED BY <1>2, <1>16, <2>1, <2>2 DEF RunsInOrder, Keys
<1>18. IdsAreOrdered' /\ ProgramIsSplit'
  BY <1>2 DEF IdsAreOrdered, ProgramIsSplit, DispatchedBy, Keys
<1>. QED BY <1>1, <1>17, <1>18

LEMMA StutterStaysSerial == ASSUME SerialInv, UNCHANGED vars PROVE SerialInv'
<1>. USE DEF SerialInv
<1>1. MetalInv'
  BY StutterPreserves
<1>2. IdsAreOrdered' /\ ProgramIsSplit' /\ RunsInOrder'
  BY DEF vars, IdsAreOrdered, ProgramIsSplit, DispatchedBy, Keys, RunsInOrder, Encoded, Nodes
<1>. QED BY <1>1, <1>2

THEOREM SerialInvariant == Spec => []SerialInv
<1>1. SerialInv /\ [Next]_vars => SerialInv'
  BY SkipStaysSerial, EncodeStaysSerial, ExecuteStaysSerial, StutterStaysSerial DEF Next
<1>. QED BY InitIsSerial, <1>1, PTL DEF Spec

\* When the GPU has run everything, memory holds what the dispatches leave when
\* they are run in order, however the two encoders took turns, whichever nodes
\* they put into one group and whichever order the GPU chose within it.
MemoryIsInOrder == Finished => mem = InOrder(graph, dev)
THEOREM OrderIsImmaterial == Spec => []MemoryIsInOrder
<1>1. SerialInv => MemoryIsInOrder
  <2>. SUFFICES ASSUME SerialInv, Finished PROVE mem = InOrder(graph, dev)
    BY DEF MemoryIsInOrder
  <2>1. Keys(dispatched) = AllOf(graph, dev)
    BY AllAreDispatched DEF Finished, SerialInv
  <2>. QED BY <2>1 DEF Finished, SerialInv, RunsInOrder, InOrder
<1>. QED BY SerialInvariant, <1>1, PTL

\* Fusing loses nothing: the results of the operations in order, the nodes fused
\* as the device allows, are those of the nodes one by one.
FusionKeepsResults ==
  \A g \in Graphs, d \in Devices : \A p \in Results(g) : InOrder(g, d)[p] = Serially(g, d)[p]

\* For graphs whose fused operations compute what their nodes do, the results
\* are those of the nodes one after the other.
THEOREM ResultsFollowSerially ==
  ASSUME FusionKeepsResults
  PROVE  Spec => []ResultsAreSerial
<1>1. SerialInv /\ MemoryIsInOrder => ResultsAreSerial
  BY DEF FusionKeepsResults, MemoryIsInOrder, ResultsAreSerial, SerialInv, MetalInv, MetalTypeOK
<1>. QED BY SerialInvariant, OrderIsImmaterial, <1>1, PTL
-------------------------------------------------------------------------------
(* Names and pipelines.  A compiled pipeline is kept under a name that is     *)
(* printed from the kernel and its constants, not all of them and not as they *)
(* are compiled.  That the name nevertheless tells the constants is shown     *)
(* getter by getter; each operation asks by names only that its getters made; *)
(* so the library has under each name the one pipeline the name tells.        *)

\* The constants a kernel is compiled with, told from the name it is kept under.
ConstsOf(name) ==
  LET with   == name.with
      kernel == name.base.kernel
  IN  CASE with = NoFields -> NoFields
        [] with # NoFields /\ kernel \in {"diag", "ssm_scan", "mul_mm_id_map0"} -> NoFields
        [] with # NoFields /\ kernel = "ssm_conv_batched" ->
             [ssm_conv_bs |-> Int16(with.ssm_conv_bs)]
        [] with # NoFields /\ kernel = "gated_delta_net" ->
             [ne20 |-> Int16(with.ne20), ne30 |-> Int16(with.ne30)]
        [] with # NoFields /\ kernel = "solve_tri" ->
             [nsg |-> 8, n |-> Int16(with.n), k |-> Int16(with.k)]
        [] with # NoFields /\ kernel = "bin_fuse" /\ "rb" \notin DOMAIN with ->
             [op |-> with.op, nf |-> with.nf, rb |-> FALSE]
        [] OTHER -> with

\* A request is named after all that it asks for.
WellNamed(req) ==
  /\ {"name", "base", "consts"} \subseteq DOMAIN req
  /\ req.name.base = req.base /\ req.consts = ConstsOf(req.name)

\* A request whose constants are those its name tells.
LEMMA RequestIsNamed ==
  ASSUME NEW base, NEW with, NEW consts, consts = ConstsOf([base |-> base, with |-> with])
  PROVE  WellNamed(Request(base, with, consts))
  BY DEF Request, WellNamed

\* Without constants there is nothing to tell.
LEMMA PlainIsNamed == ASSUME NEW base PROVE WellNamed(Plain(base))
  BY RequestIsNamed DEF Plain, ConstsOf

Special == {"diag", "ssm_scan", "mul_mm_id_map0", "ssm_conv_batched",
            "gated_delta_net", "solve_tri", "bin_fuse"}

\* The kernels whose constants are printed into the name as they are.
LEMMA OrdinaryIsNamed ==
  ASSUME NEW base, base.kernel \notin Special, NEW how
  PROVE  WellNamed(Request(base, how, how))
<1>1. how = ConstsOf([base |-> base, with |-> how])
  BY DEF Special, ConstsOf
<1>. QED BY <1>1, RequestIsNamed

\* The kernels whose constants are not what is printed into the name.
LEMMA SpecialIsNamed ==
  ASSUME NEW base, NEW a, NEW b, NEW c
  PROVE  /\ base.kernel \in {"diag", "ssm_scan", "mul_mm_id_map0"} =>
              \A with : WellNamed(Request(base, with, NoFields))
         /\ base.kernel = "ssm_conv_batched" =>
              WellNamed(Request(base, [ssm_conv_bs |-> a], [ssm_conv_bs |-> Int16(a)]))
         /\ base.kernel = "gated_delta_net" =>
              WellNamed(Request(base, [ne20 |-> a, ne30 |-> b],
                                [ne20 |-> Int16(a), ne30 |-> Int16(b)]))
         /\ base.kernel = "solve_tri" =>
              WellNamed(Request(base, [nsg |-> 8, n |-> a, k |-> b],
                                [nsg |-> 8, n |-> Int16(a), k |-> Int16(b)]))
         /\ base.kernel = "bin_fuse" =>
              /\ WellNamed(Request(base, [op |-> a, nf |-> b],
                                   [op |-> a, nf |-> b, rb |-> FALSE]))
              /\ \A how : "rb" \in DOMAIN how => WellNamed(Request(base, how, how))
<1>1. ASSUME base.kernel \in {"diag", "ssm_scan", "mul_mm_id_map0"}, NEW with
      PROVE  WellNamed(Request(base, with, NoFields))
  <2>1. NoFields = ConstsOf([base |-> base, with |-> with])
    BY <1>1 DEF ConstsOf
  <2>. QED BY <2>1, RequestIsNamed
<1>2. ASSUME base.kernel = "ssm_conv_batched"
      PROVE  WellNamed(Request(base, [ssm_conv_bs |-> a], [ssm_conv_bs |-> Int16(a)]))
  <2>1. [ssm_conv_bs |-> Int16(a)] = ConstsOf([base |-> base, with |-> [ssm_conv_bs |-> a]])
    BY <1>2 DEF ConstsOf, NoFields
  <2>. QED BY <2>1, RequestIsNamed
<1>3. ASSUME base.kernel = "gated_delta_net"
      PROVE  WellNamed(Request(base, [ne20 |-> a, ne30 |-> b],
                               [ne20 |-> Int16(a), ne30 |-> Int16(b)]))
  <2>1. [ne20 |-> Int16(a), ne30 |-> Int16(b)]
          = ConstsOf([base |-> base, with |-> [ne20 |-> a, ne30 |-> b]])
    BY <1>3 DEF ConstsOf, NoFields
  <2>. QED BY <2>1, RequestIsNamed
<1>4. ASSUME base.kernel = "solve_tri"
      PROVE  WellNamed(Request(base, [nsg |-> 8, n |-> a, k |-> b],
                               [nsg |-> 8, n |-> Int16(a), k |-> Int16(b)]))
  <2>1. [nsg |-> 8, n |-> Int16(a), k |-> Int16(b)]
          = ConstsOf([base |-> base, with |-> [nsg |-> 8, n |-> a, k |-> b]])
    BY <1>4 DEF ConstsOf, NoFields
  <2>. QED BY <2>1, RequestIsNamed
<1>5. ASSUME base.kernel = "bin_fuse"
      PROVE  WellNamed(Request(base, [op |-> a, nf |-> b], [op |-> a, nf |-> b, rb |-> FALSE]))
  <2>1. [op |-> a, nf |-> b, rb |-> FALSE]
          = ConstsOf([base |-> base, with |-> [op |-> a, nf |-> b]])
    BY <1>5 DEF ConstsOf, NoFields
  <2>. QED BY <2>1, RequestIsNamed
<1>6. ASSUME base.kernel = "bin_fuse", NEW how, "rb" \in DOMAIN how
      PROVE  WellNamed(Request(base, how, how))
  <2>1. how = ConstsOf([base |-> base, with |-> how])
    BY <1>6 DEF ConstsOf
  <2>. QED BY <2>1, RequestIsNamed
<1>. QED BY <1>1, <1>2, <1>3, <1>4, <1>5, <1>6

\* What a getter sets afterwards is no part of the name.
LEMMA DispatchIsNotNamed ==
  ASSUME NEW req, WellNamed(req)
  PROVE  /\ \A v : WellNamed([req EXCEPT !.nsg = v])
         /\ \A v : WellNamed([req EXCEPT !.smem = v])
         /\ \A v, w : WellNamed([req EXCEPT !.nsg = v, !.smem = w])
         /\ \A v, w : WellNamed([req EXCEPT !.smem = v, !.nsg = w])
         /\ \A v, w : WellNamed([req EXCEPT !.c4 = v, !.cnt = w])
         /\ \A v, w : WellNamed([req EXCEPT !.smem = v, !.c4 = w])
         /\ \A v, w : WellNamed([req EXCEPT !.c4 = v, !.smem = w])
         /\ \A v, w, x, y : WellNamed([req EXCEPT !.nr0 = v, !.nr1 = w, !.nsg = x, !.smem = y])
         /\ \A v, w, x, y : WellNamed([req EXCEPT !.nsg = v, !.nr0 = w, !.nr1 = x, !.smem = y])
  BY DEF WellNamed

\* Every getter of a kernel without function constants.
LEMMA PlainGettersAreNamed ==
  ASSUME NEW op
  PROVE  /\ WellNamed(PipelineBase(op))
         /\ WellNamed(PipelinePool1d(op))
         /\ WellNamed(PipelinePool2d(op))
         /\ WellNamed(PipelineGlu(op))
         /\ WellNamed(PipelineSum(op))
         /\ WellNamed(PipelineCumsumBlk(op))
         /\ WellNamed(PipelineCumsumAdd(op))
         /\ WellNamed(PipelineTri(op))
         /\ WellNamed(PipelineSsmConv(op))
         /\ WellNamed(PipelineRwkv(op))
         /\ WellNamed(PipelineArgsort(op))
         /\ WellNamed(PipelineArgsortMerge(op))
         /\ WellNamed(PipelineTopK(op))
         /\ WellNamed(PipelineTopKMerge(op))
         /\ WellNamed(PipelineIm2col(op))
         /\ WellNamed(PipelineConvTranspose1d(op))
         /\ WellNamed(PipelineConvTranspose2d(op))
         /\ WellNamed(PipelineConv2d(op))
         /\ WellNamed(PipelineConv3d(op))
         /\ WellNamed(PipelineRoll(op))
         /\ WellNamed(PipelinePad(op))
         /\ WellNamed(PipelinePadReflect1d(op))
         /\ WellNamed(PipelineArange(op))
         /\ WellNamed(PipelineTimestepEmbedding(op))
         /\ WellNamed(PipelineOptStepAdamw(op))
         /\ WellNamed(PipelineOptStepSgd(op))
         /\ WellNamed(PipelineMemset(op))
         /\ \A a : WellNamed(PipelineGetRows(a)) /\ WellNamed(PipelineRepeat(a))
         /\ \A a, b : WellNamed(PipelineCpy(a, b)) /\ WellNamed(PipelineSetRows(a, b))
  BY PlainIsNamed
  DEF PipelineBase, PipelinePool1d, PipelinePool2d, PipelineGlu, PipelineSum,
         PipelineCumsumBlk, PipelineCumsumAdd, PipelineTri, PipelineSsmConv,
         PipelineRwkv, PipelineArgsort, PipelineArgsortMerge, PipelineTopK,
         PipelineTopKMerge, PipelineIm2col, PipelineConvTranspose1d,
         PipelineConvTranspose2d, PipelineConv2d, PipelineConv3d, PipelineRoll,
         PipelinePad, PipelinePadReflect1d, PipelineArange, PipelineTimestepEmbedding,
         PipelineOptStepAdamw, PipelineOptStepSgd, PipelineMemset, PipelineGetRows,
         PipelineRepeat, PipelineCpy, PipelineSetRows

\* Those that also set the memory of a group.
LEMMA PlainGettersWithMemoryAreNamed ==
  ASSUME NEW op
  PROVE  /\ WellNamed(PipelineArgmax(op)) /\ WellNamed(PipelineGroupNorm(op))
         /\ WellNamed(PipelineSoftMax(op)) /\ WellNamed(PipelineL2Norm(op))
         /\ \A n : WellNamed(PipelineNorm(op, n))
<1>1. WellNamed(PipelineArgmax(op))
  <2>1. WellNamed(Plain([kernel |-> "argmax", src |-> Type(op, 0)]))
    BY PlainIsNamed
  <2>. QED BY <2>1 DEF PipelineArgmax, WellNamed
<1>2. WellNamed(PipelineGroupNorm(op))
  <2>1. WellNamed(Plain([kernel |-> "group_norm_f32"]))
    BY PlainIsNamed
  <2>. QED BY <2>1 DEF PipelineGroupNorm, WellNamed
<1>3. WellNamed(PipelineSoftMax(op))
  <2>1. WellNamed(Plain([kernel |-> "soft_max",
                        src1 |-> IF Has(op, 1) THEN Type(op, 1) ELSE "f32",
                        v4 |-> ByFour(op.src[0])]))
    BY PlainIsNamed
  <2>. QED BY <2>1 DEF PipelineSoftMax, WellNamed
<1>4. WellNamed(PipelineL2Norm(op))
  <2>1. WellNamed(Plain([kernel |-> "l2_norm", src |-> Type(op, 0), dst |-> op.type,
                        v4 |-> ByFour(op.src[0])]))
    BY PlainIsNamed
  <2>. QED BY <2>1 DEF PipelineL2Norm, WellNamed
<1>5. ASSUME NEW n PROVE WellNamed(PipelineNorm(op, n))
  <2>1. WellNamed(Plain([kernel |-> op.op, nf |-> n, v4 |-> ByFour(op),
                        whisper_1280 |-> op.op = "NORM" /\ op.ne[0] = 1280]))
    BY PlainIsNamed
  <2>. QED BY <2>1 DEF PipelineNorm, WellNamed
<1>. QED BY <1>1, <1>2, <1>3, <1>4, <1>5

\* Every getter that prints the constants into the name as they are.
LEMMA OrdinaryGettersAreNamed ==
  ASSUME NEW op, NEW d
  PROVE  /\ WellNamed(PipelineUnary(op)) /\ WellNamed(PipelineSumRows(op))
         /\ \A a, b, c, x, y : WellNamed(PipelineMulMvExt(a, b, c, x, y))
         /\ WellNamed(PipelineMulMm(op, d)) /\ WellNamed(PipelineMulMv(op))
         /\ WellNamed(PipelineMulMmId(op)) /\ WellNamed(PipelineMulMvId(op))
         /\ \A a, b : WellNamed(PipelineFlashAttnExtPad(a, b))
         /\ \A a, b : WellNamed(PipelineFlashAttnExtBlk(a, b))
         /\ \A a, b : WellNamed(PipelineFlashAttnExt(op, a, b))
         /\ \A a, b, c : WellNamed(PipelineFlashAttnExtVec(op, a, b, c))
         /\ \A a, b : WellNamed(PipelineFlashAttnExtVecReduce(a, b))
         /\ WellNamed(PipelineRope(op)) /\ WellNamed(PipelineUpscale(op))
         /\ WellNamed(PipelineCountEqual(op))
<1>. DEFINE ordinary(kernel) ==
              \A base, how : base.kernel = kernel => WellNamed(Request(base, how, how))
<1>0. \A kernel : kernel \notin Special => ordinary(kernel)
  BY OrdinaryIsNamed
<1>1. WellNamed(PipelineUnary(op))
  <2>1. ordinary("unary")
    BY <1>0 DEF Special
  <2>. DEFINE c4  == ByFour(op.src[0])
              how == [op |-> op.par.unary, cnt |-> op.src[0].cont /\ Elements(op) < 32768]
              base == [kernel |-> "unary", src |-> Type(op, 0), dst |-> op.type, v4 |-> c4]
  <2>2. WellNamed(Request(base, how, how))
    BY <2>1
  <2>. QED BY <2>2 DEF PipelineUnary, WellNamed
<1>1a. WellNamed(PipelineSumRows(op))
  <2>1. ordinary("sum_rows")
    BY <1>0 DEF Special
  <2>. DEFINE base == [kernel |-> "sum_rows", src |-> Type(op, 0), dst |-> op.type,
                       v4 |-> ByFour(op.src[0])]
              how == [op |-> op.op]
  <2>2. WellNamed(Request(base, how, how))
    BY <2>1
  <2>. QED BY <2>2 DEF PipelineSumRows, WellNamed
<1>2. \A a, b, c, x, y : WellNamed(PipelineMulMvExt(a, b, c, x, y))
  BY OrdinaryIsNamed DEF PipelineMulMvExt, Special
<1>3. WellNamed(PipelineMulMm(op, d))
  <2>. DEFINE base == [kernel |-> "mul_mm", src |-> Type(op, 0), src1 |-> Type(op, 1)]
  <2>1. WellNamed(Plain([kernel |-> "mul_mm_f16_f32_n64"]))
    BY PlainIsNamed
  <2>2. \A how : WellNamed(Request(base, how, how))
    <3>1. ordinary("mul_mm")
      BY <1>0 DEF Special
    <3>. QED BY <3>1
  <2>3. CASE UseN64(op, d)
    BY <2>1, <2>3 DEF PipelineMulMm, WellNamed
  <2>4. CASE ~UseN64(op, d)
    <3>. DEFINE nr0 == IF d.has_tensor THEN NRA ELSE 64
                nr1 == IF d.has_tensor THEN NRB ELSE 32
                how == [bci |-> op.src[0].ne[0] % 32 # 0,
                        bco |-> op.ne[0] % nr0 # 0 \/ op.ne[1] % nr1 # 0]
    <3>1. WellNamed(Request(base, how, how))
      BY <2>2
    <3>. QED BY <2>4, <3>1, SMTT(30) DEF PipelineMulMm, WellNamed
  <2>. QED BY <2>3, <2>4
<1>4. ASSUME NEW kernel, kernel \notin Special, NEW short
      PROVE  WellNamed(MatVec(kernel, op, short))
  <2>. DEFINE float == Type(op, 0) \in FloatTypes
              base == [kernel |-> kernel, src |-> Type(op, 0), src1 |-> Type(op, 1),
                       short |-> short, v4 |-> float /\ ~short /\ op.src[0].ne[0] % 4 = 0]
  <2>1. \A how : WellNamed(Request(base, how, how))
    <3>1. base.kernel = kernel
      OBVIOUS
    <3>. HIDE DEF base
    <3>. QED BY <1>0, <1>4, <3>1
  <2>. DEFINE nsg == IF short THEN 1
                     ELSE IF float THEN AtMost(4, CeilDiv(op.src[0].ne[0], 128))
                     ELSE N_SG[Type(op, 0)]
  <2>2. WellNamed(Request(base, [nsg |-> nsg], [nsg |-> nsg]))
    BY <2>1
  <2>. QED BY <2>2 DEF MatVec, WellNamed
<1>5. WellNamed(PipelineMulMv(op)) /\ WellNamed(PipelineMulMvId(op))
  BY <1>4 DEF PipelineMulMv, PipelineMulMvId, Special
<1>6. WellNamed(PipelineMulMmId(op))
  <2>1. ordinary("mul_mm_id")
    BY <1>0 DEF Special
  <2>. DEFINE base == [kernel |-> "mul_mm_id", src |-> Type(op, 0), src1 |-> Type(op, 1)]
              how == [bci |-> op.src[0].ne[0] % 32 # 0]
  <2>2. WellNamed(Request(base, how, how))
    BY <2>1
  <2>. QED BY <2>2 DEF PipelineMulMmId, WellNamed
<1>6a. WellNamed(PipelineCountEqual(op))
  <2>1. ordinary("count_equal")
    BY <1>0 DEF Special
  <2>2. \A how : WellNamed(Request([kernel |-> "count_equal", src |-> Type(op, 0)], how, how))
    BY <2>1
  <2>. QED BY <2>2, DispatchIsNotNamed DEF PipelineCountEqual
<1>7. /\ \A a, b : WellNamed(PipelineFlashAttnExtPad(a, b))
      /\ \A a, b : WellNamed(PipelineFlashAttnExtBlk(a, b))
      /\ \A a, b : WellNamed(PipelineFlashAttnExtVecReduce(a, b))
  BY OrdinaryIsNamed
  DEF PipelineFlashAttnExtPad, PipelineFlashAttnExtBlk, PipelineFlashAttnExtVecReduce, Special
<1>8. /\ \A a, b : WellNamed(PipelineFlashAttnExt(op, a, b))
      /\ \A a, b, c : WellNamed(PipelineFlashAttnExtVec(op, a, b, c))
  BY OrdinaryIsNamed DEF PipelineFlashAttnExt, PipelineFlashAttnExtVec, AttnBase, Special
<1>9. WellNamed(PipelineRope(op)) /\ WellNamed(PipelineUpscale(op))
  BY OrdinaryIsNamed DEF PipelineRope, PipelineUpscale, Special
<1>. QED BY <1>1, <1>1a, <1>2, <1>3, <1>5, <1>6, <1>6a, <1>7, <1>8, <1>9

\* Every getter whose constants are not what it prints.
LEMMA SpecialGettersAreNamed ==
  ASSUME NEW op
  PROVE  /\ WellNamed(PipelineDiag(op)) /\ WellNamed(PipelineSsmScan(op))
         /\ \A a, b : WellNamed(PipelineMulMmIdMap0(a, b))
         /\ \A bs : WellNamed(PipelineSsmConvBatched(op, bs))
         /\ WellNamed(PipelineGatedDeltaNet(op)) /\ WellNamed(PipelineSolveTri(op))
         /\ \A n : WellNamed(PipelineBin(op, n))
         /\ \A o : WellNamed(PipelineBinOne(o))
<1>1. WellNamed(PipelineDiag(op)) /\ WellNamed(PipelineSsmScan(op))
  BY SpecialIsNamed, DispatchIsNotNamed DEF PipelineDiag, PipelineSsmScan
<1>2. \A a, b : WellNamed(PipelineMulMmIdMap0(a, b))
  BY SpecialIsNamed, DispatchIsNotNamed DEF PipelineMulMmIdMap0
<1>3. \A bs : WellNamed(PipelineSsmConvBatched(op, bs))
  BY SpecialIsNamed DEF PipelineSsmConvBatched
<1>4. WellNamed(PipelineGatedDeltaNet(op)) /\ WellNamed(PipelineSolveTri(op))
  BY SpecialIsNamed, DispatchIsNotNamed DEF PipelineGatedDeltaNet, PipelineSolveTri
<1>5. \A n : WellNamed(PipelineBin(op, n))
  <2>. TAKE n
  <2>. DEFINE c4 == ByFour(op.src[0]) /\ ByFour(op.src[1])
              rb == /\ op.src[0].cont /\ op.src[1].cont
                    /\ Rows(op.src[1]) = 1 /\ Elements(op) < 65536
              how == [op |-> op.op, nf |-> n, rb |-> rb,
                      cb |-> op.src[0].ne[0] # op.src[1].ne[0]]
              base == [kernel |-> "bin_fuse", src |-> Type(op, 0), src1 |-> Type(op, 1),
                       dst |-> op.type, v4 |-> c4]
  <2>1. "rb" \in DOMAIN how /\ base.kernel = "bin_fuse"
    OBVIOUS
  <2>2. WellNamed(Request(base, how, how))
    <3>. HIDE DEF base, how
    <3>. QED BY <2>1, SpecialIsNamed
  <2>. QED BY <2>2 DEF PipelineBin, WellNamed
<1>6. \A o : WellNamed(PipelineBinOne(o))
  BY SpecialIsNamed DEF PipelineBinOne
<1>. QED BY <1>1, <1>2, <1>3, <1>4, <1>5, <1>6

\* Every dispatch of the stages has a well-named request.
NamedRun(d) == "req" \in DOMAIN d /\ WellNamed(d.req)
AllNamed(stages) ==
  \A s \in DOMAIN stages : \A k \in DOMAIN stages[s] : NamedRun(stages[s][k])

\* A dispatch is named as its request is, whatever else it says, ...
LEMMA RunIsNamed ==
  ASSUME NEW req, WellNamed(req)
  PROVE  /\ \A does, in, out, grid, threads : NamedRun(Run(req, does, in, out, grid, threads))
         /\ \A op, grid, threads : NamedRun(Simple(op, req, grid, threads))
  BY DEF Run, Simple, NamedRun

\* ... and whatever is set in it later.
LEMMA SettersKeepNames ==
  ASSUME NEW d, NamedRun(d)
  PROVE  /\ \A b : NamedRun(Smem(d, b))
         /\ \A g, p, w : NamedRun(Cover(d, g, p, w))
         /\ \A n, h : NamedRun(Room(d, n, h))
         /\ NamedRun(Unchecked(d))
         /\ \A op, gpu, g0, g1, n1 : NamedRun(Tiled(d, op, gpu, g0, g1, n1))
<1>1. ASSUME NEW x, NamedRun(x), NEW g, NEW p, NEW w PROVE NamedRun(Cover(x, g, p, w))
  BY <1>1 DEF Cover, NamedRun
<1>2. \A op, gpu, g0, g1, n1 : NamedRun(Tiled(d, op, gpu, g0, g1, n1))
  BY <1>1 DEF Tiled
<1>3. \A b : NamedRun(Smem(d, b))
  BY DEF Smem, NamedRun
<1>4. \A n, h : NamedRun(Room(d, n, h))
  BY DEF Room, NamedRun
<1>5. NamedRun(Unchecked(d))
  BY DEF Unchecked, NamedRun
<1>. QED BY <1>1, <1>2, <1>3, <1>4, <1>5

\* The shapes most operations have: one, two or three dispatches, in turn.
LEMMA StagesAreNamed ==
  ASSUME NEW a, NamedRun(a)
  PROVE  /\ AllNamed(One(a)) /\ AllNamed(<<<<a>>>>)
         /\ \A b : NamedRun(b) => AllNamed(<<<<a>>, <<b>>>>)
         /\ \A b, c : NamedRun(b) /\ NamedRun(c) => AllNamed(<<<<a>>, <<b>>, <<c>>>>)
  BY DEF One, AllNamed

\* The operations whose kernels have no function constants.
LEMMA PlainOperationsAreNamed ==
  ASSUME NEW op, NEW d
  PROVE  /\ AllNamed(OpConcat(op, d))
         /\ AllNamed(OpRepeat(op, d))
         /\ AllNamed(OpGlu(op, d))
         /\ AllNamed(OpSum(op, d))
         /\ AllNamed(OpCumsum(op, d))
         /\ AllNamed(OpGetRows(op, d))
         /\ AllNamed(OpSetRows(op, d))
         /\ AllNamed(OpRwkv(op, d))
         /\ AllNamed(OpPool1d(op, d))
         /\ AllNamed(OpPool2d(op, d))
         /\ AllNamed(OpAddId(op, d))
         /\ AllNamed(OpIm2col(op, d))
         /\ AllNamed(OpConv2d(op, d))
         /\ AllNamed(OpConv3d(op, d))
         /\ AllNamed(OpConvTranspose1d(op, d))
         /\ AllNamed(OpConvTranspose2d(op, d))
         /\ AllNamed(OpRoll(op, d))
         /\ AllNamed(OpPad(op, d))
         /\ AllNamed(OpPadReflect1d(op, d))
         /\ AllNamed(OpArange(op, d))
         /\ AllNamed(OpTimestepEmbedding(op, d))
         /\ AllNamed(OpTri(op, d))
         /\ AllNamed(OpOptStepAdamw(op, d))
         /\ AllNamed(OpOptStepSgd(op, d))
         /\ AllNamed(OpSet(op, d))
         /\ AllNamed(OpCpy(op, d))
<1>1. AllNamed(OpConcat(op, d))
  <2>1. \A n : AllNamed(One(Simple(op, PipelineBase(op), NeRest(op), n)))
    BY PlainGettersAreNamed, RunIsNamed, SettersKeepNames, StagesAreNamed
  <2>. QED BY <2>1 DEF OpConcat
<1>2. AllNamed(OpRepeat(op, d))
  BY PlainGettersAreNamed, RunIsNamed, SettersKeepNames, StagesAreNamed
  DEF OpRepeat
<1>3. AllNamed(OpGlu(op, d))
  BY PlainGettersAreNamed, RunIsNamed, SettersKeepNames, StagesAreNamed
  DEF OpGlu
<1>4. AllNamed(OpSum(op, d))
  BY PlainGettersAreNamed, RunIsNamed, SettersKeepNames, StagesAreNamed
  DEF OpSum
<1>5. AllNamed(OpCumsum(op, d))
  BY PlainGettersAreNamed, RunIsNamed, SettersKeepNames, StagesAreNamed
  DEF OpCumsum
<1>6. AllNamed(OpGetRows(op, d))
  BY PlainGettersAreNamed, RunIsNamed, SettersKeepNames, StagesAreNamed
  DEF OpGetRows
<1>7. AllNamed(OpSetRows(op, d))
  BY PlainGettersAreNamed, RunIsNamed, SettersKeepNames, StagesAreNamed
  DEF OpSetRows
<1>8. AllNamed(OpRwkv(op, d))
  BY PlainGettersAreNamed, RunIsNamed, SettersKeepNames, StagesAreNamed
  DEF OpRwkv
<1>9. AllNamed(OpPool1d(op, d))
  BY PlainGettersAreNamed, RunIsNamed, SettersKeepNames, StagesAreNamed
  DEF OpPool1d, OpPool
<1>10. AllNamed(OpPool2d(op, d))
  BY PlainGettersAreNamed, RunIsNamed, SettersKeepNames, StagesAreNamed
  DEF OpPool2d, OpPool
<1>11. AllNamed(OpAddId(op, d))
  BY PlainGettersAreNamed, RunIsNamed, SettersKeepNames, StagesAreNamed
  DEF OpAddId
<1>12. AllNamed(OpIm2col(op, d))
  BY PlainGettersAreNamed, RunIsNamed, SettersKeepNames, StagesAreNamed
  DEF OpIm2col
<1>13. AllNamed(OpConv2d(op, d))
  <2>1. \A grid, n, a, b, c :
        AllNamed(One(Cover(Simple(op, PipelineConv2d(op), grid, n), a, b, c)))
    BY PlainGettersAreNamed, RunIsNamed, SettersKeepNames, StagesAreNamed
  <2>. QED BY <2>1 DEF OpConv2d
<1>14. AllNamed(OpConv3d(op, d))
  BY PlainGettersAreNamed, RunIsNamed, SettersKeepNames, StagesAreNamed
  DEF OpConv3d
<1>15. AllNamed(OpConvTranspose1d(op, d))
  BY PlainGettersAreNamed, RunIsNamed, SettersKeepNames, StagesAreNamed
  DEF OpConvTranspose1d
<1>16. AllNamed(OpConvTranspose2d(op, d))
  BY PlainGettersAreNamed, RunIsNamed, SettersKeepNames, StagesAreNamed
  DEF OpConvTranspose2d
<1>17. AllNamed(OpRoll(op, d))
  <2>1. \A n : AllNamed(One(Simple(op, PipelineRoll(op), NeRest(op), n)))
    BY PlainGettersAreNamed, RunIsNamed, SettersKeepNames, StagesAreNamed
  <2>. QED BY <2>1 DEF OpRoll
<1>18. AllNamed(OpPad(op, d))
  <2>1. \A n : AllNamed(One(Simple(op, PipelinePad(op), NeRest(op), n)))
    BY PlainGettersAreNamed, RunIsNamed, SettersKeepNames, StagesAreNamed
  <2>. QED BY <2>1 DEF OpPad
<1>19. AllNamed(OpPadReflect1d(op, d))
  <2>1. \A n : AllNamed(One(Simple(op, PipelinePadReflect1d(op), NeRest(op), n)))
    BY PlainGettersAreNamed, RunIsNamed, SettersKeepNames, StagesAreNamed
  <2>. QED BY <2>1 DEF OpPadReflect1d
<1>20. AllNamed(OpArange(op, d))
  <2>1. \A n : AllNamed(One(Simple(op, PipelineArange(op), <<1, 1, 1>>, n)))
    BY PlainGettersAreNamed, RunIsNamed, SettersKeepNames, StagesAreNamed
  <2>. QED BY <2>1 DEF OpArange
<1>21. AllNamed(OpTimestepEmbedding(op, d))
  <2>1. \A grid, n : AllNamed(One(Simple(op, PipelineTimestepEmbedding(op), grid, n)))
    BY PlainGettersAreNamed, RunIsNamed, SettersKeepNames, StagesAreNamed
  <2>. QED BY <2>1 DEF OpTimestepEmbedding
<1>22. AllNamed(OpTri(op, d))
  BY PlainGettersAreNamed, RunIsNamed, SettersKeepNames, StagesAreNamed
  DEF OpTri
<1>23. AllNamed(OpOptStepAdamw(op, d))
  BY PlainGettersAreNamed, RunIsNamed, SettersKeepNames, StagesAreNamed
  DEF OpOptStepAdamw, OptStep
<1>24. AllNamed(OpOptStepSgd(op, d))
  BY PlainGettersAreNamed, RunIsNamed, SettersKeepNames, StagesAreNamed
  DEF OpOptStepSgd, OptStep
<1>25. AllNamed(OpSet(op, d))
  BY PlainGettersAreNamed, RunIsNamed, SettersKeepNames, StagesAreNamed
  DEF OpSet, CopySrc0, CopyOf
<1>26. AllNamed(OpCpy(op, d))
  BY PlainGettersAreNamed, RunIsNamed, SettersKeepNames, StagesAreNamed
  DEF OpCpy, CopyOf
<1>. QED BY <1>1, <1>2, <1>3, <1>4, <1>5, <1>6, <1>7, <1>8, <1>9, <1>10, <1>11,
          <1>12, <1>13, <1>14, <1>15, <1>16, <1>17, <1>18, <1>19, <1>20, <1>21,
          <1>22, <1>23, <1>24, <1>25, <1>26

\* The other operations of one node.
LEMMA OtherOperationsAreNamed ==
  ASSUME NEW op, NEW d
  PROVE  /\ AllNamed(OpUnary(op, d))
         /\ AllNamed(OpSumRows(op, d))
         /\ AllNamed(OpDiag(op, d))
         /\ AllNamed(OpSoftMax(op, d))
         /\ AllNamed(OpSsmConv(op, d))
         /\ AllNamed(OpSsmScan(op, d))
         /\ AllNamed(OpGatedDeltaNet(op, d))
         /\ AllNamed(OpSolveTri(op, d))
         /\ AllNamed(OpL2Norm(op, d))
         /\ AllNamed(OpGroupNorm(op, d))
         /\ AllNamed(OpRope(op, d))
         /\ AllNamed(OpUpscale(op, d))
         /\ AllNamed(OpArgmax(op, d))
         /\ AllNamed(OpCountEqual(op, d))
         /\ AllNamed(OpAcc(op, d))
<1>1. AllNamed(OpUnary(op, d))
  <2>1. /\ \A grid, n : AllNamed(One(Simple(op, PipelineUnary(op), grid, n)))
        /\ \A grid, n, a, b, c :
             AllNamed(One(Cover(Simple(op, PipelineUnary(op), grid, n), a, b, c)))
    BY OrdinaryGettersAreNamed, RunIsNamed, SettersKeepNames, StagesAreNamed
  <2>. QED BY <2>1 DEF OpUnary
<1>2. AllNamed(OpSumRows(op, d))
  BY OrdinaryGettersAreNamed, RunIsNamed, SettersKeepNames, StagesAreNamed
  DEF OpSumRows
<1>3. AllNamed(OpDiag(op, d))
  BY SpecialGettersAreNamed, RunIsNamed, SettersKeepNames, StagesAreNamed
  DEF OpDiag
<1>4. AllNamed(OpSoftMax(op, d))
  <2>1. \A n, bytes :
          AllNamed(One(Smem(Simple(op, PipelineSoftMax(op), NeRest(op.src[0]), n), bytes)))
    BY PlainGettersWithMemoryAreNamed, RunIsNamed, SettersKeepNames, StagesAreNamed
  <2>. QED BY <2>1 DEF OpSoftMax
<1>5. AllNamed(OpSsmConv(op, d))
  BY PlainGettersAreNamed, SpecialGettersAreNamed, RunIsNamed, SettersKeepNames,
     StagesAreNamed
  DEF OpSsmConv
<1>6. AllNamed(OpSsmScan(op, d))
  BY SpecialGettersAreNamed, RunIsNamed, SettersKeepNames, StagesAreNamed
  DEF OpSsmScan
<1>7. AllNamed(OpGatedDeltaNet(op, d))
  BY SpecialGettersAreNamed, RunIsNamed, SettersKeepNames, StagesAreNamed
  DEF OpGatedDeltaNet
<1>8. AllNamed(OpSolveTri(op, d))
  BY SpecialGettersAreNamed, RunIsNamed, SettersKeepNames, StagesAreNamed
  DEF OpSolveTri
<1>9. AllNamed(OpL2Norm(op, d))
  BY PlainGettersWithMemoryAreNamed, RunIsNamed, SettersKeepNames, StagesAreNamed
  DEF OpL2Norm
<1>10. AllNamed(OpGroupNorm(op, d))
  BY PlainGettersWithMemoryAreNamed, RunIsNamed, SettersKeepNames, StagesAreNamed
  DEF OpGroupNorm
<1>11. AllNamed(OpRope(op, d))
  <2>1. \A n : AllNamed(One(Simple(op, PipelineRope(op), NeRest(op.src[0]), n)))
    BY OrdinaryGettersAreNamed, RunIsNamed, SettersKeepNames, StagesAreNamed
  <2>. QED BY <2>1 DEF OpRope
<1>12. AllNamed(OpUpscale(op, d))
  BY OrdinaryGettersAreNamed, RunIsNamed, SettersKeepNames, StagesAreNamed
  DEF OpUpscale
<1>13. AllNamed(OpArgmax(op, d))
  BY PlainGettersWithMemoryAreNamed, RunIsNamed, SettersKeepNames, StagesAreNamed,
     ZenonT(30)
  DEF OpArgmax
<1>14. AllNamed(OpCountEqual(op, d))
  BY PlainGettersAreNamed, OrdinaryGettersAreNamed, RunIsNamed, SettersKeepNames,
     StagesAreNamed
  DEF OpCountEqual
<1>15. AllNamed(OpAcc(op, d))
  BY PlainGettersAreNamed, SpecialGettersAreNamed, RunIsNamed, SettersKeepNames,
     StagesAreNamed, ZenonT(30)
  DEF OpAcc, CopySrc0
<1>. QED BY <1>1, <1>2, <1>3, <1>4, <1>5, <1>6, <1>7, <1>8, <1>9, <1>10, <1>11,
          <1>12, <1>13, <1>14, <1>15

\* What is put together is made of the one and the other.
LEMMA TogetherIsEither ==
  ASSUME NEW S, NEW a \in Seq(S), NEW b \in Seq(S), NEW k \in DOMAIN (a \o b)
  PROVE  \/ \E i \in DOMAIN a : (a \o b)[k] = a[i]
         \/ \E i \in DOMAIN b : (a \o b)[k] = b[i]
<1>1. /\ Len(a) \in Nat /\ Len(b) \in Nat /\ DOMAIN a = 1..Len(a) /\ DOMAIN b = 1..Len(b)
      /\ a \o b \in Seq(S) /\ DOMAIN (a \o b) = 1..(Len(a) + Len(b))
  BY ConcatProperties
<1>2. (a \o b)[k] = IF k <= Len(a) THEN a[k] ELSE b[k - Len(a)]
  BY <1>1, ConcatProperties
<1>3. CASE k <= Len(a)
  BY <1>1, <1>2, <1>3
<1>4. CASE ~(k <= Len(a))
  <2>1. k - Len(a) \in DOMAIN b
    BY <1>1, <1>4
  <2>. QED BY <1>2, <1>4, <2>1
<1>. QED BY <1>3, <1>4

\* What is put together from named dispatches is named.
LEMMA TogetherNamed ==
  ASSUME NEW S, NEW a \in Seq(S), NEW b \in Seq(S),
         \A k \in DOMAIN a : NamedRun(a[k]), \A k \in DOMAIN b : NamedRun(b[k])
  PROVE  \A k \in DOMAIN (a \o b) : NamedRun((a \o b)[k])
  BY TogetherIsEither

\* The same for stages one after the other.
LEMMA StagesTogetherAreNamed ==
  ASSUME NEW S, NEW a \in Seq(S), NEW b \in Seq(S), AllNamed(a), AllNamed(b)
  PROVE  AllNamed(a \o b)
  BY TogetherIsEither DEF AllNamed

\* The operations of several kernels.
LEMMA ProductsAreNamed ==
  ASSUME NEW op, NEW d
  PROVE  AllNamed(OpMulMat(op, d)) /\ AllNamed(OpMulMatId(op, d))
<1>1. AllNamed(One(MulMvExt(op, d)))
  <2>1. \A a, b, c, x, y, grid, n :
          NamedRun(Simple(op, PipelineMulMvExt(a, b, c, x, y), grid, n))
    BY OrdinaryGettersAreNamed, RunIsNamed
  <2>2. \A a, b, c, x, y, grid, n, g0, g1, n1 :
          AllNamed(One(Tiled(Simple(op, PipelineMulMvExt(a, b, c, x, y), grid, n),
                             op, d, g0, g1, n1)))
    BY <2>1, SettersKeepNames, StagesAreNamed
  <2>. QED BY <2>2 DEF MulMvExt
<1>2. AllNamed(One(MulMm(op, d)))
  BY OrdinaryGettersAreNamed, RunIsNamed, SettersKeepNames, StagesAreNamed DEF MulMm
<1>3. AllNamed(One(MulMv(op, d)))
  BY OrdinaryGettersAreNamed, RunIsNamed, SettersKeepNames, StagesAreNamed DEF MulMv
<1>4. AllNamed(OpMulMat(op, d))
  BY <1>1, <1>2, <1>3 DEF OpMulMat
<1>5. AllNamed(OpMulMatId(op, d))
  BY OrdinaryGettersAreNamed, SpecialGettersAreNamed, RunIsNamed, SettersKeepNames,
     StagesAreNamed, ZenonT(30)
  DEF OpMulMatId
<1>. QED BY <1>4, <1>5

\* Attention: the padding and the mask blocks come first only where there are any.
LEMMA AttentionIsNamed ==
  ASSUME NEW op, NEW d
  PROVE  AllNamed(OpFlashAttnExt(op, d))
<1>1. \A n : NamedRun(PadKv(op, n))
  BY OrdinaryGettersAreNamed, RunIsNamed, SettersKeepNames DEF PadKv
<1>2. NamedRun(MaskBlocks(op))
  BY OrdinaryGettersAreNamed, RunIsNamed, SettersKeepNames DEF MaskBlocks
<1>3. \A a, b, does, in, out, grid, n, x, y, z, bytes :
        NamedRun(Smem(Cover(Run(PipelineFlashAttnExt(op, a, b), does, in, out, grid, n),
                            x, y, z), bytes))
  BY OrdinaryGettersAreNamed, RunIsNamed, SettersKeepNames
<1>4. \A a, b, c, does, in, out, grid, n, x, y, z, bytes, v, w :
        NamedRun(Room(Smem(Cover(Run(PipelineFlashAttnExtVec(op, a, b, c), does, in, out,
                                     grid, n), x, y, z), bytes), v, w))
  <2>1. \A a, b, c, does, in, out, grid, n :
          NamedRun(Run(PipelineFlashAttnExtVec(op, a, b, c), does, in, out, grid, n))
    BY OrdinaryGettersAreNamed, RunIsNamed
  <2>2. \A x, y, z, bytes, v, w, dispatch : NamedRun(dispatch)
          => NamedRun(Room(Smem(Cover(dispatch, x, y, z), bytes), v, w))
    BY SettersKeepNames
  <2> QED BY <2>1, <2>2
<1>5. \A a, b, does, in, out, grid, n :
        NamedRun(Run(PipelineFlashAttnExtVecReduce(a, b), does, in, out, grid, n))
  BY OrdinaryGettersAreNamed, RunIsNamed
<1>6. AllNamed(AttnMatrix(op, d))
  <2>. DEFINE has   == AttnHas(op, NCPSG)
              pad   == IF has.kvpad THEN <<PadKv(op, NCPSG)>> ELSE <<>>
              blk   == IF has.mask THEN <<MaskBlocks(op)>> ELSE <<>>
              first == pad \o blk
  <2>1. \A k \in DOMAIN first : NamedRun(first[k])
    <3>. DEFINE S == {PadKv(op, NCPSG), MaskBlocks(op)}
    <3>1. pad \in Seq(S) /\ blk \in Seq(S)
      <4>1. <<>> \in Seq(S) /\ \A x \in S : <<x>> \in Seq(S)
        OBVIOUS
      <4>2. PadKv(op, NCPSG) \in S /\ MaskBlocks(op) \in S
        OBVIOUS
      <4>. HIDE DEF S
      <4>. QED BY <4>1, <4>2
    <3>2. (\A k \in DOMAIN pad : NamedRun(pad[k])) /\ (\A k \in DOMAIN blk : NamedRun(blk[k]))
      BY <1>1, <1>2
    <3>. HIDE DEF S, pad, blk
    <3>. QED BY <3>1, <3>2, TogetherNamed
  <2>2. ASSUME NEW main, NamedRun(main)
        PROVE  AllNamed(IF first = <<>> THEN <<<<main>>>> ELSE <<first, <<main>>>>)
    <3>. HIDE DEF first
    <3>. QED BY <2>1, <2>2 DEF AllNamed
  <2>. QED BY <2>2, <1>3 DEF AttnMatrix
<1>7. AllNamed(AttnVector(op, d))
  <2>1. ASSUME NEW kvpad, NEW pad, NEW main, NEW reduce,
               NamedRun(pad), NamedRun(main), NamedRun(reduce)
        PROVE  AllNamed((IF kvpad THEN <<<<pad>>>> ELSE <<>>) \o <<<<main>>, <<reduce>>>>)
    <3>. DEFINE S == {<<pad>>, <<main>>, <<reduce>>}
                a == IF kvpad THEN <<<<pad>>>> ELSE <<>>
                b == <<<<main>>, <<reduce>>>>
    <3>1. a \in Seq(S) /\ b \in Seq(S)
      <4>1. <<>> \in Seq(S) /\ <<<<pad>>>> \in Seq(S) /\ <<<<main>>, <<reduce>>>> \in Seq(S)
        OBVIOUS
      <4>. HIDE DEF S
      <4>. QED BY <4>1
    <3>2. AllNamed(a) /\ AllNamed(b)
      BY <2>1 DEF AllNamed
    <3>3. AllNamed(a \o b)
      <4>. HIDE DEF S, a, b
      <4>. QED BY <3>1, <3>2, StagesTogetherAreNamed
    <3>. QED BY <3>3
  <2>. QED BY <2>1, <1>1, <1>4, <1>5 DEF AttnVector
<1>. QED BY <1>6, <1>7 DEF OpFlashAttnExt

\* The operations that take several nodes.
LEMMA FusedAreNamed ==
  ASSUME NEW nodes, NEW i, NEW d
  PROVE  AllNamed(OpBin(nodes, i, d)) /\ AllNamed(OpNorm(nodes, i, d))
<1>1. AllNamed(OpBin(nodes, i, d))
  <2>1. \A op, n, does, in, out, grid, threads :
          AllNamed(One(Run(PipelineBin(op, n), does, in, out, grid, threads)))
    BY SpecialGettersAreNamed, RunIsNamed, StagesAreNamed
  <2>. QED BY <2>1 DEF OpBin
<1>2. AllNamed(OpNorm(nodes, i, d))
  <2>1. \A op, n, does, in, out, grid, threads, bytes :
          AllNamed(One(Smem(Run(PipelineNorm(op, n), does, in, out, grid, threads), bytes)))
    BY PlainGettersWithMemoryAreNamed, RunIsNamed, SettersKeepNames, StagesAreNamed
  <2>. QED BY <2>1 DEF OpNorm
<1>. QED BY <1>1, <1>2

\* Sorting: the blocks, then as many merges as there are doublings.
LEMMA SortingIsNamed ==
  ASSUME NEW op, NEW d
  PROVE  AllNamed(OpArgsort(op, d)) /\ AllNamed(OpTopK(op, d))
<1>1. \A n : LogUp(n) \in Nat
  <2>. SUFFICES ASSUME NEW n PROVE LogUp(n) \in Nat
    OBVIOUS
  <2>1. IsFiniteSet(0..16)
    <3>1. \A m \in Nat : IsFiniteSet(0..m)
      BY FS_Interval
    <3>. QED BY <3>1
  <2>2. {k \in 0..16 : Pow2[k] < n} \subseteq 0..16
    OBVIOUS
  <2>. QED BY <2>1, <2>2, FS_Subset, FS_CardinalityType DEF LogUp
<1>2. ASSUME NEW req, WellNamed(req), NEW len, NEW total, NEW here, NEW there
      PROVE  /\ AllNamed(Merges(op, req, len, total, here, there, d))
             /\ \E S : Merges(op, req, len, total, here, there, d) \in Seq(S)
  <2>. DEFINE m == Merges(op, req, len, total, here, there, d)
  <2>1. PICK n \in Nat : n = LogUp(CeilDiv(total, len))
    BY <1>1
  <2>2. DOMAIN m = 1..n
    BY <2>1 DEF Merges
  <2>3. \A i \in 1..n : \E a : NamedRun(a) /\ m[i] = <<a>>
    <3>. SUFFICES ASSUME NEW i \in 1..n PROVE \E a : NamedRun(a) /\ m[i] = <<a>>
      OBVIOUS
    <3>1. \A does, in, out, grid, t, x, y, z :
            NamedRun(Cover(Run(req, does, in, out, grid, t), x, y, z))
      BY <1>2, RunIsNamed, SettersKeepNames
    <3>. QED BY <2>1, <3>1 DEF Merges
  <2>4. m = [i \in 1..n |-> m[i]]
    BY <2>1 DEF Merges
  <2>. HIDE DEF m
  <2>5. m \in Seq({m[i] : i \in 1..n})
    BY <2>4
  <2>6. AllNamed(m)
    BY <2>2, <2>3 DEF AllNamed
  <2>. QED BY <2>5, <2>6 DEF m
<1>3. ASSUME NEW req, WellNamed(req), NEW kept, NEW merge, WellNamed(merge)
      PROVE  AllNamed(SortedBlocks(op, req, kept, merge, d))
  <2>1. \A does, in, out, grid, t, x, y, z, bytes :
          AllNamed(One(Smem(Cover(Run(req, does, in, out, grid, t), x, y, z), bytes)))
    BY <1>3, RunIsNamed, SettersKeepNames, StagesAreNamed
  <2>2. ASSUME NEW a, AllNamed(One(a)), NEW m, AllNamed(m), NEW S, m \in Seq(S)
        PROVE  AllNamed(One(a) \o m)
    <3>. DEFINE T == S \cup {<<a>>}
    <3>1. One(a) \in Seq(T) /\ m \in Seq(T)
      BY <2>2 DEF One
    <3>. HIDE DEF T
    <3>. QED BY <2>2, <3>1, StagesTogetherAreNamed
  <2>. QED BY <2>1, <2>2, <1>2, <1>3 DEF SortedBlocks
<1>. QED BY <1>3, PlainGettersAreNamed DEF OpArgsort, OpTopK

\* Whatever the operation, its dispatches ask for pipelines by their own names.
LEMMA EveryStageIsNamed ==
  ASSUME NEW nodes, NEW i, NEW d, nodes[i].op \in EncodedOps
  PROVE  AllNamed(Stages(nodes, i, d))
<1>. USE PlainOperationsAreNamed, OtherOperationsAreNamed, ProductsAreNamed,
         AttentionIsNamed, FusedAreNamed, SortingIsNamed
<1>1. CASE nodes[i].op \in BinOps \cup UnaryOps
  BY <1>1 DEF Stages, BinOps, UnaryOps
<1>2. CASE nodes[i].op \notin BinOps \cup UnaryOps
  BY <1>2, SMTT(30) DEF Stages, EncodedOps
<1>. QED BY <1>1, <1>2

-------------------------------------------------------------------------------
(* The library of pipelines.                                                  *)

\* The library with the pipelines of these names, each as its name tells.
Library(names) == [n \in names |-> [base |-> n.base, consts |-> ConstsOf(n)]]

\* At the start nothing is compiled.
LEMMA EmptyLibrary == NoPipelines = Library({})
  BY DEF NoPipelines, Library

\* A well-named request finds its pipeline in such a library or adds it.
LEMMA CompiledIsLibrary ==
  ASSUME NEW names, NEW req, WellNamed(req)
  PROVE  Compiled(Library(names), req) = Library(names \cup {req.name})
<1>. DEFINE l == Library(names)
<1>1. DOMAIN l = names /\ \A n \in names : l[n] = [base |-> n.base, consts |-> ConstsOf(n)]
  BY DEF Library
<1>2. CASE req.name \in names
  <2>1. names \cup {req.name} = names
    BY <1>2
  <2>. QED BY <1>1, <1>2, <2>1 DEF Compiled
<1>3. CASE req.name \notin names
  <2>1. Compiled(l, req) =
          [n \in names \cup {req.name} |->
             IF n \in names THEN l[n] ELSE [base |-> req.base, consts |-> req.consts]]
    BY <1>1, <1>3 DEF Compiled
  <2>2. req.base = req.name.base /\ req.consts = ConstsOf(req.name)
    BY DEF WellNamed
  <2>. QED BY <1>1, <2>1, <2>2 DEF Library
<1>. QED BY <1>2, <1>3

\* The names the dispatches of a stage, and of all stages, ask for.
NamesOf(ds) == {ds[k].req.name : k \in DOMAIN ds}
NamesOfAll(stages) == UNION {NamesOf(stages[s]) : s \in DOMAIN stages}

\* After a stage the library has the names it had and those the stage asks for.
LEMMA StageIsLibrary ==
  ASSUME NEW names, NEW ds, Len(ds) \in Nat, DOMAIN ds = 1..Len(ds),
         \A k \in DOMAIN ds : NamedRun(ds[k])
  PROVE  WithStage(Library(names), ds) = Library(names \cup NamesOf(ds))
<1>1. PICK n \in Nat : n = Len(ds)
  OBVIOUS
<1>. DEFINE l == Library(names)
            body(f, k) == IF k = 0 THEN l ELSE Compiled(f[k - 1], ds[k].req)
            asked(k) == {ds[j].req.name : j \in 1..k}
            good == [k \in 0..n |-> Library(names \cup asked(k))]
            after == CHOOSE f : f = [k \in 0..n |-> body(f, k)]
<1>2. \A k \in 1..n : body(good, k) = Library(names \cup asked(k))
  <2>. SUFFICES ASSUME NEW k \in 1..n PROVE body(good, k) = Library(names \cup asked(k))
    OBVIOUS
  <2>1. k - 1 \in 0..n /\ k # 0
    OBVIOUS
  <2>2. WellNamed(ds[k].req)
    BY <1>1 DEF NamedRun
  <2>3. Compiled(Library(names \cup asked(k - 1)), ds[k].req)
          = Library((names \cup asked(k - 1)) \cup {ds[k].req.name})
    BY <2>2, CompiledIsLibrary
  <2>4. (names \cup asked(k - 1)) \cup {ds[k].req.name} = names \cup asked(k)
    <3>1. asked(k) = asked(k - 1) \cup {ds[k].req.name}
      OBVIOUS
    <3>. HIDE DEF asked
    <3>. QED BY <3>1
  <2>. HIDE DEF asked
  <2>. QED BY <2>1, <2>3, <2>4
<1>3. body(good, 0) = Library(names \cup asked(0))
  <2>1. names \cup asked(0) = names
    OBVIOUS
  <2>. QED BY <2>1
<1>4. good = [k \in 0..n |-> body(good, k)]
  <2>1. \A k \in 0..n : k = 0 \/ k \in 1..n
    OBVIOUS
  <2>2. good = [k \in 0..n |-> Library(names \cup asked(k))]
    OBVIOUS
  <2>. HIDE DEF good, body, asked
  <2>. QED BY <1>2, <1>3, <2>1, <2>2
<1>5. after = [k \in 0..n |-> body(after, k)]
  <2>. HIDE DEF good, body
  <2>. QED BY <1>4
<1>6. \A k \in 0..n : after[k] = body(after, k) /\ good[k] = body(good, k)
  <2>. HIDE DEF after, good, body
  <2>. QED BY <1>4, <1>5
<1>7. after[n] = good[n]
  <2>1. after[0] = good[0]
    <3>1. 0 \in 0..n
      OBVIOUS
    <3>. HIDE DEF after, good
    <3>. QED BY <1>6, <3>1
  <2>2. \A k \in 1..n : after[k - 1] = good[k - 1] => after[k] = good[k]
    <3>1. \A k \in 1..n : k \in 0..n /\ k # 0
      OBVIOUS
    <3>. HIDE DEF after, good
    <3>. QED BY <1>6, <3>1
  <2>. HIDE DEF after, good
  <2>. QED BY <2>1, <2>2, StepByStep
<1>8. good[n] = Library(names \cup asked(n))
  <2>. HIDE DEF asked
  <2>. QED OBVIOUS
<1>9. asked(n) = NamesOf(ds) /\ WithStage(l, ds) = after[n]
  BY <1>1 DEF NamesOf, WithStage
<1>. HIDE DEF after, good, asked
<1>. QED BY <1>7, <1>8, <1>9

\* The same for all stages of an operation.
LEMMA StagesAreLibrary ==
  ASSUME NEW names, NEW stages, Len(stages) \in Nat, DOMAIN stages = 1..Len(stages),
         \A s \in DOMAIN stages : /\ Len(stages[s]) \in Nat
                                 /\ DOMAIN stages[s] = 1..Len(stages[s]),
         AllNamed(stages)
  PROVE  WithStages(Library(names), stages) = Library(names \cup NamesOfAll(stages))
<1>1. PICK n \in Nat : n = Len(stages)
  OBVIOUS
<1>. DEFINE l == Library(names)
            body(f, s) == IF s = 0 THEN l ELSE WithStage(f[s - 1], stages[s])
            asked(s) == UNION {NamesOf(stages[j]) : j \in 1..s}
            good == [s \in 0..n |-> Library(names \cup asked(s))]
            after == CHOOSE f : f = [s \in 0..n |-> body(f, s)]
<1>2. \A s \in 1..n : body(good, s) = Library(names \cup asked(s))
  <2>. SUFFICES ASSUME NEW s \in 1..n PROVE body(good, s) = Library(names \cup asked(s))
    OBVIOUS
  <2>1. s - 1 \in 0..n /\ s # 0
    OBVIOUS
  <2>2. /\ Len(stages[s]) \in Nat /\ DOMAIN stages[s] = 1..Len(stages[s])
        /\ \A k \in DOMAIN stages[s] : NamedRun(stages[s][k])
    BY <1>1 DEF AllNamed
  <2>3. WithStage(Library(names \cup asked(s - 1)), stages[s])
          = Library((names \cup asked(s - 1)) \cup NamesOf(stages[s]))
    BY <2>2, StageIsLibrary
  <2>4. (names \cup asked(s - 1)) \cup NamesOf(stages[s]) = names \cup asked(s)
    <3>1. asked(s) = asked(s - 1) \cup NamesOf(stages[s])
      OBVIOUS
    <3>. HIDE DEF asked
    <3>. QED BY <3>1
  <2>. HIDE DEF asked
  <2>. QED BY <2>1, <2>3, <2>4
<1>3. body(good, 0) = Library(names \cup asked(0))
  <2>1. names \cup asked(0) = names
    OBVIOUS
  <2>. QED BY <2>1
<1>4. good = [s \in 0..n |-> body(good, s)]
  <2>1. \A s \in 0..n : s = 0 \/ s \in 1..n
    OBVIOUS
  <2>2. good = [s \in 0..n |-> Library(names \cup asked(s))]
    OBVIOUS
  <2>. HIDE DEF good, body, asked
  <2>. QED BY <1>2, <1>3, <2>1, <2>2
<1>5. after = [s \in 0..n |-> body(after, s)]
  <2>. HIDE DEF good, body
  <2>. QED BY <1>4
<1>6. \A s \in 0..n : after[s] = body(after, s) /\ good[s] = body(good, s)
  <2>. HIDE DEF after, good, body
  <2>. QED BY <1>4, <1>5
<1>7. after[n] = good[n]
  <2>1. after[0] = good[0]
    <3>1. 0 \in 0..n
      OBVIOUS
    <3>. HIDE DEF after, good
    <3>. QED BY <1>6, <3>1
  <2>2. \A s \in 1..n : after[s - 1] = good[s - 1] => after[s] = good[s]
    <3>1. \A s \in 1..n : s \in 0..n /\ s # 0
      OBVIOUS
    <3>. HIDE DEF after, good
    <3>. QED BY <1>6, <3>1
  <2>. HIDE DEF after, good
  <2>. QED BY <2>1, <2>2, StepByStep
<1>8. good[n] = Library(names \cup asked(n))
  <2>. HIDE DEF asked
  <2>. QED OBVIOUS
<1>9. asked(n) = NamesOfAll(stages) /\ WithStages(l, stages) = after[n]
  BY <1>1 DEF NamesOfAll, WithStages
<1>. HIDE DEF after, good, asked
<1>. QED BY <1>7, <1>8, <1>9

\* The dispatches ask by names the library has, and it has under each name what
\* the name tells.
LibInv ==
  /\ \A a \in dispatched : NamedRun(a.run) /\ a.run.req.name \in DOMAIN lib
  /\ lib = Library(DOMAIN lib)

\* Encoding a node adds what its dispatches ask for, and nothing else changes.
LEMMA EncodeKeepsLibrary ==
  ASSUME MetalTypeOK, LibInv, NEW e \in Encoders, Encode(e)
  PROVE  LibInv'
<1>. DEFINE nodes  == Nodes(e)
            i      == next[e]
            stages == Stages(nodes, i, dev)
            first  == IF Joins(ranges[e], nodes, i, dev) THEN group[e] ELSE group[e] + 1
<1>1. /\ nodes[i].op \in EncodedOps
      /\ Len(stages) \in Nat /\ DOMAIN stages = 1..Len(stages)
      /\ \A s \in DOMAIN stages :
           Len(stages[s]) \in Nat /\ DOMAIN stages[s] = 1..Len(stages[s])
  <2>1. i \in DOMAIN nodes
    BY EncodingAssumption DEF Encode, Encoded, MetalTypeOK, Nodes
  <2>2. Declared(nodes, i, dev)
    BY <2>1, EncodingAssumption DEF Encode, MetalTypeOK, Nodes
  <2>. QED BY <2>2 DEF Declared
<1>2. AllNamed(stages)
  BY <1>1, EveryStageIsNamed
<1>3. lib' = Library(DOMAIN lib \cup NamesOfAll(stages))
  <2>1. lib' = WithStages(lib, stages)
    BY DEF Encode
  <2>. HIDE DEF stages
  <2>. QED BY <1>1, <1>2, <2>1, StagesAreLibrary DEF LibInv
<1>4. DOMAIN lib' = DOMAIN lib \cup NamesOfAll(stages)
  BY <1>3 DEF Library
<1>5. dispatched' = dispatched \cup Dispatches(e, i, stages, first)
  BY DEF Encode
<1>6. ASSUME NEW a \in Dispatches(e, i, stages, first)
      PROVE  NamedRun(a.run) /\ a.run.req.name \in NamesOfAll(stages)
  <2>. HIDE DEF stages, first
  <2>1. PICK s, k : s \in DOMAIN stages /\ k \in DOMAIN stages[s] /\ a.run = stages[s][k]
    BY <1>6 DEF Dispatches
  <2>. QED BY <1>2, <2>1 DEF AllNamed, NamesOfAll, NamesOf
<1>. HIDE DEF stages, first
<1>. QED BY <1>3, <1>4, <1>5, <1>6 DEF LibInv

\* Whatever is encoded in whichever order by the two encoders, the library they
\* share keeps under each name the kernel with the constants that a request for
\* the name asks for: no two requests that share a name differ.
THEOREM PipelinesAreOwn == Spec => []KernelIsOwn
<1>1. Init => LibInv
  BY EmptyLibrary DEF Init, LibInv, Library
<1>2. MetalTypeOK /\ LibInv /\ [Next]_vars => LibInv'
  <2>. SUFFICES ASSUME MetalTypeOK, LibInv, [Next]_vars PROVE LibInv'
    OBVIOUS
  <2>1. ASSUME NEW e \in Encoders, Encode(e) PROVE LibInv'
    BY <2>1, EncodeKeepsLibrary
  <2>2. CASE UNCHANGED <<dispatched, lib>>
    BY <2>2 DEF LibInv
  <2>. QED BY <2>1, <2>2 DEF Next, Skip, Execute, vars
<1>3. LibInv => KernelIsOwn
  BY DEF LibInv, KernelIsOwn, Library, NamedRun, WellNamed
<1>. QED BY MetalTypes, <1>1, <1>2, <1>3, PTL DEF Spec

-------------------------------------------------------------------------------
(* The launches do all of their work, GridCovers.                             *)

\* Pow2 doubles with each step.
LEMMA Powers ==
  /\ Pow2[0] = 1 /\ Pow2[12] = 4096
  /\ \A k \in 1..16 : Pow2[k] = 2 * Pow2[k - 1]
  /\ \A k \in 0..16 : Pow2[k] \in Nat \ {0}
<1>. DEFINE n == 16
            T == Nat \ {0}
            F == [k \in 1..n |-> [x \in T |-> 2 * x]]
            body(f, k) == IF k = 0 THEN 1 ELSE 2 * f[k - 1]
<1>1. PICK g \in [0..n -> T] : Leads(g, n, 1, F)
  <2>1. n \in Nat /\ 1 \in T
    OBVIOUS
  <2>2. StepsWithin(F, n, T)
    BY DEF StepsWithin
  <2>. HIDE DEF n, T, F
  <2>. QED BY <2>1, <2>2, Recursion
<1>2. g = [k \in 0..n |-> body(g, k)]
  <2>1. \A k \in 0..n : g[k] = body(g, k)
    BY <1>1 DEF Leads
  <2>. QED BY <2>1
<1>3. Pow2 = [k \in 0..n |-> body(Pow2, k)]
  <2>1. Pow2 = CHOOSE f : f = [k \in 0..n |-> body(f, k)]
    BY DEF Pow2
  <2>. HIDE DEF body, n
  <2>. QED BY <1>2, <2>1
<1>4. \A k \in 0..n : Pow2[k] = body(Pow2, k)
  <2>. HIDE DEF body, n
  <2>. QED BY <1>3
<1>5. Pow2[0] = 1
  BY <1>4
<1>6. \A k \in 1..16 : Pow2[k] = 2 * Pow2[k - 1]
  <2>1. \A k \in 1..16 : k \in 0..n /\ k # 0
    OBVIOUS
  <2>. QED BY <1>4, <2>1
<1>7. \A k \in 0..16 : Pow2[k] \in Nat \ {0}
  <2>. DEFINE P == {k \in 0..16 : Pow2[k] \in Nat \ {0}}
  <2>1. 0 \in P
    BY <1>5
  <2>2. \A k \in 1..16 : k - 1 \in P => k \in P
    BY <1>6
  <2>3. \A k \in 0..16 : k \in P
    <3>. HIDE DEF P
    <3>. QED BY <2>1, <2>2, Climbs
  <2>. QED BY <2>3
<1>8. Pow2[12] = 4096
  <2>1. /\ Pow2[1] = 2 /\ Pow2[2] = 4 /\ Pow2[3] = 8
    BY <1>5, <1>6
  <2>2. /\ Pow2[4] = 16 /\ Pow2[5] = 32 /\ Pow2[6] = 64
    BY <2>1, <1>6
  <2>3. /\ Pow2[7] = 128 /\ Pow2[8] = 256 /\ Pow2[9] = 512
    BY <2>2, <1>6
  <2>4. /\ Pow2[10] = 1024 /\ Pow2[11] = 2048 /\ Pow2[12] = 4096
    BY <2>3, <1>6
  <2>. QED BY <2>4
<1>. QED BY <1>5, <1>6, <1>7, <1>8

\* What it takes for groups of `per` to do all of the work, none of them for nothing.
Enough(groups, per, work) == groups * per >= work /\ (groups - 1) * per < work

\* As many groups as the work takes, rounded up.
LEMMA CeilDivCovers ==
  ASSUME NEW n \in Nat \ {0}, NEW per \in Nat \ {0}
  PROVE  Enough(CeilDiv(n, per), per, n) /\ CeilDiv(n, per) \in Nat \ {0}
<1>. DEFINE q == (n + per - 1) \div per
            r == (n + per - 1) % per
<1>1. q \in Int /\ r \in 0..(per - 1) /\ n + per - 1 = per * q + r
  OBVIOUS
<1>2. per * q >= n /\ per * q - per < n
  <2>. DEFINE w == per * q
  <2>1. w \in Int /\ n + per - 1 = w + r
    BY <1>1
  <2>. HIDE DEF w, q, r
  <2>. QED BY <1>1, <2>1
<1>3. q * per = per * q /\ (q - 1) * per = per * q - per
  <2>. HIDE DEF q, r
  <2>. QED BY <1>1
<1>4. q >= 1
  <2>1. ASSUME q <= 0 PROVE FALSE
    <3>. HIDE DEF q, r
    <3>1. per * q <= 0
      BY <1>1, <2>1
    <3>. QED BY <1>1, <1>2, <3>1
  <2>. HIDE DEF q, r
  <2>. QED BY <1>1, <2>1
<1>5. CeilDiv(n, per) = q
  BY DEF CeilDiv
<1>. HIDE DEF q, r
<1>. QED BY <1>1, <1>2, <1>3, <1>4, <1>5 DEF Enough

\* Threads of one row, in one group, or as many as a group has.
LEMMA AtMostIsEither ==
  ASSUME NEW a \in Nat \ {0}, NEW b \in Nat \ {0}
  PROVE  AtMost(a, b) \in Nat \ {0} /\ AtMost(a, b) <= a /\ AtMost(a, b) <= b
  BY DEF AtMost

\* A group for all of the work.
LEMMA OneGroupCovers ==
  ASSUME NEW per \in Nat, NEW work \in Nat \ {0}, work <= per
  PROVE  Enough(1, per, work)
  BY DEF Enough

\* Doubling 32 reaches every limit of the devices.
LEMMA DoubledIsNumber ==
  ASSUME NEW stop \in Nat, stop <= 4096
  PROVE  Doubled(32, stop) \in Nat \ {0}
<1>. DEFINE sizes == {32 * Pow2[k] : k \in 0..12}
            large == {s \in sizes : s >= stop}
<1>1. sizes \subseteq Nat \ {0}
  BY Powers
<1>2. 32 * Pow2[12] \in large
  BY Powers
<1>3. PICK s \in large : \A r \in large : s <= r
  <2>1. large \in SUBSET Nat /\ large # {}
    BY <1>1, <1>2
  <2>. HIDE DEF large
  <2>. QED BY <2>1, LeastNumber
<1>4. \E x \in sizes : x >= stop /\ \A r \in sizes : r >= stop => x <= r
  <2>. HIDE DEF sizes
  <2>. QED BY <1>3
<1>5. Doubled(32, stop) \in sizes
  <2>1. Doubled(32, stop) = CHOOSE x \in sizes : x >= stop /\ \A r \in sizes : r >= stop => x <= r
    BY DEF Doubled
  <2>. HIDE DEF sizes
  <2>. QED BY <1>4, <2>1
<1>6. Doubled(32, stop) \in Nat \ {0}
  <2>1. \A x \in sizes : x \in Nat \ {0}
    BY <1>1
  <2>. HIDE DEF sizes, large
  <2>. QED BY <2>1, <1>5
<1>. QED BY <1>6

\* There is always a power of two for the threads of a prefix sum or a sort.
LEMMA CumsumThreadsIsNumber ==
  ASSUME NEW n \in Nat, NEW max \in Nat \ {0}, max <= 4096
  PROVE  CumsumThreads(n, max) \in Nat \ {0} /\ CumsumThreads(n, max) <= max
<1>. DEFINE powers == {Pow2[k] : k \in 0..12}
            far == {k \in 0..12 : Pow2[k] >= n \/ 2 * Pow2[k] > max}
            fits(x) == /\ x <= max /\ (x >= n \/ 2 * x > max)
                       /\ (x = 1 \/ x \div 2 < n)
<1>1. PICK k \in far : \A l \in far : k <= l
  <2>1. 12 \in far
    <3>1. Pow2[12] = 4096
      BY Powers
    <3>2. 2 * Pow2[12] > max
      BY <3>1
    <3>. QED BY <3>2
  <2>2. far \in SUBSET Nat /\ far # {}
    BY <2>1
  <2>. HIDE DEF far
  <2>. QED BY <2>2, LeastNumber
<1>2. Pow2[k] \in powers /\ fits(Pow2[k])
  <2>1. CASE k = 0
    <3>1. Pow2[k] = 1 /\ k \in 0..12
      BY <2>1, Powers
    <3>2. Pow2[k] >= n \/ 2 * Pow2[k] > max
      BY <1>1
    <3>3. fits(Pow2[k])
      BY <3>1, <3>2
    <3>. QED BY <3>1, <3>3
  <2>2. CASE k # 0
    <3>1. k - 1 \in 0..12 /\ k \in 1..16 /\ k - 1 \in 0..16 /\ k \in 0..12
      BY <2>2
    <3>2. k - 1 \notin far
      <4>. HIDE DEF far
      <4>. QED BY <1>1, <3>1
    <3>3. Pow2[k] = 2 * Pow2[k - 1] /\ Pow2[k - 1] \in Nat /\ Pow2[k] \in Nat
      BY <3>1, Powers
    <3>4. ~(Pow2[k - 1] >= n) /\ ~(2 * Pow2[k - 1] > max)
      BY <3>1, <3>2
    <3>5. Pow2[k] \div 2 = Pow2[k - 1]
      BY <3>3
    <3>6. Pow2[k] >= n \/ 2 * Pow2[k] > max
      BY <1>1
    <3>7. fits(Pow2[k])
      BY <3>3, <3>4, <3>5, <3>6
    <3>. QED BY <3>1, <3>7
  <2>. QED BY <2>1, <2>2
<1>3. CumsumThreads(n, max) = CHOOSE x \in powers : fits(x)
  BY DEF CumsumThreads
<1>4. CumsumThreads(n, max) \in powers /\ fits(CumsumThreads(n, max))
  <2>. HIDE DEF powers, fits
  <2>. QED BY <1>2, <1>3
<1>5. powers \subseteq Nat \ {0}
  BY Powers
<1>6. CumsumThreads(n, max) \in Nat \ {0}
  <2>1. \A x \in powers : x \in Nat \ {0}
    BY <1>5
  <2>. HIDE DEF powers, fits, far
  <2>. QED BY <2>1, <1>4
<1>. QED BY <1>4, <1>6

\* The launch, and all launches of the stages, do all of their work.
Covered(c) ==
  Enough(c.groups, c.per, c.work) /\ (c.checked \/ c.groups * c.per = c.work)
CoversAll(d) == "cover" \in DOMAIN d /\ \A c \in d.cover : Covered(c)
AllCover(stages) ==
  \A s \in DOMAIN stages : \A k \in DOMAIN stages[s] : CoversAll(stages[s][k])

\* A dispatch of which nothing is said covers what is said of it, ...
LEMMA RunCovers ==
  /\ \A req, does, in, out, grid, threads : CoversAll(Run(req, does, in, out, grid, threads))
  /\ \A req, op, grid, threads : CoversAll(Simple(op, req, grid, threads))
  BY DEF Run, Simple, CoversAll

\* ... and it still does when other things are set, or enough groups.
LEMMA SettersCover ==
  ASSUME NEW d, CoversAll(d)
  PROVE  /\ \A b : CoversAll(Smem(d, b))
         /\ \A n, h : CoversAll(Room(d, n, h))
         /\ \A g, p, w : Enough(g, p, w) => CoversAll(Cover(d, g, p, w))
<1>1. \A b : CoversAll(Smem(d, b))
  BY DEF Smem, CoversAll
<1>2. \A n, h : CoversAll(Room(d, n, h))
  BY DEF Room, CoversAll
<1>3. ASSUME NEW g, NEW p, NEW w, Enough(g, p, w) PROVE CoversAll(Cover(d, g, p, w))
  <2>. DEFINE c == [groups |-> g, per |-> p, work |-> w, checked |-> TRUE]
              e == Cover(d, g, p, w)
  <2>1. Covered(c)
    BY <1>3 DEF Covered
  <2>2. "cover" \in DOMAIN e /\ e.cover = d.cover \cup {c}
    BY DEF Cover, CoversAll
  <2>. HIDE DEF c, e
  <2>3. CoversAll(e)
    BY <2>1, <2>2 DEF CoversAll
  <2>. QED BY <2>3 DEF e
<1>. QED BY <1>1, <1>2, <1>3

\* One, two or three launches in turn.
LEMMA StagesCover ==
  ASSUME NEW a, CoversAll(a)
  PROVE  /\ AllCover(One(a)) /\ AllCover(<<<<a>>>>)
         /\ \A b : CoversAll(b) => AllCover(<<<<a>>, <<b>>>>)
         /\ \A b, c : CoversAll(b) /\ CoversAll(c) => AllCover(<<<<a>>, <<b>>, <<c>>>>)
  BY DEF One, AllCover

\* Launches that say nothing of their work.
LEMMA SimpleLaunchesCover ==
  /\ \A op, req, grid, n : AllCover(One(Simple(op, req, grid, n)))
  /\ \A op, req, grid, n, b : AllCover(One(Smem(Simple(op, req, grid, n), b)))
  /\ \A req, does, in, out, grid, n : AllCover(One(Run(req, does, in, out, grid, n)))
  /\ \A req, does, in, out, grid, n, b :
       AllCover(One(Smem(Run(req, does, in, out, grid, n), b)))
  BY RunCovers, SettersCover, StagesCover

\* The operations of which no share of the work is told.
LEMMA SimpleOperationsCover ==
  ASSUME NEW op, NEW d
  PROVE  /\ AllCover(OpConcat(op, d))
         /\ AllCover(OpRepeat(op, d))
         /\ AllCover(OpGlu(op, d))
         /\ AllCover(OpSum(op, d))
         /\ AllCover(OpSumRows(op, d))
         /\ AllCover(OpDiag(op, d))
         /\ AllCover(OpSoftMax(op, d))
         /\ AllCover(OpSsmScan(op, d))
         /\ AllCover(OpRwkv(op, d))
         /\ AllCover(OpAddId(op, d))
         /\ AllCover(OpL2Norm(op, d))
         /\ AllCover(OpGroupNorm(op, d))
         /\ AllCover(OpRope(op, d))
         /\ AllCover(OpIm2col(op, d))
         /\ AllCover(OpConvTranspose1d(op, d))
         /\ AllCover(OpConvTranspose2d(op, d))
         /\ AllCover(OpUpscale(op, d))
         /\ AllCover(OpRoll(op, d))
         /\ AllCover(OpPad(op, d))
         /\ AllCover(OpPadReflect1d(op, d))
         /\ AllCover(OpArange(op, d))
         /\ AllCover(OpTimestepEmbedding(op, d))
         /\ AllCover(OpArgmax(op, d))
         /\ AllCover(OpTri(op, d))
         /\ AllCover(OpCountEqual(op, d))
<1>1. /\ AllCover(OpConcat(op, d)) /\ AllCover(OpRepeat(op, d)) /\ AllCover(OpGlu(op, d))
      /\ AllCover(OpRwkv(op, d)) /\ AllCover(OpAddId(op, d))
  BY SimpleLaunchesCover DEF OpConcat, OpRepeat, OpGlu, OpRwkv, OpAddId
<1>2. /\ AllCover(OpSum(op, d)) /\ AllCover(OpSumRows(op, d)) /\ AllCover(OpSoftMax(op, d))
      /\ AllCover(OpSsmScan(op, d)) /\ AllCover(OpL2Norm(op, d))
      /\ AllCover(OpGroupNorm(op, d)) /\ AllCover(OpArgmax(op, d))
  BY SimpleLaunchesCover
  DEF OpSum, OpSumRows, OpSoftMax, OpSsmScan, OpL2Norm, OpGroupNorm, OpArgmax
<1>3. /\ AllCover(OpDiag(op, d)) /\ AllCover(OpRope(op, d)) /\ AllCover(OpIm2col(op, d))
      /\ AllCover(OpConvTranspose1d(op, d)) /\ AllCover(OpConvTranspose2d(op, d))
  BY SimpleLaunchesCover
  DEF OpDiag, OpRope, OpIm2col, OpConvTranspose1d, OpConvTranspose2d
<1>4. /\ AllCover(OpUpscale(op, d)) /\ AllCover(OpRoll(op, d)) /\ AllCover(OpPad(op, d))
      /\ AllCover(OpPadReflect1d(op, d)) /\ AllCover(OpArange(op, d))
      /\ AllCover(OpTimestepEmbedding(op, d)) /\ AllCover(OpTri(op, d))
  BY SimpleLaunchesCover
  DEF OpUpscale, OpRoll, OpPad, OpPadReflect1d, OpArange, OpTimestepEmbedding, OpTri
<1>5. AllCover(OpCountEqual(op, d))
  BY RunCovers, SettersCover, StagesCover DEF OpCountEqual
<1>. QED BY <1>1, <1>2, <1>3, <1>4, <1>5

\* The operations that take several nodes say nothing of their work either.
LEMMA FusedCover ==
  ASSUME NEW nodes, NEW i, NEW d
  PROVE  AllCover(OpBin(nodes, i, d)) /\ AllCover(OpNorm(nodes, i, d))
<1>1. AllCover(OpBin(nodes, i, d))
  BY SimpleLaunchesCover DEF OpBin
<1>2. AllCover(OpNorm(nodes, i, d))
  BY SimpleLaunchesCover DEF OpNorm
<1>. QED BY <1>1, <1>2

\* A launch with enough groups for its work.
LEMMA LaunchCovers ==
  ASSUME NEW g, NEW p, NEW w, Enough(g, p, w)
  PROVE  /\ \A req, does, in, out, grid, n :
              CoversAll(Cover(Run(req, does, in, out, grid, n), g, p, w))
         /\ \A req, op, grid, n : CoversAll(Cover(Simple(op, req, grid, n), g, p, w))
         /\ \A req, op, grid, n, b :
              CoversAll(Cover(Smem(Simple(op, req, grid, n), b), g, p, w))
         /\ \A req, does, in, out, grid, n, b :
              CoversAll(Smem(Cover(Run(req, does, in, out, grid, n), g, p, w), b))
  BY RunCovers, SettersCover

\* An operation of one such launch.
LEMMA OneLaunchCovers ==
  ASSUME NEW g, NEW p, NEW w, Enough(g, p, w)
  PROVE  /\ \A req, does, in, out, grid, n :
              AllCover(One(Cover(Run(req, does, in, out, grid, n), g, p, w)))
         /\ \A req, op, grid, n : AllCover(One(Cover(Simple(op, req, grid, n), g, p, w)))
         /\ \A req, op, grid, n, b :
              AllCover(One(Cover(Smem(Simple(op, req, grid, n), b), g, p, w)))
<1>1. \A a : CoversAll(a) => AllCover(One(a))
  BY StagesCover
<1>. QED BY <1>1, LaunchCovers

\* The product of positive numbers.
LEMMA PositiveProduct ==
  ASSUME NEW a \in Nat \ {0}, NEW b \in Nat \ {0}
  PROVE  a * b \in Nat \ {0}
<1>1. a >= 1 /\ b >= 1
  OBVIOUS
<1>2. a * b >= a
  <2>1. (b - 1) * a >= 0
    BY <1>1
  <2>2. (b - 1) * a = a * b - a
    OBVIOUS
  <2>3. a * b \in Int /\ a \in Int
    OBVIOUS
  <2>. QED BY <2>1, <2>2, <2>3
<1>. QED BY <1>1, <1>2

\* The sizes of a tensor.
LEMMA SizesAreNumbers ==
  ASSUME NEW t, Sized(t)
  PROVE  /\ t.ne[0] \in Nat \ {0} /\ t.ne[1] \in Nat \ {0}
         /\ t.ne[2] \in Nat \ {0} /\ t.ne[3] \in Nat \ {0}
         /\ Elements(t) \in Nat \ {0}
<1>1. /\ t.ne[0] \in Nat \ {0} /\ t.ne[1] \in Nat \ {0}
      /\ t.ne[2] \in Nat \ {0} /\ t.ne[3] \in Nat \ {0}
  BY DEF Sized
<1>2. t.ne[0] * t.ne[1] \in Nat \ {0}
  BY <1>1, PositiveProduct
<1>3. t.ne[0] * t.ne[1] * t.ne[2] \in Nat \ {0}
  BY <1>1, <1>2, PositiveProduct
<1>4. t.ne[0] * t.ne[1] * t.ne[2] * t.ne[3] \in Nat \ {0}
  BY <1>1, <1>3, PositiveProduct
<1>. QED BY <1>1, <1>4 DEF Elements

\* Work shared out to groups of at most max threads, never more than there is work.
LEMMA SharedOut ==
  ASSUME NEW n \in Nat \ {0}, NEW max \in Nat \ {0}
  PROVE  /\ Enough(CeilDiv(n, AtMost(n, max)), AtMost(n, max), n)
         /\ Enough(CeilDiv(n, AtMost(max, n)), AtMost(max, n), n)
  BY AtMostIsEither, CeilDivCovers

\* What is asked of the shape of a node and of the device.
LEMMA ShapeOf ==
  ASSUME NEW op, NEW d, WellShaped(op, d)
  PROVE  /\ d.max \in Nat \ {0} /\ d.max <= 4096
         /\ Sized(op) /\ \A k \in 0..(Arity(op.op) - 1) : Sized(op.src[k])
<1>1. d.max \in Nat \ {0} /\ d.max <= 4096 /\ Sized(op)
  BY DEF WellShaped
<1>3. \A k \in 0..(Arity(op.op) - 1) : Sized(op.src[k])
  BY DEF WellShaped
<1>. QED BY <1>1, <1>3

\* Rows of an element, or a block, for each thread.
LEMMA RowOperationsCover ==
  ASSUME NEW op, NEW d, WellShaped(op, d)
  PROVE  /\ op.op = "GET_ROWS" => AllCover(OpGetRows(op, d))
         /\ op.op \in {"DUP", "CPY", "CONT"} => AllCover(OpCpy(op, d))
         /\ op.op = "POOL_1D" => AllCover(OpPool1d(op, d))
         /\ op.op = "POOL_2D" => AllCover(OpPool2d(op, d))
         /\ op.op = "OPT_STEP_ADAMW" => AllCover(OpOptStepAdamw(op, d))
         /\ op.op = "OPT_STEP_SGD" => AllCover(OpOptStepSgd(op, d))
         /\ op.op = "CONV_2D" => AllCover(OpConv2d(op, d))
         /\ op.op = "CONV_3D" => AllCover(OpConv3d(op, d))
         /\ op.op = "SOLVE_TRI" => AllCover(OpSolveTri(op, d))
         /\ op.op = "SSM_CONV" => AllCover(OpSsmConv(op, d))
<1>. USE ShapeOf
<1>1. ASSUME op.op = "GET_ROWS" PROVE AllCover(OpGetRows(op, d))
  <2>. DEFINE ne00t == IF Type(op, 0) \in QuantTypes
                       THEN op.src[0].ne[0] \div 16 ELSE op.src[0].ne[0]
              nth == AtMost(ne00t, d.max)
  <2>1. Sized(op.src[0])
    BY <1>1 DEF Arity
  <2>2. ne00t \in Nat \ {0}
    <3>1. op.src[0].ne[0] \in Nat \ {0}
      BY <2>1, SizesAreNumbers
    <3>2. Type(op, 0) \in QuantTypes => op.src[0].ne[0] >= 16
      BY <2>1 DEF Sized, Type
    <3>3. ASSUME NEW n \in Nat, n >= 16 PROVE n \div 16 \in Nat \ {0}
      BY <3>3
    <3>. QED BY <3>1, <3>2, <3>3
  <2>3. Enough(CeilDiv(ne00t, nth), nth, ne00t)
    <3>. HIDE DEF ne00t
    <3>. QED BY <2>2, SharedOut
  <2>. HIDE DEF ne00t
  <2>4. \A req, grid, n : AllCover(One(Cover(Simple(op, req, grid, n),
                                             CeilDiv(ne00t, nth), nth, ne00t)))
    BY <2>3, OneLaunchCovers
  <2>. QED BY <2>4, SMTT(30) DEF OpGetRows, ne00t
<1>2. ASSUME op.op \in {"DUP", "CPY", "CONT"} PROVE AllCover(OpCpy(op, d))
  <2>. DEFINE n == CopyChunks(op.src[0], op.type, op.blck)
              nth == AtMost(n, d.max)
  <2>1. n \in Nat \ {0}
    BY <1>2 DEF WellShaped
  <2>2. Enough(CeilDiv(n, nth), nth, n)
    BY <2>1, SharedOut
  <2>3. \A does, in : AllCover(One(CopyOf(op, 0, d, does, in)))
    BY <2>2, OneLaunchCovers DEF CopyOf
  <2>. HIDE DEF n
  <2>. QED BY <2>3 DEF OpCpy
<1>3. ASSUME NEW req PROVE AllCover(OpPool(op, req, d))
  <2>1. Elements(op) \in Nat \ {0}
    BY SizesAreNumbers
  <2>. DEFINE n == Elements(op)
              nth == AtMost(d.max, n)
  <2>2. Enough(CeilDiv(n, nth), nth, n)
    BY <2>1, SharedOut
  <2>3. \A grid : AllCover(One(Cover(Simple(op, req, grid, nth), CeilDiv(n, nth), nth, n)))
    BY <2>2, OneLaunchCovers
  <2>. QED BY <2>3 DEF OpPool
<1>4. AllCover(OpPool1d(op, d)) /\ AllCover(OpPool2d(op, d))
  BY <1>3 DEF OpPool1d, OpPool2d
<1>5. ASSUME NEW req, NEW out, 0 < Arity(op.op), Arity(op.op) \in Nat
      PROVE  AllCover(OptStep(op, req, out, d))
  <2>1. Elements(op.src[0]) \in Nat \ {0} /\ op.ne[0] \in Nat \ {0}
    BY <1>5, SizesAreNumbers
  <2>2. AtMost(d.max, op.ne[0]) \in Nat \ {0}
    BY <2>1, AtMostIsEither
  <2>. DEFINE n == Elements(op.src[0])
              nth == AtMost(d.max, op.ne[0])
  <2>3. Enough(CeilDiv(n, nth), nth, n)
    BY <2>1, <2>2, CeilDivCovers
  <2>4. \A does, in, grid :
          AllCover(One(Cover(Run(req, does, in, out, grid, nth), CeilDiv(n, nth), nth, n)))
    BY <2>3, OneLaunchCovers
  <2>. QED BY <2>4 DEF OptStep
<1>6. /\ op.op = "OPT_STEP_ADAMW" => AllCover(OpOptStepAdamw(op, d))
      /\ op.op = "OPT_STEP_SGD" => AllCover(OpOptStepSgd(op, d))
  <2>1. op.op \in {"OPT_STEP_ADAMW", "OPT_STEP_SGD"} => Arity(op.op) = 1
    BY DEF Arity
  <2>. QED BY <2>1, <1>5 DEF OpOptStepAdamw, OpOptStepSgd
<1>7. AllCover(OpConv2d(op, d))
  <2>. DEFINE nth == Most(1, AtMost(d.max, 256))
              tg == Most(1, CeilDiv(Elements(op), nth))
  <2>1. Elements(op) \in Nat \ {0}
    BY SizesAreNumbers
  <2>2. nth \in Nat \ {0}
    BY DEF Most, AtMost
  <2>. HIDE DEF nth
  <2>3. /\ Enough(CeilDiv(Elements(op), nth), nth, Elements(op))
        /\ CeilDiv(Elements(op), nth) \in Nat \ {0}
    BY <2>1, <2>2, CeilDivCovers
  <2>4. tg = CeilDiv(Elements(op), nth)
    BY <2>3 DEF Most
  <2>5. Enough(tg, nth, Elements(op))
    BY <2>3, <2>4
  <2>. HIDE DEF tg
  <2>6. \A req, grid : AllCover(One(Cover(Simple(op, req, grid, nth), tg, nth, Elements(op))))
    BY <2>5, OneLaunchCovers
  <2>. QED BY <2>6 DEF OpConv2d, tg, nth
<1>8. AllCover(OpConv3d(op, d))
  <2>1. op.ne[0] * op.ne[1] * op.ne[2] \in Nat \ {0}
    BY SizesAreNumbers, PositiveProduct
  <2>2. \A n \in Nat \ {0} : Enough(CeilDiv(n, 32), 32, n)
    BY CeilDivCovers
  <2>. DEFINE v == op.ne[0] * op.ne[1] * op.ne[2]
  <2>3. Enough(CeilDiv(v, 32), 32, v)
    <3>. HIDE DEF v
    <3>. QED BY <2>1, <2>2 DEF v
  <2>4. \A req, grid : AllCover(One(Cover(Simple(op, req, grid, 32), CeilDiv(v, 32), 32, v)))
    <3>. HIDE DEF v
    <3>. QED BY <2>3, OneLaunchCovers
  <2>. QED BY <2>4 DEF OpConv3d
<1>9. ASSUME op.op = "SOLVE_TRI" PROVE AllCover(OpSolveTri(op, d))
  <2>1. Sized(op.src[1])
    BY <1>9 DEF Arity
  <2>2. PipelineSolveTri(op).nsg = 8
    BY DEF PipelineSolveTri, Request
  <2>3. Enough(CeilDiv(op.src[1].ne[0], 8), 8, op.src[1].ne[0])
    BY <2>1, SizesAreNumbers, CeilDivCovers
  <2>4. \A req, grid, t, b :
          AllCover(One(Cover(Smem(Simple(op, req, grid, t), b),
                             CeilDiv(op.src[1].ne[0], 8), 8, op.src[1].ne[0])))
    BY <2>3, OneLaunchCovers
  <2>. QED BY <2>2, <2>4 DEF OpSolveTri
<1>10. AllCover(OpSsmConv(op, d))
  <2>1. BatchSize(op.ne[1]) \in Nat \ {0}
    BY SizesAreNumbers DEF BatchSize
  <2>2. Enough(CeilDiv(op.ne[1], BatchSize(op.ne[1])), BatchSize(op.ne[1]), op.ne[1])
    BY <2>1, SizesAreNumbers, CeilDivCovers
  <2>3. \A req, grid :
          AllCover(One(Cover(Simple(op, req, grid, BatchSize(op.ne[1])),
                             CeilDiv(op.ne[1], BatchSize(op.ne[1])),
                             BatchSize(op.ne[1]), op.ne[1])))
    BY <2>2, OneLaunchCovers
  <2>. QED BY <2>3, SimpleLaunchesCover DEF OpSsmConv
<1>. QED BY <1>1, <1>2, <1>4, <1>6, <1>7, <1>8, <1>9, <1>10

\* A number in fours.
LEMMA InFours ==
  ASSUME NEW n \in Nat \ {0}, n % 4 = 0
  PROVE  n \div 4 \in Nat \ {0} /\ n = 4 * (n \div 4)
  OBVIOUS

\* Element-wise operations: rows of a thread for each element or four of them, or a
\* group for each element or four of them in the whole tensor.
LEMMA UnaryCovers ==
  ASSUME NEW op, NEW d, WellShaped(op, d), op.op \in UnaryOps
  PROVE  AllCover(OpUnary(op, d))
<1>. DEFINE req == PipelineUnary(op)
            by == IF ByFour(op.src[0]) THEN 4 ELSE 1
            ne00 == op.src[0].ne[0] \div by
            max == AtMost(256, d.max)
            nth == AtMost(ne00, max)
            n == Elements(op) \div by
            nk0 == CeilDiv(ne00, nth)
<1>1. Sized(op.src[0]) /\ op.ne = op.src[0].ne /\ d.max \in Nat \ {0}
  <2>1. Arity(op.op) = 1
    BY DEF Arity, UnaryOps
  <2>. QED BY <2>1, ShapeOf DEF WellShaped
<1>2. /\ op.src[0].ne[0] \in Nat \ {0} /\ op.src[0].ne[1] \in Nat \ {0}
      /\ op.src[0].ne[2] \in Nat \ {0} /\ op.src[0].ne[3] \in Nat \ {0}
  BY <1>1, SizesAreNumbers
<1>3. req.c4 = ByFour(op.src[0])
  BY DEF PipelineUnary, Request
<1>4. ne00 \in Nat \ {0}
  <2>1. CASE ByFour(op.src[0])
    BY <1>2, <2>1, InFours DEF ByFour
  <2>2. CASE ~ByFour(op.src[0])
    BY <1>2, <2>2
  <2>. QED BY <2>1, <2>2
<1>5. Enough(nk0, nth, ne00)
  <2>1. max \in Nat \ {0}
    BY <1>1 DEF AtMost
  <2>. HIDE DEF ne00, max
  <2>. QED BY <1>4, <2>1, SharedOut
<1>6. Enough(n, by, Elements(op))
  <2>. DEFINE a == op.src[0].ne[0]
              r == op.src[0].ne[1] * op.src[0].ne[2] * op.src[0].ne[3]
  <2>1. r \in Nat \ {0}
    BY <1>2, PositiveProduct
  <2>2. Elements(op) = a * r /\ a \in Nat \ {0}
    BY <1>1, <1>2 DEF Elements
  <2>3. Elements(op) \in Nat \ {0}
    <3>. HIDE DEF a, r
    <3>. QED BY <2>1, <2>2, PositiveProduct
  <2>4. CASE ByFour(op.src[0])
    <3>1. a \div 4 \in Nat /\ a = 4 * (a \div 4)
      BY <1>2, <2>4, InFours DEF ByFour
    <3>. HIDE DEF a, r
    <3>2. PICK q \in Nat : a = 4 * q
      BY <3>1
    <3>3. a * r = 4 * (q * r) /\ q * r \in Nat
      BY <2>1, <3>2
    <3>4. PICK e \in Nat \ {0} : e = Elements(op)
      BY <2>3
    <3>5. e \div 4 = q * r /\ e = 4 * (q * r)
      <4>. DEFINE w == q * r
      <4>1. w \in Nat /\ e = 4 * w
        BY <2>2, <3>3, <3>4
      <4>. HIDE DEF w
      <4>2. e \div 4 = w
        BY <4>1
      <4>. QED BY <4>1, <4>2 DEF w
    <3>6. Enough(e \div 4, 4, e)
      <4>1. PICK w \in Nat : w = e \div 4
        BY <3>4
      <4>2. e = 4 * w
        BY <3>5, <4>1
      <4>3. Enough(w, 4, e)
        BY <4>1, <4>2, <3>4 DEF Enough
      <4>. QED BY <4>1, <4>3
    <3>. QED BY <2>4, <3>4, <3>6
  <2>5. CASE ~ByFour(op.src[0])
    <3>1. PICK e \in Nat \ {0} : e = Elements(op)
      BY <2>3
    <3>2. Enough(e \div 1, 1, e)
      BY <3>1 DEF Enough
    <3>. QED BY <2>5, <3>1, <3>2
  <2>. QED BY <2>4, <2>5
<1>7. \A grid, m : AllCover(One(Cover(Simple(op, req, grid, m), n, by, Elements(op))))
  <2>. HIDE DEF n, by, req
  <2>. QED BY <1>6, OneLaunchCovers
<1>8. \A grid, m : AllCover(One(Cover(Simple(op, req, grid, m), nk0, nth, ne00)))
  <2>. HIDE DEF nk0, nth, ne00, req
  <2>. QED BY <1>5, OneLaunchCovers
<1>9. (IF req.c4 THEN 4 ELSE 1) = by
  BY <1>3
<1>. QED BY <1>7, <1>8, <1>9 DEF OpUnary

\* Rows that are set: the numbers of the chunks, the threads and the rows of a group.
LEMMA SetRowsNumbers ==
  ASSUME NEW op, NEW d, WellShaped(op, d), op.op = "SET_ROWS"
  PROVE  LET nk0   == op.ne[0] \div op.blck
             nth0  == Doubled(32, AtMost(nk0, d.max))
             fit   == CeilDiv(nth0, nk0)
             nrptg == IF nth0 <= nk0 THEN 1
                      ELSE IF fit * nk0 > d.max THEN fit - 1 ELSE fit
         IN  nk0 \in Nat \ {0} /\ nth0 \in Nat \ {0} /\ nrptg \in Nat \ {0}
<1>. DEFINE nk0   == op.ne[0] \div op.blck
            nth0  == Doubled(32, AtMost(nk0, d.max))
            fit   == CeilDiv(nth0, nk0)
            nrptg == IF nth0 <= nk0 THEN 1
                     ELSE IF fit * nk0 > d.max THEN fit - 1 ELSE fit
<1>1. /\ op.ne[0] \in Nat \ {0} /\ op.blck \in 1..op.ne[0]
      /\ d.max \in Nat \ {0} /\ d.max <= 4096
  <2>1. Sized(op)
    BY ShapeOf DEF Arity
  <2>. QED BY <2>1, ShapeOf, SizesAreNumbers DEF WellShaped
<1>2. nk0 \in Nat \ {0}
  <2>1. ASSUME NEW a \in Nat \ {0}, NEW c \in 1..a PROVE a \div c \in Nat \ {0}
    <3>1. a = c * (a \div c) + (a % c) /\ a % c \in 0..(c - 1) /\ a \div c \in Nat
      BY <2>1
    <3>2. a \div c # 0
      <4>1. ASSUME a \div c = 0 PROVE FALSE
        <5>1. c * (a \div c) = 0
          BY <4>1
        <5>. QED BY <2>1, <3>1, <5>1
      <4>. QED BY <4>1
    <3>. QED BY <3>1, <3>2
  <2>. QED BY <1>1, <2>1
<1>3. nth0 \in Nat \ {0}
  <2>1. AtMost(nk0, d.max) \in Nat /\ AtMost(nk0, d.max) <= 4096
    <3>. HIDE DEF nk0
    <3>. QED BY <1>1, <1>2 DEF AtMost
  <2>. QED BY <2>1, DoubledIsNumber
<1>. HIDE DEF nth0, nk0
<1>4. nrptg \in Nat \ {0}
  <2>1. CASE nth0 <= nk0
    BY <2>1
  <2>2. CASE ~(nth0 <= nk0)
    <3>1. fit * nk0 >= nth0 /\ fit \in Nat \ {0}
      BY <1>2, <1>3, CeilDivCovers DEF Enough
    <3>2. fit # 1
      BY <1>2, <1>3, <2>2, <3>1
    <3>. HIDE DEF fit
    <3>3. fit - 1 \in Nat \ {0}
      BY <3>1, <3>2
    <3>. QED BY <2>2, <3>1, <3>3
  <2>. QED BY <2>1, <2>2
<1>. QED BY <1>2, <1>3, <1>4 DEF nk0, nth0

\* Short rows share a group, as many as there are threads for.
LEMMA SetRowsCovers ==
  ASSUME NEW op, NEW d, WellShaped(op, d), op.op = "SET_ROWS"
  PROVE  AllCover(OpSetRows(op, d))
<1>. DEFINE nk0   == op.ne[0] \div op.blck
            nth0  == Doubled(32, AtMost(nk0, d.max))
            fit   == CeilDiv(nth0, nk0)
            nrptg == IF nth0 <= nk0 THEN 1
                     ELSE IF fit * nk0 > d.max THEN fit - 1 ELSE fit
            ne01  == op.src[0].ne[1]
            groups == CeilDiv(ne01, nrptg)
<1>1. ne01 \in Nat \ {0}
  <2>1. Sized(op.src[0])
    BY ShapeOf DEF Arity
  <2>. QED BY <2>1, SizesAreNumbers
<1>4. nrptg \in Nat \ {0}
  BY SetRowsNumbers
<1>. HIDE DEF nrptg
<1>. HIDE DEF ne01
<1>5. Enough(groups, nrptg, ne01)
  BY <1>1, <1>4, CeilDivCovers
<1>. HIDE DEF groups
<1>6. \A req, grid, m :
        AllCover(One(Cover(Simple(op, req, grid, m), groups, nrptg, ne01)))
  BY <1>5, OneLaunchCovers
<1>. QED BY <1>6, SMTT(30) DEF OpSetRows, nk0, nth0, nrptg, ne01, groups

\* The rows of a head shared out among the simdgroups without a rest.
LEMMA GatedDeltaNetCovers ==
  ASSUME NEW op, NEW d, WellShaped(op, d), op.op = "GATED_DELTA_NET"
  PROVE  AllCover(OpGatedDeltaNet(op, d))
<1>. DEFINE n == op.src[2].ne[0]
            nsg == n \div 32
            groups == n \div nsg
<1>1. n \in Nat \ {0} /\ n % 32 = 0
  <2>1. Sized(op.src[2])
    BY ShapeOf DEF Arity
  <2>. QED BY <2>1, SizesAreNumbers DEF WellShaped
<1>2. PipelineGatedDeltaNet(op).nsg = nsg
  BY DEF PipelineGatedDeltaNet, Request
<1>3. Enough(groups, nsg, n)
  <2>. HIDE DEF n
  <2>1. nsg \in Nat \ {0} /\ n = 32 * nsg
    BY <1>1
  <2>2. groups = 32
    <3>1. ASSUME NEW m \in Nat \ {0} PROVE (32 * m) \div m = 32
      <4>. DEFINE q == (32 * m) \div m
                  r == (32 * m) % m
      <4>1. q \in Int /\ r \in 0..(m - 1) /\ 32 * m = m * q + r
        OBVIOUS
      <4>. HIDE DEF q, r
      <4>2. m * (32 - q) = r
        BY <4>1
      <4>3. 32 - q \in Int
        BY <4>1
      <4>4. CASE 32 - q >= 1
        <5>1. m * (32 - q) >= m
          BY <4>3, <4>4
        <5>. QED BY <4>1, <4>2, <5>1
      <4>5. CASE 32 - q <= -1
        <5>1. m * (32 - q) <= -m
          BY <4>3, <4>5
        <5>. QED BY <4>1, <4>2, <5>1
      <4>6. q = 32
        BY <4>1, <4>3, <4>4, <4>5
      <4>. QED BY <4>6 DEF q
    <3>. HIDE DEF nsg
    <3>. QED BY <2>1, <3>1
  <2>. HIDE DEF nsg, groups
  <2>3. groups * nsg = n /\ (groups - 1) * nsg < n
    BY <2>1, <2>2
  <2>. QED BY <1>1, <2>3 DEF Enough
<1>. HIDE DEF n, nsg, groups
<1>4. \A req, grid, m : AllCover(One(Cover(Simple(op, req, grid, m), groups, nsg, n)))
  BY <1>3, OneLaunchCovers
<1>. QED BY <1>2, <1>4 DEF OpGatedDeltaNet, n, groups

\* Prefix sums: the blocks of a row, then the totals of the blocks in one group.
LEMMA CumsumCovers ==
  ASSUME NEW op, NEW d, WellShaped(op, d), op.op = "CUMSUM"
  PROVE  AllCover(OpCumsum(op, d))
<1>. DEFINE ne00 == op.src[0].ne[0]
            nth == CumsumThreads(ne00, d.max)
            net0 == CeilDiv(ne00, nth)
<1>1. /\ ne00 \in Nat \ {0} /\ d.max \in Nat \ {0} /\ d.max <= 4096 /\ net0 <= nth
  <2>1. Sized(op.src[0])
    BY ShapeOf DEF Arity
  <2>. QED BY <2>1, ShapeOf, SizesAreNumbers DEF WellShaped, Asserted
<1>2. nth \in Nat \ {0}
  BY <1>1, CumsumThreadsIsNumber
<1>. HIDE DEF ne00, nth
<1>3. Enough(net0, nth, ne00) /\ net0 \in Nat \ {0}
  BY <1>1, <1>2, CeilDivCovers
<1>. HIDE DEF net0
<1>4. Enough(1, nth, net0)
  BY <1>1, <1>2, <1>3, OneGroupCovers
<1>5. /\ \A req, does, in, out, grid, m, b :
           CoversAll(Smem(Cover(Run(req, does, in, out, grid, m), net0, nth, ne00), b))
      /\ \A req, does, in, out, grid, m, b :
           CoversAll(Smem(Cover(Run(req, does, in, out, grid, m), 1, nth, net0), b))
      /\ \A req, does, in, out, grid, m :
           CoversAll(Cover(Run(req, does, in, out, grid, m), net0, nth, ne00))
  BY <1>3, <1>4, LaunchCovers
<1>. QED BY <1>5, StagesCover, ZenonT(30) DEF OpCumsum, net0, nth, ne00

\* ACC and SET: src0 copied, each row by one group, then the addition or copy.
LEMMA CopiesAheadCover ==
  ASSUME NEW op, NEW d, WellShaped(op, d),
         ~op.par.inplace => op.src[0].ne[0] <= d.max
  PROVE  /\ op.op = "ACC" => AllCover(OpAcc(op, d))
         /\ op.op = "SET" => AllCover(OpSet(op, d))
<1>1. ASSUME op.op \in {"ACC", "SET"}, ~op.par.inplace
      PROVE  CoversAll(CopySrc0(op, d.max))
  <2>1. Sized(op.src[0]) /\ d.max \in Nat \ {0}
    BY <1>1, ShapeOf DEF Arity
  <2>. DEFINE n == op.src[0].ne[0]
              nth == AtMost(d.max, n)
  <2>2. n \in Nat \ {0} /\ n <= d.max
    BY <1>1, <2>1, SizesAreNumbers
  <2>3. nth = n
    BY <2>1, <2>2 DEF AtMost
  <2>. HIDE DEF n, nth
  <2>4. Enough(1, nth, n)
    BY <2>2, <2>3, OneGroupCovers
  <2>. QED BY <2>4, LaunchCovers DEF CopySrc0, n, nth
<1>2. ASSUME op.op = "ACC" PROVE AllCover(OpAcc(op, d))
  <2>1. \A req, does, in, out, grid, m : CoversAll(Run(req, does, in, out, grid, m))
    BY RunCovers
  <2>. QED BY <1>1, <1>2, <2>1, StagesCover, ZenonT(30) DEF OpAcc
<1>3. ASSUME op.op = "SET" PROVE AllCover(OpSet(op, d))
  <2>. DEFINE n == CopyChunks(op.src[1], op.type, op.blck)
              nth == AtMost(n, d.max)
  <2>1. n \in Nat \ {0} /\ d.max \in Nat \ {0}
    BY <1>3, ShapeOf DEF WellShaped
  <2>2. Enough(CeilDiv(n, nth), nth, n)
    BY <2>1, SharedOut
  <2>3. \A does, in : CoversAll(CopyOf(op, 1, d, does, in))
    BY <2>2, LaunchCovers DEF CopyOf
  <2>. HIDE DEF n
  <2>. QED BY <1>1, <1>3, <2>3, StagesCover DEF OpSet
<1>. QED BY <1>2, <1>3

\* What a launch asks for and its grid are as it was made with.
LEMMA LaunchFields ==
  /\ \A req, op, grid, n :
       LET d == Simple(op, req, grid, n) IN d.req = req /\ d.grid = grid
  /\ \A req, op, grid, n, b :
       LET d == Smem(Simple(op, req, grid, n), b) IN d.req = req /\ d.grid = grid
  /\ \A req, does, in, out, grid, n, b :
       LET d == Smem(Run(req, does, in, out, grid, n), b) IN d.req = req /\ d.grid = grid
  BY DEF Simple, Run, Smem

\* A product: groups of the kernel's tile for the rows of both factors.
LEMMA TiledCovers ==
  ASSUME NEW x, CoversAll(x), NEW op, NEW d, NEW g0, NEW g1, NEW n1, NEW a, NEW b,
         KernelTile(x.req, d) = <<a, b>>, Enough(x.grid[g0], a, op.src[0].ne[1]),
         Enough(x.grid[g1], b, n1)
  PROVE  CoversAll(Tiled(x, op, d, g0, g1, n1))
<1>. DEFINE tile == KernelTile(x.req, d)
<1>1. tile[1] = a /\ tile[2] = b
  OBVIOUS
<1>. HIDE DEF tile
<1>2. CoversAll(Cover(x, x.grid[g0], tile[1], op.src[0].ne[1]))
  BY <1>1, SettersCover
<1>3. CoversAll(Cover(Cover(x, x.grid[g0], tile[1], op.src[0].ne[1]),
                      x.grid[g1], tile[2], n1))
  BY <1>1, <1>2, SettersCover
<1>. QED BY <1>3 DEF Tiled, tile

\* Groups that fit the work exactly, of a kernel that is to check its bounds.
FitsExactly(c) ==
  \E g, p, w : /\ c = [groups |-> g, per |-> p, work |-> w, checked |-> TRUE]
               /\ Enough(g, p, w) /\ g * p = w
AllFitExactly(d) == "cover" \in DOMAIN d /\ \A c \in d.cover : FitsExactly(c)

LEMMA SettersFit ==
  /\ \A req, op, grid, n, b : AllFitExactly(Smem(Simple(op, req, grid, n), b))
  /\ \A d, g, p, w : AllFitExactly(d) /\ Enough(g, p, w) /\ g * p = w
                     => AllFitExactly(Cover(d, g, p, w))
<1>1. \A req, op, grid, n, b : AllFitExactly(Smem(Simple(op, req, grid, n), b))
  BY DEF Simple, Run, Smem, AllFitExactly
<1>2. ASSUME NEW d, NEW g, NEW p, NEW w, AllFitExactly(d), Enough(g, p, w), g * p = w
      PROVE  AllFitExactly(Cover(d, g, p, w))
  <2>. DEFINE c == [groups |-> g, per |-> p, work |-> w, checked |-> TRUE]
              e == Cover(d, g, p, w)
  <2>1. FitsExactly(c)
    BY <1>2 DEF FitsExactly
  <2>2. "cover" \in DOMAIN e /\ e.cover = d.cover \cup {c}
    BY <1>2 DEF Cover, AllFitExactly
  <2>. HIDE DEF c, e
  <2>3. AllFitExactly(e)
    BY <1>2, <2>1, <2>2 DEF AllFitExactly
  <2>. QED BY <2>3 DEF e
<1>. QED BY <1>1, <1>2

\* Such a launch may do without the checks.
LEMMA UncheckedCovers ==
  ASSUME NEW d, AllFitExactly(d)
  PROVE  CoversAll(Unchecked(d))
<1>. DEFINE u(c) == [c EXCEPT !.checked = FALSE]
            e == Unchecked(d)
<1>1. "cover" \in DOMAIN e /\ e.cover = {u(c) : c \in d.cover}
  BY DEF Unchecked, AllFitExactly
<1>2. ASSUME NEW c, FitsExactly(c) PROVE Covered(u(c))
  <2>1. PICK g, p, w : /\ c = [groups |-> g, per |-> p, work |-> w, checked |-> TRUE]
                       /\ Enough(g, p, w) /\ g * p = w
    BY <1>2 DEF FitsExactly
  <2>2. u(c).groups = g /\ u(c).per = p /\ u(c).work = w
    BY <2>1
  <2>. HIDE DEF u
  <2>. QED BY <2>1, <2>2 DEF Covered
<1>. HIDE DEF u, e
<1>3. CoversAll(e)
  BY <1>1, <1>2 DEF CoversAll, AllFitExactly
<1>. QED BY <1>3 DEF e

LEMMA TiledFits ==
  ASSUME NEW x, AllFitExactly(x), NEW op, NEW d, NEW g0, NEW g1, NEW n1, NEW a, NEW b,
         KernelTile(x.req, d) = <<a, b>>, Enough(x.grid[g0], a, op.src[0].ne[1]),
         x.grid[g0] * a = op.src[0].ne[1], Enough(x.grid[g1], b, n1), x.grid[g1] * b = n1
  PROVE  AllFitExactly(Tiled(x, op, d, g0, g1, n1))
<1>. DEFINE tile == KernelTile(x.req, d)
<1>1. tile[1] = a /\ tile[2] = b
  OBVIOUS
<1>. HIDE DEF tile
<1>2. AllFitExactly(Cover(x, x.grid[g0], tile[1], op.src[0].ne[1]))
  BY <1>1, SettersFit
<1>3. AllFitExactly(Cover(Cover(x, x.grid[g0], tile[1], op.src[0].ne[1]),
                          x.grid[g1], tile[2], n1))
  BY <1>1, <1>2, SettersFit
<1>. QED BY <1>3 DEF Tiled, tile

\* Whole groups only.
LEMMA CeilDivFits ==
  ASSUME NEW n \in Nat \ {0}, NEW per \in Nat \ {0}, n % per = 0
  PROVE  CeilDiv(n, per) * per = n
<1>. DEFINE q == n \div per
            c == CeilDiv(n, per)
<1>1. q \in Int /\ n = per * q
  OBVIOUS
<1>2. c \in Nat /\ c * per >= n /\ (c - 1) * per < n
  BY CeilDivCovers DEF Enough
<1>0. CeilDiv(n, per) = c
  OBVIOUS
<1>. HIDE DEF q, c
<1>3. CASE c >= q + 1
  <2>1. c - 1 \in Int /\ c - 1 - q >= 0
    BY <1>1, <1>2, <1>3
  <2>2. (c - 1 - q) * per >= 0
    <3>1. \A e \in Nat : e * per >= 0
      OBVIOUS
    <3>2. c - 1 - q \in Nat
      BY <1>1, <1>2, <2>1
    <3>. QED BY <3>1, <3>2
  <2>3. (c - 1 - q) * per = (c - 1) * per - per * q
    BY <1>1, <1>2
  <2>4. (c - 1) * per \in Int /\ per * q \in Int
    BY <1>1, <1>2
  <2>. QED BY <1>1, <1>2, <2>2, <2>3, <2>4
<1>4. CASE c <= q - 1
  <2>1. (q - 1 - c) * per >= 0
    BY <1>1, <1>2, <1>4
  <2>2. (q - 1 - c) * per = per * q - per - c * per
    BY <1>1, <1>2
  <2>3. c * per \in Int /\ per * q \in Int
    BY <1>1, <1>2
  <2>. QED BY <1>1, <1>2, <2>1, <2>2, <2>3
<1>5. CASE c = q
  BY <1>0, <1>1, <1>2, <1>5
<1>6. c * per = n
  BY <1>1, <1>2, <1>3, <1>4, <1>5
<1>. QED BY <1>0, <1>2, <1>6

\* The types of the tables of the quantized kernels.
LEMMA TypesAreApart == FloatTypes \cap QuantTypes = {} /\ "q8_0" \in QuantTypes
  BY DEF FloatTypes, QuantTypes

\* A matrix times a vector: the groups reckoned with are the kernel's.
LEMMA MatVecTile ==
  ASSUME NEW op, NEW d, NEW kernel \in {"mul_mv", "mul_mv_id"},
         NEW short \in BOOLEAN, short => Type(op, 0) \in FloatTypes,
         Type(op, 0) \in FloatTypes \cup QuantTypes
  PROVE  LET req == MatVec(kernel, op, short)
         IN  /\ KernelTile(req, d) = <<RowsPerGroup(op, req), 1>>
             /\ RowsPerGroup(op, req) \in Nat \ {0}
             /\ req.nr1 = 1
<1>. DEFINE req == MatVec(kernel, op, short)
            type == Type(op, 0)
            sg == IF short THEN 1
                  ELSE IF type \in FloatTypes
                       THEN AtMost(4, CeilDiv(op.src[0].ne[0], 128)) ELSE N_SG[type]
            r0 == IF short THEN 32 ELSE IF type \in FloatTypes THEN 2 ELSE N_R0[type]
<1>1. /\ req.nr0 = r0 /\ req.nsg = sg /\ req.nr1 = 1
      /\ req.base.kernel = kernel /\ req.base.short = short /\ req.base.src = type
      /\ req.consts.nsg = sg
  BY DEF MatVec, Request
<1>2. type \in QuantTypes => N_R0[type] \in Nat \ {0} /\ N_SG[type] \in Nat \ {0}
  BY QuantAssumption
<1>. HIDE DEF req
<1>3. KernelTile(req, d) = IF short THEN <<32, 1>>
                           ELSE IF type \in FloatTypes THEN <<r0, 1>>
                           ELSE IF type = "q8_0" THEN <<N_R0[type], 1>>
                           ELSE <<sg * N_R0[type], 1>>
  <2>. HIDE DEF sg, r0, type
  <2>. QED BY <1>1 DEF KernelTile
<1>4. RowsPerGroup(op, req) =
        IF type \in FloatTypes \cup {"q8_0"} THEN r0 ELSE r0 * sg
  <2>. HIDE DEF sg, r0
  <2>. QED BY <1>1 DEF RowsPerGroup
<1>5. CASE type \in FloatTypes
  <2>1. r0 \in Nat \ {0} /\ (short => r0 = 32)
    BY <1>5
  <2>. HIDE DEF r0, sg, type
  <2>. QED BY <1>1, <1>3, <1>4, <1>5, <2>1 DEF req
<1>6. CASE type \in QuantTypes
  <2>1. type \notin FloatTypes /\ ~short
    BY <1>6, TypesAreApart
  <2>2. r0 = N_R0[type] /\ sg = N_SG[type]
    BY <2>1
  <2>. HIDE DEF r0, sg, type
  <2>3. CASE type = "q8_0"
    BY <1>1, <1>2, <1>3, <1>4, <1>6, <2>1, <2>2, <2>3 DEF req
  <2>4. CASE type # "q8_0"
    <3>1. r0 * sg \in Nat \ {0} /\ sg * N_R0[type] = r0 * sg
      BY <1>2, <1>6, <2>2, PositiveProduct
    <3>2. RowsPerGroup(op, req) = r0 * sg
      BY <1>4, <2>1, <2>4
    <3>3. KernelTile(req, d) = <<sg * N_R0[type], 1>>
      BY <1>3, <2>1, <2>4
    <3>. QED BY <1>1, <3>1, <3>2, <3>3 DEF req
  <2>. QED BY <2>3, <2>4
<1>. QED BY <1>5, <1>6

LEMMA MulMvCovers ==
  ASSUME NEW op, NEW d, Sized(op.src[0]), Sized(op.src[1]),
         Type(op, 0) \in FloatTypes \cup QuantTypes
  PROVE  CoversAll(MulMv(op, d))
<1>. DEFINE req == PipelineMulMv(op)
            n0 == RowsPerGroup(op, req)
            grid == <<CeilDiv(op.src[0].ne[1], n0), CeilDiv(op.src[1].ne[1], req.nr1),
                      Batch(op)>>
            x == Smem(Simple(op, req, grid, 32 * req.nsg), req.smem)
<1>1. KernelTile(req, d) = <<n0, 1>> /\ n0 \in Nat \ {0} /\ req.nr1 = 1
  <2>. DEFINE short == Type(op, 0) \in FloatTypes /\ op.src[0].ne[0] < 32
  <2>1. short \in BOOLEAN /\ (short => Type(op, 0) \in FloatTypes)
    OBVIOUS
  <2>2. req = MatVec("mul_mv", op, short)
    BY DEF PipelineMulMv
  <2>. HIDE DEF short
  <2>. QED BY <2>1, <2>2, MatVecTile
<1>2. op.src[0].ne[1] \in Nat \ {0} /\ op.src[1].ne[1] \in Nat \ {0}
  BY SizesAreNumbers
<1>. HIDE DEF req, n0
<1>3. /\ Enough(CeilDiv(op.src[0].ne[1], n0), n0, op.src[0].ne[1])
      /\ Enough(CeilDiv(op.src[1].ne[1], req.nr1), 1, op.src[1].ne[1])
  BY <1>1, <1>2, CeilDivCovers
<1>4. grid[1] = CeilDiv(op.src[0].ne[1], n0) /\ grid[2] = CeilDiv(op.src[1].ne[1], req.nr1)
  OBVIOUS
<1>. HIDE DEF grid
<1>5. x.req = req /\ x.grid = grid /\ CoversAll(x)
  BY LaunchFields, RunCovers, SettersCover
<1>. HIDE DEF x
<1>6. CoversAll(Tiled(x, op, d, 1, 2, op.src[1].ne[1]))
  BY <1>1, <1>3, <1>4, <1>5, TiledCovers
<1>. QED BY <1>6 DEF MulMv, x, grid, req, n0

LEMMA MulMvExtCovers ==
  ASSUME NEW op, NEW d, Sized(op.src[0]), Sized(op.src[1])
  PROVE  CoversAll(MulMvExt(op, d))
<1>. DEFINE ne11  == op.src[1].ne[1]
            nxpsg == IF op.src[0].ne[0] % 256 = 0 /\ ne11 < 3 THEN 16 ELSE 8
            r0ptg == (32 \div nxpsg) * 2
            r1ptg == CASE ne11 = 2 -> 2 [] ne11 \in {3, 6} -> 3 [] ne11 = 5 -> 5
                       [] OTHER -> 4
            grid  == <<CeilDiv(op.src[0].ne[1], r0ptg), CeilDiv(ne11, r1ptg), Batch(op)>>
            req   == PipelineMulMvExt(Type(op, 0), Type(op, 1), 2, nxpsg, r1ptg)
            x == Simple(op, req, grid, 32 * 2)
<1>1. op.src[0].ne[1] \in Nat \ {0} /\ ne11 \in Nat \ {0}
  BY SizesAreNumbers
<1>2. r1ptg \in Nat \ {0}
  BY <1>1
<1>3. r0ptg \in Nat \ {0}
  OBVIOUS
<1>. HIDE DEF r1ptg, nxpsg
<1>4. KernelTile(req, d) = <<r0ptg, r1ptg>>
  <2>1. /\ req.base.kernel = "mul_mv_ext" /\ req.base.r1 = r1ptg
        /\ req.consts.nxpsg = nxpsg /\ req.consts.nsg = 2
    BY DEF PipelineMulMvExt, Request
  <2>. HIDE DEF req
  <2>. QED BY <2>1 DEF KernelTile
<1>. HIDE DEF r0ptg, ne11
<1>5. /\ Enough(CeilDiv(op.src[0].ne[1], r0ptg), r0ptg, op.src[0].ne[1])
      /\ Enough(CeilDiv(ne11, r1ptg), r1ptg, ne11)
  BY <1>1, <1>2, <1>3, CeilDivCovers
<1>6. grid[1] = CeilDiv(op.src[0].ne[1], r0ptg) /\ grid[2] = CeilDiv(ne11, r1ptg)
  OBVIOUS
<1>. HIDE DEF grid, req
<1>7. x.req = req /\ x.grid = grid /\ CoversAll(x)
  BY LaunchFields, RunCovers
<1>. HIDE DEF x
<1>8. CoversAll(Tiled(x, op, d, 1, 2, ne11))
  BY <1>4, <1>5, <1>6, <1>7, TiledCovers
<1>. QED BY <1>8 DEF MulMvExt, x, grid, req, r0ptg, r1ptg, nxpsg, ne11

\* The kernels that check their bounds cover the product, and the others, which are
\* asked for only where both sizes are multiples of the tile, fit it exactly.
LEMMA MulMmCovers ==
  ASSUME NEW op, NEW d, Sized(op.src[0]), Sized(op.src[1]),
         op.ne[0] = op.src[0].ne[1], op.ne[1] = op.src[1].ne[1]
  PROVE  CoversAll(MulMm(op, d))
<1>. DEFINE req  == PipelineMulMm(op, d)
            m == op.src[0].ne[1]
            n == op.src[1].ne[1]
            nr0 == IF UseN64(op, d) THEN 64 ELSE IF d.has_tensor THEN NRA ELSE 64
            nr1 == IF UseN64(op, d) THEN 64 ELSE IF d.has_tensor THEN NRB ELSE 32
            grid == <<CeilDiv(n, req.nr1), CeilDiv(m, req.nr0), Batch(op)>>
            x == Smem(Simple(op, req, grid, 32 * req.nsg), req.smem)
            bare == req.consts = NoFields \/ ~req.consts.bco
<1>1. m \in Nat \ {0} /\ n \in Nat \ {0}
  BY SizesAreNumbers
<1>2. nr0 \in Nat \ {0} /\ nr1 \in Nat \ {0}
  BY QuantAssumption
<1>3. KernelTile(req, d) = <<nr0, nr1>> /\ req.nr0 = nr0 /\ req.nr1 = nr1
  <2>1. CASE UseN64(op, d)
    <3>1. req.base.kernel = "mul_mm_f16_f32_n64" /\ req.nr0 = 64 /\ req.nr1 = 64
      BY <2>1 DEF PipelineMulMm, Plain, Request
    <3>. HIDE DEF req
    <3>. QED BY <2>1, <3>1 DEF KernelTile
  <2>2. CASE ~UseN64(op, d)
    <3>1. req.base.kernel = "mul_mm" /\ req.nr0 = nr0 /\ req.nr1 = nr1
      BY <2>2 DEF PipelineMulMm, Request
    <3>. HIDE DEF req
    <3>. QED BY <2>2, <3>1 DEF KernelTile
  <2>. QED BY <2>1, <2>2
<1>4. bare => m % nr0 = 0 /\ n % nr1 = 0
  <2>1. CASE UseN64(op, d)
    BY <2>1 DEF UseN64
  <2>2. CASE ~UseN64(op, d)
    <3>. DEFINE bci == op.src[0].ne[0] % 32 # 0
                bco == op.ne[0] % nr0 # 0 \/ op.ne[1] % nr1 # 0
    <3>1. req.consts = [bci |-> bci, bco |-> bco]
      BY <2>2 DEF PipelineMulMm, Request
    <3>. HIDE DEF bci, req
    <3>2. req.consts # NoFields
      <4>1. "bci" \in DOMAIN req.consts /\ "bci" \notin DOMAIN NoFields
        BY <3>1 DEF NoFields
      <4>. QED BY <4>1
    <3>3. req.consts.bco = bco
      BY <3>1
    <3>. HIDE DEF nr0, nr1
    <3>. QED BY <3>2, <3>3
  <2>. QED BY <2>1, <2>2
<1>. HIDE DEF req, nr0, nr1, m, n
<1>5. Enough(CeilDiv(m, nr0), nr0, m) /\ Enough(CeilDiv(n, nr1), nr1, n)
  BY <1>1, <1>2, CeilDivCovers
<1>6. grid[2] = CeilDiv(m, nr0) /\ grid[1] = CeilDiv(n, nr1)
  BY <1>3
<1>. HIDE DEF grid
<1>7. x.req = req /\ x.grid = grid /\ CoversAll(x) /\ AllFitExactly(x)
  BY LaunchFields, RunCovers, SettersCover, SettersFit
<1>. HIDE DEF x
<1>8. CoversAll(Tiled(x, op, d, 2, 1, n))
  BY <1>3, <1>5, <1>6, <1>7, TiledCovers DEF m
<1>9. ASSUME bare PROVE CoversAll(Unchecked(Tiled(x, op, d, 2, 1, n)))
  <2>1. CeilDiv(m, nr0) * nr0 = m /\ CeilDiv(n, nr1) * nr1 = n
    BY <1>1, <1>2, <1>4, <1>9, CeilDivFits
  <2>2. AllFitExactly(Tiled(x, op, d, 2, 1, n))
    BY <1>3, <1>5, <1>6, <1>7, <2>1, TiledFits DEF m
  <2>. QED BY <2>2, UncheckedCovers
<1>10. CoversAll(IF bare THEN Unchecked(Tiled(x, op, d, 2, 1, n))
                 ELSE Tiled(x, op, d, 2, 1, n))
  <2>. HIDE DEF bare
  <2>. QED BY <1>8, <1>9
<1>. QED BY <1>10 DEF MulMm, bare, x, grid, req, m, n

LEMMA MulMatCovers ==
  ASSUME NEW op, NEW d, WellShaped(op, d), op.op = "MUL_MAT"
  PROVE  AllCover(OpMulMat(op, d))
<1>1. Sized(op.src[0]) /\ Sized(op.src[1])
  BY ShapeOf DEF Arity
<1>2. /\ op.ne[0] = op.src[0].ne[1] /\ op.ne[1] = op.src[1].ne[1]
      /\ Type(op, 0) \in FloatTypes \cup QuantTypes
  BY DEF WellShaped, Type
<1>3. CoversAll(MulMvExt(op, d)) /\ CoversAll(MulMm(op, d)) /\ CoversAll(MulMv(op, d))
  BY <1>1, <1>2, MulMvExtCovers, MulMmCovers, MulMvCovers
<1>. QED BY <1>3, StagesCover DEF OpMulMat

\* The product of chosen matrices: listed and by tiles, or one vector at a time.
LEMMA MulMatIdCovers ==
  ASSUME NEW op, NEW d, WellShaped(op, d), op.op = "MUL_MAT_ID"
  PROVE  AllCover(OpMulMatId(op, d))
<1>. DEFINE ne01 == op.src[0].ne[1]
            ids  == op.src[2]
            mm   == PipelineMulMmId(op)
            mv   == PipelineMulMvId(op)
            n0   == RowsPerGroup(op, mv)
            mmGrid == <<CeilDiv(ids.ne[1], 32), CeilDiv(ne01, 64), op.src[0].ne[2]>>
            mvGrid == <<CeilDiv(ne01, n0), 1, ids.ne[0] * ids.ne[1]>>
            many == Smem(Run(mm, <<"MUL_MAT_ID">>,
                             <<At(op, 0), At(op, 1), op.scratch[1], op.scratch[2]>>,
                             <<op.at>>, mmGrid, 128), mm.smem)
            few == Smem(Simple(op, mv, mvGrid, 32 * mv.nsg), mv.smem)
<1>1. ne01 \in Nat \ {0} /\ ids.ne[1] \in Nat \ {0}
  <2>1. Sized(op.src[0]) /\ Sized(op.src[2])
    BY ShapeOf DEF Arity
  <2>. QED BY <2>1, SizesAreNumbers
<1>2. KernelTile(mm, d) = <<64, 32>>
  <2>1. mm.base.kernel = "mul_mm_id"
    BY DEF PipelineMulMmId, Request
  <2>. HIDE DEF mm
  <2>. QED BY <2>1 DEF KernelTile
<1>3. KernelTile(mv, d) = <<n0, 1>> /\ n0 \in Nat \ {0}
  <2>1. mv = MatVec("mul_mv_id", op, FALSE)
    BY DEF PipelineMulMvId
  <2>2. Type(op, 0) \in FloatTypes \cup QuantTypes
    BY DEF WellShaped, Type
  <2>. HIDE DEF mv
  <2>. QED BY <2>1, <2>2, MatVecTile
<1>. HIDE DEF mm, mv, n0, ids
<1>4. CoversAll(Tiled(many, op, d, 2, 1, ids.ne[1]))
  <2>1. Enough(CeilDiv(ne01, 64), 64, ne01) /\ Enough(CeilDiv(ids.ne[1], 32), 32, ids.ne[1])
    <3>. HIDE DEF ne01
    <3>. QED BY <1>1, CeilDivCovers
  <2>2. mmGrid[2] = CeilDiv(ne01, 64) /\ mmGrid[1] = CeilDiv(ids.ne[1], 32)
    OBVIOUS
  <2>. HIDE DEF mmGrid
  <2>3. many.req = mm /\ many.grid = mmGrid /\ CoversAll(many)
    BY LaunchFields, RunCovers, SettersCover
  <2>. HIDE DEF many
  <2>. QED BY <1>2, <2>1, <2>2, <2>3, TiledCovers
<1>5. CoversAll(Tiled(few, op, d, 1, 2, 1))
  <2>1. Enough(CeilDiv(ne01, n0), n0, ne01) /\ Enough(1, 1, 1)
    <3>1. Enough(1, 1, 1)
      BY DEF Enough
    <3>. HIDE DEF ne01
    <3>. QED BY <1>1, <1>3, <3>1, CeilDivCovers
  <2>2. mvGrid[1] = CeilDiv(ne01, n0) /\ mvGrid[2] = 1
    OBVIOUS
  <2>. HIDE DEF mvGrid
  <2>3. few.req = mv /\ few.grid = mvGrid /\ CoversAll(few)
    BY LaunchFields, RunCovers, SettersCover
  <2>. HIDE DEF few
  <2>. QED BY <1>3, <2>1, <2>2, <2>3, TiledCovers
<1>6. \A req, does, in, out, grid, n, b : CoversAll(Smem(Run(req, does, in, out, grid, n), b))
  BY RunCovers, SettersCover
<1>. HIDE DEF many, few
<1>7. /\ AllCover(One(Tiled(few, op, d, 1, 2, 1)))
      /\ \A req, does, in, out, grid, n, b :
           AllCover(<<<<Smem(Run(req, does, in, out, grid, n), b)>>,
                      <<Tiled(many, op, d, 2, 1, ids.ne[1])>>>>)
  BY <1>4, <1>5, <1>6, StagesCover
<1>. QED BY <1>7 DEF OpMulMatId, many, few, mmGrid, mvGrid, mm, mv, n0, ids, ne01

\* What is put together from launches that cover their work covers it.
LEMMA TogetherCover ==
  ASSUME NEW S, NEW a \in Seq(S), NEW b \in Seq(S),
         \A k \in DOMAIN a : CoversAll(a[k]), \A k \in DOMAIN b : CoversAll(b[k])
  PROVE  \A k \in DOMAIN (a \o b) : CoversAll((a \o b)[k])
  BY TogetherIsEither

\* The same for stages one after the other.
LEMMA StagesTogetherCover ==
  ASSUME NEW S, NEW a \in Seq(S), NEW b \in Seq(S), AllCover(a), AllCover(b)
  PROVE  AllCover(a \o b)
  BY TogetherIsEither DEF AllCover

\* Attention: groups of queries, after the padding and the masked blocks.
LEMMA AttentionCovers ==
  ASSUME NEW op, NEW d, WellShaped(op, d), op.op = "FLASH_ATTN_EXT"
  PROVE  AllCover(OpFlashAttnExt(op, d))
<1>0. op.src[0].ne[1] \in Nat \ {0} /\ NQPSG \in Nat \ {0} /\ VEC_NQPSG \in Nat \ {0}
  <2>1. Sized(op.src[0])
    BY ShapeOf DEF Arity
  <2>. QED BY <2>1, SizesAreNumbers, QuantAssumption
<1>. DEFINE n == op.src[0].ne[1]
<1>1. \A c : CoversAll(PadKv(op, c))
  BY RunCovers, SettersCover DEF PadKv
<1>2. CoversAll(MaskBlocks(op))
  BY RunCovers, SettersCover DEF MaskBlocks
<1>3. /\ Enough(CeilDiv(n, NQPSG), NQPSG, n)
      /\ Enough(CeilDiv(n, VEC_NQPSG), VEC_NQPSG, n)
  <2>. HIDE DEF n
  <2>. QED BY <1>0, CeilDivCovers DEF n
<1>4. \A req, does, in, out, grid, t, b :
        CoversAll(Smem(Cover(Run(req, does, in, out, grid, t),
                             CeilDiv(n, NQPSG), NQPSG, n), b))
  <2>. HIDE DEF n
  <2>. QED BY <1>3, LaunchCovers
<1>5. \A req, does, in, out, grid, t, b, v, w :
        CoversAll(Room(Smem(Cover(Run(req, does, in, out, grid, t),
                             CeilDiv(n, VEC_NQPSG), VEC_NQPSG, n), b), v, w))
  <2>. HIDE DEF n
  <2>. QED BY <1>3, LaunchCovers, SettersCover
<1>6. AllCover(AttnMatrix(op, d))
  <2>. DEFINE has   == AttnHas(op, NCPSG)
              pad   == IF has.kvpad THEN <<PadKv(op, NCPSG)>> ELSE <<>>
              blk   == IF has.mask THEN <<MaskBlocks(op)>> ELSE <<>>
              first == pad \o blk
  <2>1. \A k \in DOMAIN first : CoversAll(first[k])
    <3>. DEFINE S == {PadKv(op, NCPSG), MaskBlocks(op)}
    <3>1. pad \in Seq(S) /\ blk \in Seq(S)
      <4>1. <<>> \in Seq(S) /\ \A x \in S : <<x>> \in Seq(S)
        OBVIOUS
      <4>2. PadKv(op, NCPSG) \in S /\ MaskBlocks(op) \in S
        OBVIOUS
      <4>. HIDE DEF S
      <4>. QED BY <4>1, <4>2
    <3>2. /\ \A k \in DOMAIN pad : CoversAll(pad[k])
          /\ \A k \in DOMAIN blk : CoversAll(blk[k])
      BY <1>1, <1>2
    <3>. HIDE DEF S, pad, blk
    <3>. QED BY <3>1, <3>2, TogetherCover
  <2>2. ASSUME NEW main, CoversAll(main)
        PROVE  AllCover(IF first = <<>> THEN <<<<main>>>> ELSE <<first, <<main>>>>)
    <3>. HIDE DEF first
    <3>. QED BY <2>1, <2>2 DEF AllCover
  <2>. QED BY <2>2, <1>4 DEF AttnMatrix
<1>7. AllCover(AttnVector(op, d))
  <2>1. ASSUME NEW kvpad, NEW pad, NEW main, NEW reduce,
               CoversAll(pad), CoversAll(main), CoversAll(reduce)
        PROVE  AllCover((IF kvpad THEN <<<<pad>>>> ELSE <<>>) \o <<<<main>>, <<reduce>>>>)
    <3>. DEFINE S == {<<pad>>, <<main>>, <<reduce>>}
                a == IF kvpad THEN <<<<pad>>>> ELSE <<>>
                b == <<<<main>>, <<reduce>>>>
    <3>1. a \in Seq(S) /\ b \in Seq(S)
      <4>1. <<>> \in Seq(S) /\ <<<<pad>>>> \in Seq(S) /\ <<<<main>>, <<reduce>>>> \in Seq(S)
        OBVIOUS
      <4>. HIDE DEF S
      <4>. QED BY <4>1
    <3>2. AllCover(a) /\ AllCover(b)
      BY <2>1 DEF AllCover
    <3>3. AllCover(a \o b)
      <4>. HIDE DEF S, a, b
      <4>. QED BY <3>1, <3>2, StagesTogetherCover
    <3>. QED BY <3>3
  <2>. QED BY <2>1, <1>1, <1>5, RunCovers DEF AttnVector
<1>. QED BY <1>6, <1>7 DEF OpFlashAttnExt

\* There are at most 17 doublings.
LEMMA LogUpIsBounded ==
  ASSUME NEW n
  PROVE  LogUp(n) \in 0..17
<1>. DEFINE below == {k \in 0..16 : Pow2[k] < n}
            top == 16
<1>1. below \subseteq 0..top /\ top \in Nat /\ top = 16
  OBVIOUS
<1>. HIDE DEF below, top
<1>2. IsFiniteSet(0..top) /\ Cardinality(0..top) = top + 1
  <2>1. top \in Int /\ 0 \in Int /\ ~(0 > top)
    BY <1>1
  <2>2. /\ IsFiniteSet(0..top)
        /\ Cardinality(0..top) = IF 0 > top THEN 0 ELSE top - 0 + 1
    BY <2>1, FS_Interval, Zenon
  <2>. QED BY <2>1, <2>2
<1>3. Cardinality(below) \in Nat /\ Cardinality(below) <= Cardinality(0..top)
  BY <1>1, <1>2, FS_Subset, FS_CardinalityType
<1>4. LogUp(n) = Cardinality(below)
  BY DEF LogUp, below
<1>. QED BY <1>1, <1>2, <1>3, <1>4

\* Merges of sorted runs, twice as long each time, take in the whole row.
LEMMA MergesCover ==
  ASSUME NEW op, NEW d, NEW req, NEW len \in Nat \ {0}, NEW total \in Nat \ {0},
         NEW here, NEW there
  PROVE  /\ AllCover(Merges(op, req, len, total, here, there, d))
         /\ \E S : Merges(op, req, len, total, here, there, d) \in Seq(S)
<1>. DEFINE m == Merges(op, req, len, total, here, there, d)
<1>1. PICK n \in 0..17 : n = LogUp(CeilDiv(total, len))
  BY LogUpIsBounded
<1>2. DOMAIN m = 1..n
  BY <1>1 DEF Merges
<1>3. \A i \in 1..n : \E a : CoversAll(a) /\ m[i] = <<a>>
  <2>. SUFFICES ASSUME NEW i \in 1..n PROVE \E a : CoversAll(a) /\ m[i] = <<a>>
    OBVIOUS
  <2>. DEFINE l == len * Pow2[i - 1]
              nm == CeilDiv(total, 2 * l)
  <2>1. 2 * l \in Nat \ {0}
    <3>1. Pow2[i - 1] \in Nat \ {0}
      <4>1. i - 1 \in 0..16
        BY <1>1
      <4>. QED BY <4>1, Powers
    <3>2. l \in Nat \ {0}
      BY <3>1, PositiveProduct
    <3>. HIDE DEF l
    <3>. QED BY <3>2
  <2>2. Enough(nm, 2 * l, total)
    <3>. DEFINE w == 2 * l
    <3>1. w \in Nat \ {0}
      BY <2>1
    <3>2. nm = CeilDiv(total, w)
      OBVIOUS
    <3>. HIDE DEF w, nm
    <3>3. Enough(nm, w, total)
      BY <3>1, <3>2, CeilDivCovers
    <3>. QED BY <3>3 DEF w
  <2>3. \A does, in, out, grid, t :
          CoversAll(Cover(Run(req, does, in, out, grid, t), nm, 2 * l, total))
    <3>. HIDE DEF l, nm
    <3>. QED BY <2>2, LaunchCovers
  <2>. QED BY <1>1, <2>3 DEF Merges
<1>4. m = [i \in 1..n |-> m[i]]
  BY <1>1 DEF Merges
<1>. HIDE DEF m
<1>5. m \in Seq({m[i] : i \in 1..n})
  <2>1. n \in Nat
    BY <1>1
  <2>. QED BY <1>4, <2>1
<1>6. AllCover(m)
  BY <1>2, <1>3 DEF AllCover
<1>. QED BY <1>5, <1>6 DEF m

\* Sorting: the blocks of a row, and the merges of what is kept of them.
LEMMA SortedBlocksCover ==
  ASSUME NEW op, NEW d, d.max \in Nat \ {0}, d.max <= 4096, Sized(op.src[0]),
         NEW req, NEW merge, NEW kept \in Nat \ {0}
  PROVE  AllCover(SortedBlocks(op, req, kept, merge, d))
<1>. DEFINE ne00 == op.src[0].ne[0]
            nth  == CumsumThreads(ne00, d.max)
            npr  == CeilDiv(ne00, nth)
            k    == AtMost(nth, kept)
            total == IF npr > 1 THEN (npr - 1) * k + AtMost(ne00 - (npr - 1) * nth, k)
                     ELSE k
<1>1. ne00 \in Nat \ {0}
  BY SizesAreNumbers
<1>2. nth \in Nat \ {0}
  BY <1>1, CumsumThreadsIsNumber
<1>. HIDE DEF ne00, nth
<1>3. k \in Nat \ {0}
  BY <1>2, AtMostIsEither
<1>4. npr \in Nat \ {0} /\ (npr - 1) * nth < ne00 /\ Enough(npr, nth, ne00)
  BY <1>1, <1>2, CeilDivCovers DEF Enough
<1>. HIDE DEF npr, k
<1>5. total \in Nat \ {0}
  <2>1. CASE npr > 1
    <3>1. (npr - 1) * k \in Nat
      <4>1. npr - 1 \in Nat
        BY <1>4
      <4>. QED BY <1>3, <4>1
    <3>2. ne00 - (npr - 1) * nth \in Nat \ {0}
      <4>1. (npr - 1) * nth \in Int
        BY <1>2, <1>4
      <4>. QED BY <1>1, <1>4, <4>1
    <3>3. AtMost(ne00 - (npr - 1) * nth, k) \in Nat \ {0}
      BY <1>3, <3>2, AtMostIsEither
    <3>. QED BY <2>1, <3>1, <3>3
  <2>2. CASE ~(npr > 1)
    BY <1>3, <2>2
  <2>. QED BY <2>1, <2>2
<1>. HIDE DEF total
<1>6. \A does, in, out, grid, t, bytes :
        AllCover(One(Smem(Cover(Run(req, does, in, out, grid, t), npr, nth, ne00), bytes)))
  <2>1. \A a : CoversAll(a) => AllCover(One(a))
    BY DEF AllCover, One
  <2>. QED BY <1>4, <2>1, LaunchCovers
<1>7. ASSUME NEW a, AllCover(One(a)), NEW m, AllCover(m), NEW S, m \in Seq(S)
      PROVE  AllCover(One(a) \o m)
  <2>. DEFINE T == S \cup {<<a>>}
  <2>1. One(a) \in Seq(T) /\ m \in Seq(T)
    BY <1>7 DEF One
  <2>. HIDE DEF T
  <2>. QED BY <1>7, <2>1, StagesTogetherCover
<1>8. \A here, there : /\ AllCover(Merges(op, merge, k, total, here, there, d))
                       /\ \E S : Merges(op, merge, k, total, here, there, d) \in Seq(S)
  BY <1>3, <1>5, MergesCover
<1>. QED BY <1>6, <1>7, <1>8, SMTT(30) DEF SortedBlocks, ne00, nth, npr, k, total

LEMMA SortingCovers ==
  ASSUME NEW op, NEW d, WellShaped(op, d), op.op \in {"ARGSORT", "TOP_K"}
  PROVE  AllCover(OpArgsort(op, d)) /\ AllCover(OpTopK(op, d))
<1>1. /\ d.max \in Nat \ {0} /\ d.max <= 4096 /\ Sized(op.src[0])
      /\ op.src[0].ne[0] \in Nat \ {0} /\ op.ne[0] \in Nat \ {0}
  <2>1. Sized(op.src[0]) /\ Sized(op)
    BY ShapeOf DEF Arity
  <2>. QED BY <2>1, ShapeOf, SizesAreNumbers
<1>. QED BY <1>1, SortedBlocksCover DEF OpArgsort, OpTopK

\* Whatever the operation, its launches cover their work.
LEMMA EveryStageCovers ==
  ASSUME NEW nodes, NEW i, NEW d, nodes[i].op \in EncodedOps, WellShaped(nodes[i], d),
         nodes[i].op \in {"ACC", "SET"} /\ ~nodes[i].par.inplace
           => nodes[i].src[0].ne[0] <= d.max
  PROVE  AllCover(Stages(nodes, i, d))
<1>. USE SimpleOperationsCover, RowOperationsCover, SetRowsCovers, GatedDeltaNetCovers,
         CumsumCovers, CopiesAheadCover, MulMatCovers, MulMatIdCovers,
         AttentionCovers, FusedCover, SortingCovers, UnaryCovers
<1>1. CASE nodes[i].op \in BinOps
  BY <1>1 DEF Stages, BinOps
<1>2. CASE nodes[i].op \in UnaryOps
  <2>1. AllCover(OpUnary(nodes[i], d))
    BY <1>2
  <2>. QED BY <1>2, <2>1 DEF Stages, UnaryOps, BinOps
<1>3. CASE nodes[i].op \notin BinOps \cup UnaryOps
  BY <1>3, SMTT(30) DEF Stages, EncodedOps
<1>. QED BY <1>1, <1>2, <1>3

\* Every dispatch so far covers its work.
DispatchedCover == \A a \in dispatched : CoversAll(a.run)

\* Every launch that is ever encoded has enough groups for its work and none without
\* work, and a kernel without bounds checks gets whole groups, if no row that is
\* copied ahead of ACC or SET is longer than a group of the device.
THEOREM GridsCover == ASSUME CopiesFit PROVE Spec => []GridCovers
<1>1. Init => DispatchedCover
  BY DEF Init, DispatchedCover
<1>2. MetalTypeOK /\ DispatchedCover /\ [Next]_vars => DispatchedCover'
  <2>. SUFFICES ASSUME MetalTypeOK, DispatchedCover, [Next]_vars PROVE DispatchedCover'
    OBVIOUS
  <2>1. ASSUME NEW e \in Encoders, Encode(e) PROVE DispatchedCover'
    <3>. DEFINE nodes  == Nodes(e)
                i      == next[e]
                stages == Stages(nodes, i, dev)
                first  == IF Joins(ranges[e], nodes, i, dev) THEN group[e] ELSE group[e] + 1
    <3>1. i \in DOMAIN nodes /\ nodes[i].compute
      BY <2>1, EncodingAssumption DEF Encode, Encoded, MetalTypeOK, Nodes
    <3>2. nodes[i].op \in EncodedOps
      BY <3>1, EncodingAssumption DEF MetalTypeOK, Nodes, Declared
    <3>3. WellShaped(nodes[i], dev)
      BY <3>1, ShapesAssumption DEF MetalTypeOK, Nodes
    <3>4. nodes[i].op \in {"ACC", "SET"} /\ ~nodes[i].par.inplace
            => nodes[i].src[0].ne[0] <= dev.max
      BY <3>1, CopiesFit DEF MetalTypeOK, Nodes, CopiesFit
    <3>5. AllCover(stages)
      <4>. HIDE DEF nodes, i
      <4>. QED BY <3>2, <3>3, <3>4, EveryStageCovers
    <3>6. dispatched' = dispatched \cup Dispatches(e, i, stages, first)
      BY <2>1 DEF Encode
    <3>7. \A a \in Dispatches(e, i, stages, first) : CoversAll(a.run)
      <4>. HIDE DEF stages, first
      <4>. QED BY <3>5 DEF Dispatches, AllCover
    <3>. HIDE DEF stages, first
    <3>. QED BY <3>6, <3>7 DEF DispatchedCover
  <2>2. CASE UNCHANGED dispatched
    BY <2>2 DEF DispatchedCover
  <2>. QED BY <2>1, <2>2 DEF Next, Skip, Execute, vars
<1>3. DispatchedCover => GridCovers
  BY DEF DispatchedCover, GridCovers, CoversAll, Covered, Enough
<1>. QED BY MetalTypes, <1>1, <1>2, <1>3, PTL DEF Spec

-------------------------------------------------------------------------------
(* The launches fit the device, LaunchFits.  That the groups and the threads  *)
(* of a launch are positive and not too many follows from how they are cut to *)
(* the device; what the code takes for granted is in WithinLimits.            *)

\* Doubling n stops at once when the limit is reached.
LEMMA DoubledStaysBelow ==
  ASSUME NEW n \in Nat \ {0}, NEW stop \in Nat, NEW k \in 0..12, stop <= n * Pow2[k]
  PROVE  Doubled(n, stop) \in Nat \ {0} /\ Doubled(n, stop) <= n * Pow2[k]
<1>. DEFINE sizes == {n * Pow2[l] : l \in 0..12}
            large == {s \in sizes : s >= stop}
            x == Doubled(n, stop)
<1>1. sizes \subseteq Nat \ {0}
  <2>1. \A l \in 0..12 : Pow2[l] \in Nat \ {0}
    BY Powers
  <2>. QED BY <2>1, PositiveProduct
<1>2. n * Pow2[k] \in large
  BY <1>1
<1>3. PICK s \in large : \A r \in large : s <= r
  <2>1. large \in SUBSET Nat /\ large # {}
    BY <1>1, <1>2
  <2>. HIDE DEF large
  <2>. QED BY <2>1, LeastNumber
<1>4. x \in sizes /\ x >= stop /\ \A r \in sizes : r >= stop => x <= r
  <2>1. x = CHOOSE y \in sizes : y >= stop /\ \A r \in sizes : r >= stop => y <= r
    BY DEF Doubled
  <2>2. \E y \in sizes : y >= stop /\ \A r \in sizes : r >= stop => y <= r
    <3>. HIDE DEF sizes
    <3>. QED BY <1>3
  <2>. HIDE DEF sizes, x
  <2>. QED BY <2>1, <2>2
<1>5. n * Pow2[k] \in sizes /\ n * Pow2[k] >= stop
  BY <1>2
<1>6. x \in Nat \ {0} /\ x <= n * Pow2[k]
  <2>. HIDE DEF sizes, x
  <2>. QED BY <1>1, <1>4, <1>5
<1>. QED BY <1>6 DEF x

\* Some of the powers.
LEMMA SomePowers == Pow2[2] = 4 /\ Pow2[3] = 8 /\ Pow2[5] = 32 /\ Pow2[8] = 256
<1>1. Pow2[0] = 1 /\ \A k \in 1..16 : Pow2[k] = 2 * Pow2[k - 1]
  BY Powers
<1>2. Pow2[1] = 2 /\ Pow2[2] = 4 /\ Pow2[3] = 8
  BY <1>1
<1>3. Pow2[4] = 16 /\ Pow2[5] = 32 /\ Pow2[6] = 64
  BY <1>1, <1>2
<1>4. Pow2[7] = 128 /\ Pow2[8] = 256
  BY <1>1, <1>3
<1>. QED BY <1>1, <1>2, <1>3, <1>4

\* The width of a simdgroup, doubled, and cut to the work and the device.
LEMMA SimdWidthThreads ==
  ASSUME NEW n \in Nat \ {0}, NEW max \in Nat \ {0}, max <= 4096
  PROVE  /\ FromSimdWidth(n, max) \in Nat \ {0}
         /\ FromSimdWidth(n, max) <= max /\ FromSimdWidth(n, max) <= n
         /\ Doubled(32, AtMost(n, max)) \in Nat \ {0}
<1>1. Doubled(32, AtMost(n, max)) \in Nat \ {0}
  <2>1. AtMost(n, max) \in Nat /\ AtMost(n, max) <= 4096
    BY DEF AtMost
  <2>. QED BY <2>1, DoubledIsNumber
<1>2. \A x \in Nat \ {0} :
        /\ AtMost(AtMost(x, max), n) \in Nat \ {0}
        /\ AtMost(AtMost(x, max), n) <= max /\ AtMost(AtMost(x, max), n) <= n
  BY DEF AtMost
<1>. QED BY <1>1, <1>2 DEF FromSimdWidth

\* Doubled until a limit that is a power of two itself.
LEMMA DoubledThreads ==
  ASSUME NEW n \in Nat
  PROVE  /\ n <= 256 => Doubled(32, n) \in Nat \ {0} /\ Doubled(32, n) <= 256
         /\ n <= 256 => Doubled(1, n) \in Nat \ {0} /\ Doubled(1, n) <= 256
         /\ n <= 32 => Doubled(1, n) \in Nat \ {0} /\ Doubled(1, n) <= 32
         /\ n <= 4 => Doubled(1, n) \in Nat \ {0} /\ Doubled(1, n) <= 4
<1>1. ASSUME n <= 256 PROVE Doubled(32, n) \in Nat \ {0} /\ Doubled(32, n) <= 256
  <2>1. 3 \in 0..12 /\ n <= 32 * Pow2[3] /\ 32 * Pow2[3] = 256
    BY <1>1, SomePowers
  <2>. QED BY <2>1, DoubledStaysBelow
<1>2. ASSUME NEW k \in 0..12, n <= Pow2[k]
      PROVE  Doubled(1, n) \in Nat \ {0} /\ Doubled(1, n) <= Pow2[k]
  <2>1. 1 * Pow2[k] = Pow2[k]
    BY Powers
  <2>2. n <= 1 * Pow2[k]
    BY <1>2, <2>1
  <2>. QED BY <2>1, <2>2, DoubledStaysBelow
<1>3. 2 \in 0..12 /\ 5 \in 0..12 /\ 8 \in 0..12
  OBVIOUS
<1>. QED BY <1>1, <1>2, <1>3, SomePowers

\* What is left of a number divided, rounded up.
LEMMA CeilDivIsLess ==
  ASSUME NEW n \in Nat \ {0}, NEW per \in Nat \ {0}
  PROVE  /\ CeilDiv(n, per) \in Nat \ {0} /\ CeilDiv(n, per) <= n
         /\ per * CeilDiv(n, per) >= n /\ per * CeilDiv(n, per) <= n + per - 1
<1>. DEFINE c == CeilDiv(n, per)
<1>1. c \in Nat \ {0} /\ c * per >= n /\ (c - 1) * per < n
  BY CeilDivCovers DEF Enough
<1>. HIDE DEF c
<1>2. (c - 1) * per = c * per - per /\ c * per = per * c /\ c * per \in Int
  BY <1>1
<1>3. c <= n
  <2>1. (c - 1) * (per - 1) >= 0
    BY <1>1
  <2>2. (c - 1) * (per - 1) = (c - 1) * per - (c - 1)
    BY <1>1
  <2>. QED BY <1>1, <1>2, <2>1, <2>2
<1>4. per * c >= n /\ per * c <= n + per - 1
  BY <1>1, <1>2
<1>. QED BY <1>1, <1>3, <1>4 DEF c

\* A launch within the limits of the device, and stages of such launches.
IsRun(x) == {"req", "grid", "threads", "smem", "cover", "room"} \subseteq DOMAIN x
GridFits(x) == \A k \in 1..3 : x.grid[k] >= 1
Fits(x, d) ==
  /\ IsRun(x) /\ GridFits(x) /\ x.threads >= 1
  /\ x.threads <= d.max \/ x.req.base.kernel \in FixedThreads
  /\ x.smem <= d.max_smem
  /\ \A r \in x.room : r.needs <= r.has
AllFit(stages, d) ==
  \A s \in DOMAIN stages : \A k \in DOMAIN stages[s] : Fits(stages[s][k], d)

\* A launch of so many threads, of a kernel that need not compare them.
ThreadsFit(n, req, d) ==
  n \in Nat \ {0} /\ (n <= d.max \/ req.base.kernel \in FixedThreads)

LEMMA RunFits ==
  ASSUME NEW d, d.max_smem \in Nat, NEW req, NEW n, ThreadsFit(n, req, d),
         NEW a \in Nat \ {0}, NEW b \in Nat \ {0}, NEW c \in Nat \ {0}
  PROVE  /\ \A does, in, out : Fits(Run(req, does, in, out, <<a, b, c>>, n), d)
         /\ \A op : Fits(Simple(op, req, <<a, b, c>>, n), d)
<1>1. ASSUME NEW does, NEW in, NEW out
      PROVE  Fits(Run(req, does, in, out, <<a, b, c>>, n), d)
  <2>. DEFINE x == Run(req, does, in, out, <<a, b, c>>, n)
  <2>1. IsRun(x) /\ x.threads = n /\ x.req = req /\ x.smem = 0 /\ x.room = {}
    BY DEF Run, IsRun
  <2>2. x.grid = <<a, b, c>>
    BY DEF Run
  <2>3. \A k \in 1..3 : <<a, b, c>>[k] >= 1
    BY \A k \in 1..3 : k = 1 \/ k = 2 \/ k = 3
  <2>4. GridFits(x)
    BY <2>2, <2>3 DEF GridFits
  <2>. HIDE DEF x
  <2>5. n >= 1 /\ 0 <= d.max_smem /\ (n <= d.max \/ req.base.kernel \in FixedThreads)
    BY DEF ThreadsFit
  <2>6. x.threads >= 1 /\ x.smem <= d.max_smem /\ \A r \in x.room : r.needs <= r.has
    BY <2>1, <2>5
  <2>7. x.threads <= d.max \/ x.req.base.kernel \in FixedThreads
    BY <2>1, <2>5
  <2>8. Fits(x, d)
    BY <2>1, <2>4, <2>6, <2>7 DEF Fits
  <2>. QED BY <2>8 DEF x
<1>. QED BY <1>1 DEF Simple

\* It stays within them when more is said of it.
LEMMA SettersStayFit ==
  ASSUME NEW d, NEW x, Fits(x, d)
  PROVE  /\ \A b : b <= d.max_smem => Fits(Smem(x, b), d)
         /\ \A g, p, w : Fits(Cover(x, g, p, w), d)
         /\ \A n, h : n <= h => Fits(Room(x, n, h), d)
         /\ Fits(Unchecked(x), d)
         /\ \A op, g0, g1, n1 : Fits(Tiled(x, op, d, g0, g1, n1), d)
<1>1. ASSUME NEW b, b <= d.max_smem PROVE Fits(Smem(x, b), d)
  <2>. DEFINE y == Smem(x, b)
  <2>1. /\ IsRun(y) /\ y.threads = x.threads /\ y.req = x.req /\ y.smem = b
        /\ y.room = x.room /\ y.grid = x.grid
    BY DEF Smem, Fits, IsRun
  <2>. HIDE DEF y
  <2>2. Fits(y, d)
    BY <1>1, <2>1 DEF Fits, GridFits
  <2>. QED BY <2>2 DEF y
<1>2. ASSUME NEW y, NEW g, NEW p, NEW w, Fits(y, d) PROVE Fits(Cover(y, g, p, w), d)
  <2>. DEFINE z == Cover(y, g, p, w)
  <2>1. /\ IsRun(z) /\ z.threads = y.threads /\ z.req = y.req /\ z.smem = y.smem
        /\ z.room = y.room /\ z.grid = y.grid
    BY <1>2 DEF Cover, Fits, IsRun
  <2>. HIDE DEF z
  <2>2. Fits(z, d)
    BY <1>2, <2>1 DEF Fits, GridFits
  <2>. QED BY <2>2 DEF z
<1>3. ASSUME NEW n, NEW h, n <= h PROVE Fits(Room(x, n, h), d)
  <2>. DEFINE y == Room(x, n, h)
              r0 == [needs |-> n, has |-> h]
  <2>1. /\ IsRun(y) /\ y.threads = x.threads /\ y.req = x.req /\ y.smem = x.smem
        /\ y.room = x.room \cup {r0} /\ y.grid = x.grid
    BY DEF Room, Fits, IsRun
  <2>2. r0.needs <= r0.has
    BY <1>3
  <2>. HIDE DEF y, r0
  <2>3. Fits(y, d)
    BY <2>1, <2>2 DEF Fits, GridFits
  <2>. QED BY <2>3 DEF y
<1>4. Fits(Unchecked(x), d)
  <2>. DEFINE y == Unchecked(x)
  <2>1. /\ IsRun(y) /\ y.threads = x.threads /\ y.req = x.req /\ y.smem = x.smem
        /\ y.room = x.room /\ y.grid = x.grid
    BY DEF Unchecked, Fits, IsRun
  <2>. HIDE DEF y
  <2>2. Fits(y, d)
    BY <2>1 DEF Fits, GridFits
  <2>. QED BY <2>2 DEF y
<1>5. \A op, g0, g1, n1 : Fits(Tiled(x, op, d, g0, g1, n1), d)
  BY <1>2 DEF Tiled
<1>. QED BY <1>1, <1>2, <1>3, <1>4, <1>5

\* One, two or three launches in turn.
LEMMA StagesFit ==
  ASSUME NEW d, NEW a, Fits(a, d)
  PROVE  /\ AllFit(One(a), d) /\ AllFit(<<<<a>>>>, d)
         /\ \A b : Fits(b, d) => AllFit(<<<<a>>, <<b>>>>, d)
         /\ \A b, c : Fits(b, d) /\ Fits(c, d) => AllFit(<<<<a>>, <<b>>, <<c>>>>, d)
  BY DEF One, AllFit

\* The launch of most operations.
LEMMA OneFits ==
  ASSUME NEW d, d.max_smem \in Nat, NEW req, NEW n, ThreadsFit(n, req, d),
         NEW a \in Nat \ {0}, NEW b \in Nat \ {0}, NEW c \in Nat \ {0}
  PROVE  /\ \A op : AllFit(One(Simple(op, req, <<a, b, c>>, n)), d)
         /\ \A op, bytes : bytes <= d.max_smem
              => AllFit(One(Smem(Simple(op, req, <<a, b, c>>, n), bytes)), d)
         /\ \A op, g, p, w : AllFit(One(Cover(Simple(op, req, <<a, b, c>>, n), g, p, w)), d)
         /\ \A does, in, out : AllFit(One(Run(req, does, in, out, <<a, b, c>>, n)), d)
         /\ \A does, in, out, bytes : bytes <= d.max_smem
              => AllFit(One(Smem(Run(req, does, in, out, <<a, b, c>>, n), bytes)), d)
         /\ \A does, in, out, g, p, w :
              AllFit(One(Cover(Run(req, does, in, out, <<a, b, c>>, n), g, p, w)), d)
<1>1. \A x : Fits(x, d) => /\ AllFit(One(x), d)
                           /\ \A bytes : bytes <= d.max_smem => Fits(Smem(x, bytes), d)
                           /\ \A g, p, w : Fits(Cover(x, g, p, w), d)
  BY StagesFit, SettersStayFit
<1>. QED BY <1>1, RunFits

\* What is asked of the sizes of a node and of the device.
LEMMA LimitsOf ==
  ASSUME NEW op, NEW d, WellShaped(op, d), WithinLimits(op, d)
  PROVE  /\ d.max \in Nat \ {0} /\ d.max <= 4096 /\ d.max >= 256
         /\ d.max_smem \in Nat /\ d.max_smem >= 32768 /\ d.max_smem \in Int
         /\ \A k \in 0..3 : op.ne[k] \in Nat \ {0}
         /\ \A j \in 0..(Arity(op.op) - 1) : \A k \in 0..3 : op.src[j].ne[k] \in Nat \ {0}
         /\ \A j \in 0..(Arity(op.op) - 1) : Rows(op.src[j]) \in Nat \ {0}
         /\ \A j \in 0..(Arity(op.op) - 1) : Elements(op.src[j]) \in Nat \ {0}
         /\ Rows(op) \in Nat \ {0} /\ Elements(op) \in Nat \ {0}
<1>1. /\ d.max \in Nat \ {0} /\ d.max <= 4096 /\ d.max >= 256
      /\ d.max_smem \in Nat /\ d.max_smem >= 32768
  BY ShapeOf DEF WithinLimits
<1>2. ASSUME NEW t, Sized(t)
      PROVE  /\ \A k \in 0..3 : t.ne[k] \in Nat \ {0}
             /\ Rows(t) \in Nat \ {0} /\ Elements(t) \in Nat \ {0}
  <2>1. \A k \in 0..3 : t.ne[k] \in Nat \ {0}
    BY <1>2 DEF Sized
  <2>2. t.ne[1] * t.ne[2] \in Nat \ {0}
    BY <2>1, PositiveProduct
  <2>3. t.ne[1] * t.ne[2] * t.ne[3] \in Nat \ {0}
    BY <2>1, <2>2, PositiveProduct
  <2>4. Rows(t) \in Nat \ {0}
    BY <2>3 DEF Rows
  <2>. QED BY <1>2, <2>1, <2>4, SizesAreNumbers
<1>. QED BY <1>1, <1>2, ShapeOf

\* Threads that are compared with the device, and kernels that are not.
LEMMA ThreadsCompared ==
  ASSUME NEW d, d.max \in Nat \ {0}
  PROVE  /\ \A n, req : n \in Nat \ {0} /\ n <= d.max => ThreadsFit(n, req, d)
         /\ \A n \in Nat \ {0} : \A req : /\ ThreadsFit(AtMost(d.max, n), req, d)
                                          /\ ThreadsFit(AtMost(n, d.max), req, d)
         /\ \A n \in Nat \ {0} : \A req :
              req.base.kernel \in FixedThreads => ThreadsFit(n, req, d)
         /\ \A n \in Nat \ {0} : AtMost(1024, n) \in Nat \ {0}
  BY DEF ThreadsFit, AtMost

\* The kernels that only rows of the result, or of a source, are counted for.
LEMMA FixedKernels ==
  /\ \A op : op.op = "CONCAT" => PipelineBase(op).base.kernel \in FixedThreads
  /\ \A op : /\ PipelineRoll(op).base.kernel \in FixedThreads
             /\ PipelinePad(op).base.kernel \in FixedThreads
             /\ PipelinePadReflect1d(op).base.kernel \in FixedThreads
             /\ PipelineArange(op).base.kernel \in FixedThreads
             /\ PipelineTimestepEmbedding(op).base.kernel \in FixedThreads
             /\ PipelineRope(op).base.kernel \in FixedThreads
             /\ PipelineSoftMax(op).base.kernel \in FixedThreads
             /\ PipelineArgmax(op).base.kernel \in FixedThreads
             /\ PipelineCountEqual(op).base.kernel \in FixedThreads
  /\ \A a, b : /\ PipelineSetRows(a, b).base.kernel \in FixedThreads
               /\ PipelineFlashAttnExtVecReduce(a, b).base.kernel \in FixedThreads
<1>1. \A b : Plain(b).base = b
  BY DEF Plain, Request
<1>2. \A b, f, c : Request(b, f, c).base = b
  BY DEF Request
<1>3. \A op : op.op = "CONCAT" => PipelineBase(op).base.kernel \in FixedThreads
  BY <1>1 DEF PipelineBase, FixedThreads
<1>4. ASSUME NEW op
      PROVE  /\ PipelineRoll(op).base.kernel \in FixedThreads
             /\ PipelinePad(op).base.kernel \in FixedThreads
             /\ PipelinePadReflect1d(op).base.kernel \in FixedThreads
             /\ PipelineArange(op).base.kernel \in FixedThreads
             /\ PipelineTimestepEmbedding(op).base.kernel \in FixedThreads
             /\ PipelineRope(op).base.kernel \in FixedThreads
  BY <1>1, <1>2 DEF FixedThreads, PipelineRoll, PipelinePad, PipelinePadReflect1d,
     PipelineArange, PipelineTimestepEmbedding, PipelineRope
<1>5. ASSUME NEW op
      PROVE  /\ PipelineSoftMax(op).base.kernel \in FixedThreads
             /\ PipelineArgmax(op).base.kernel \in FixedThreads
             /\ PipelineCountEqual(op).base.kernel \in FixedThreads
  BY DEF Plain, Request, FixedThreads, PipelineSoftMax, PipelineArgmax, PipelineCountEqual
<1>6. \A a, b : /\ PipelineSetRows(a, b).base.kernel \in FixedThreads
                /\ PipelineFlashAttnExtVecReduce(a, b).base.kernel \in FixedThreads
  BY <1>1, <1>2 DEF FixedThreads, PipelineSetRows, PipelineFlashAttnExtVecReduce
<1>. QED BY <1>3, <1>4, <1>5, <1>6

\* A group for each row, or one group, with a thread for each element.
LEMMA ElementwiseFits ==
  ASSUME NEW op, NEW d, WellShaped(op, d), WithinLimits(op, d)
  PROVE  /\ op.op = "CONCAT" => AllFit(OpConcat(op, d), d)
         /\ AllFit(OpRepeat(op, d), d)
         /\ op.op = "GLU" => AllFit(OpGlu(op, d), d)
         /\ op.op = "ADD_ID" => AllFit(OpAddId(op, d), d)
         /\ AllFit(OpDiag(op, d), d)
         /\ op.op = "ROPE" => AllFit(OpRope(op, d), d)
         /\ AllFit(OpUpscale(op, d), d) /\ AllFit(OpRoll(op, d), d)
         /\ AllFit(OpPad(op, d), d) /\ AllFit(OpPadReflect1d(op, d), d)
         /\ AllFit(OpArange(op, d), d)
         /\ op.op = "TIMESTEP_EMBEDDING" => AllFit(OpTimestepEmbedding(op, d), d)
         /\ op.op = "TRI" => AllFit(OpTri(op, d), d)
         /\ AllFit(OpConvTranspose1d(op, d), d)
<1>0. /\ d.max \in Nat \ {0} /\ d.max <= 4096 /\ d.max >= 256 /\ d.max_smem \in Nat
      /\ op.ne[0] \in Nat \ {0} /\ op.ne[1] \in Nat \ {0}
      /\ op.ne[2] \in Nat \ {0} /\ op.ne[3] \in Nat \ {0}
      /\ 0 < Arity(op.op) /\ Arity(op.op) \in Nat
           => /\ op.src[0].ne[0] \in Nat \ {0} /\ op.src[0].ne[1] \in Nat \ {0}
              /\ op.src[0].ne[2] \in Nat \ {0} /\ op.src[0].ne[3] \in Nat \ {0}
              /\ Rows(op.src[0]) \in Nat \ {0}
  BY LimitsOf
<1>s. ASSUME NEW req, NEW n, ThreadsFit(n, req, d),
              NEW a \in Nat \ {0}, NEW b \in Nat \ {0}, NEW c \in Nat \ {0}
      PROVE  AllFit(One(Simple(op, req, <<a, b, c>>, n)), d)
  BY <1>s, <1>0, OneFits
<1>t. /\ \A n \in Nat \ {0} : \A req : /\ ThreadsFit(AtMost(d.max, n), req, d)
                                       /\ ThreadsFit(AtMost(n, d.max), req, d)
      /\ \A n \in Nat \ {0} : \A req :
           req.base.kernel \in FixedThreads => ThreadsFit(AtMost(1024, n), req, d)
  <2>1. ASSUME NEW n \in Nat \ {0}, NEW req
        PROVE  ThreadsFit(AtMost(d.max, n), req, d) /\ ThreadsFit(AtMost(n, d.max), req, d)
    BY <1>0 DEF ThreadsFit, AtMost
  <2>2. ASSUME NEW n \in Nat \ {0}, NEW req, req.base.kernel \in FixedThreads
        PROVE  ThreadsFit(AtMost(1024, n), req, d)
    <3>1. AtMost(1024, n) \in Nat \ {0}
      BY DEF AtMost
    <3>. QED BY <2>2, <3>1 DEF ThreadsFit
  <2>. QED BY <2>1, <2>2
<1>u. ASSUME NEW req, NEW n, ThreadsFit(n, req, d)
      PROVE  AllFit(One(Simple(op, req, NeRest(op), n)), d)
  BY <1>0, <1>s, <1>u DEF NeRest
<1>v. ASSUME NEW req, NEW n, ThreadsFit(n, req, d), 0 < Arity(op.op), Arity(op.op) \in Nat
      PROVE  AllFit(One(Simple(op, req, NeRest(op.src[0]), n)), d)
  BY <1>0, <1>s, <1>v, SMTT(30) DEF NeRest
<1>1. op.op = "CONCAT" => AllFit(OpConcat(op, d), d)
  <2>1. op.op = "CONCAT" => ThreadsFit(AtMost(1024, op.ne[0]), PipelineBase(op), d)
    BY <1>0, <1>t, FixedKernels
  <2>. QED BY <2>1, <1>u DEF OpConcat
<1>2. AllFit(OpRepeat(op, d), d) /\ AllFit(OpUpscale(op, d), d)
  <2>1. \A req : ThreadsFit(AtMost(d.max, op.ne[0]), req, d)
    BY <1>0, <1>t
  <2>. QED BY <2>1, <1>u DEF OpRepeat, OpUpscale
<1>3. /\ AllFit(OpRoll(op, d), d) /\ AllFit(OpPad(op, d), d)
      /\ AllFit(OpPadReflect1d(op, d), d) /\ AllFit(OpArange(op, d), d)
  <2>1. /\ ThreadsFit(AtMost(1024, op.ne[0]), PipelineRoll(op), d)
        /\ ThreadsFit(AtMost(1024, op.ne[0]), PipelinePad(op), d)
        /\ ThreadsFit(AtMost(1024, op.ne[0]), PipelinePadReflect1d(op), d)
        /\ ThreadsFit(AtMost(1024, op.ne[0]), PipelineArange(op), d)
    BY <1>0, <1>t, FixedKernels
  <2>2. AllFit(One(Simple(op, PipelineArange(op), <<1, 1, 1>>, AtMost(1024, op.ne[0]))), d)
    BY <2>1, <1>s
  <2>. QED BY <2>1, <2>2, <1>u DEF OpRoll, OpPad, OpPadReflect1d, OpArange
<1>4. AllFit(OpConvTranspose1d(op, d), d)
  <2>1. ThreadsFit(1, PipelineConvTranspose1d(op), d)
    BY <1>0, ThreadsCompared
  <2>. QED BY <1>0, <2>1, <1>s DEF OpConvTranspose1d
<1>5. ASSUME op.op \in {"GLU", "ADD_ID", "DIAG", "ROPE", "TIMESTEP_EMBEDDING", "TRI"}
      PROVE  0 < Arity(op.op) /\ Arity(op.op) \in Nat
  BY <1>5 DEF Arity
<1>6. ASSUME op.op = "GLU" PROVE AllFit(OpGlu(op, d), d)
  <2>1. op.src[0].ne[0] \div 2 \in Nat \ {0}
    <3>1. op.src[0].ne[0] \in Nat /\ op.src[0].ne[0] >= 2
      BY <1>0, <1>5, <1>6 DEF WithinLimits
    <3>. QED BY <3>1
  <2>2. ThreadsFit(AtMost(d.max, op.src[0].ne[0] \div 2), PipelineGlu(op), d)
    BY <2>1, <1>t
  <2>3. Rows(op.src[0]) \in Nat \ {0}
    BY <1>0, <1>5, <1>6
  <2>. QED BY <2>2, <2>3, <1>s DEF OpGlu
<1>7. ASSUME op.op = "ADD_ID" PROVE AllFit(OpAddId(op, d), d)
  <2>1. /\ op.src[0].ne[0] \in Nat \ {0} /\ op.src[0].ne[1] \in Nat \ {0}
        /\ op.src[0].ne[2] \in Nat \ {0}
    BY <1>0, <1>5, <1>7
  <2>2. ThreadsFit(AtMost(d.max, op.src[0].ne[0]), PipelineBase(op), d)
    BY <2>1, <1>t
  <2>. QED BY <2>1, <2>2, <1>s DEF OpAddId
<1>8. AllFit(OpDiag(op, d), d)
  <2>1. ThreadsFit(32, PipelineDiag(op), d)
    BY <1>0, ThreadsCompared
  <2>. QED BY <2>1, <1>u DEF OpDiag
<1>9. ASSUME op.op = "ROPE" PROVE AllFit(OpRope(op, d), d)
  <2>1. ThreadsFit(AtMost(1024, op.src[0].ne[0]), PipelineRope(op), d)
    BY <1>0, <1>5, <1>9, <1>t, FixedKernels
  <2>. QED BY <2>1, <1>5, <1>9, <1>v DEF OpRope
<1>10. ASSUME op.op = "TIMESTEP_EMBEDDING" PROVE AllFit(OpTimestepEmbedding(op, d), d)
  <2>1. ASSUME NEW dim \in Nat PROVE Most(1, AtMost(1024, dim \div 2)) \in Nat \ {0}
    BY <2>1 DEF Most, AtMost
  <2>2. op.par.dim \in Nat
    BY <1>10 DEF WellShaped
  <2>3. ThreadsFit(Most(1, AtMost(1024, op.par.dim \div 2)),
                   PipelineTimestepEmbedding(op), d)
    BY <1>0, <2>1, <2>2, ThreadsCompared, FixedKernels
  <2>4. op.src[0].ne[0] \in Nat \ {0}
    BY <1>0, <1>5, <1>10
  <2>. QED BY <2>3, <2>4, <1>s DEF OpTimestepEmbedding
<1>11. ASSUME op.op = "TRI" PROVE AllFit(OpTri(op, d), d)
  <2>1. op.src[0].ne[0] \in Nat \ {0}
    BY <1>0, <1>5, <1>11
  <2>2. ThreadsFit(FromSimdWidth(op.src[0].ne[0], d.max), PipelineTri(op), d)
    <3>1. d.max \in Nat \ {0} /\ d.max <= 4096
      BY <1>0
    <3>2. \A n \in Nat \ {0} :
            FromSimdWidth(n, d.max) \in Nat \ {0} /\ FromSimdWidth(n, d.max) <= d.max
      BY <3>1, SimdWidthThreads
    <3>. QED BY <2>1, <3>2 DEF ThreadsFit
  <2>. QED BY <2>2, <1>5, <1>11, <1>v DEF OpTri
<1>. QED BY <1>1, <1>2, <1>3, <1>4, <1>6, <1>7, <1>8, <1>9, <1>10, <1>11

\* What a group of the reductions keeps in its memory.
LEMMA SmallRooms ==
  ASSUME NEW op
  PROVE  /\ PipelineSoftMax(op).smem \in {128, 256, 512}
         /\ PipelineL2Norm(op).smem \in {128, 256, 512}
         /\ PipelineGroupNorm(op).smem \in {128, 256, 512}
         /\ PipelineArgmax(op).smem \in {128, 256, 512}
         /\ PipelineCountEqual(op).smem \in {128, 256, 512}
         /\ PipelineSumRows(op).smem \in {128, 256, 512}
         /\ \A n : PipelineNorm(op, n).smem \in {128, 256, 512}
<1>1. /\ PipelineSoftMax(op).smem \in {128, 256, 512}
      /\ PipelineL2Norm(op).smem \in {128, 256, 512}
  BY DEF PipelineSoftMax, PipelineL2Norm, Plain, Request
<1>2. /\ PipelineGroupNorm(op).smem \in {128, 256, 512}
      /\ PipelineArgmax(op).smem \in {128, 256, 512}
      /\ PipelineCountEqual(op).smem \in {128, 256, 512}
  BY DEF PipelineGroupNorm, PipelineArgmax, PipelineCountEqual, Plain, Request
<1>3. PipelineSumRows(op).smem \in {128, 256, 512}
  BY DEF PipelineSumRows, Request
<1>4. \A n : PipelineNorm(op, n).smem \in {128, 256, 512}
  BY DEF PipelineNorm, Plain, Request
<1>. QED BY <1>1, <1>2, <1>3, <1>4

\* A group for each row of src0, with some memory of its own.
LEMMA RowsFit ==
  ASSUME NEW op, NEW d, WellShaped(op, d), WithinLimits(op, d), Arity(op.op) \in Nat,
         0 < Arity(op.op), NEW req, NEW n, ThreadsFit(n, req, d)
  PROVE  /\ \A b : b <= d.max_smem
              => AllFit(One(Smem(Simple(op, req, NeRest(op.src[0]), n), b)), d)
         /\ \A b : b <= d.max_smem
              => AllFit(One(Smem(Simple(op, req, <<Rows(op.src[0]), 1, 1>>, n), b)), d)
         /\ \A does, in, out, b : b <= d.max_smem
              => AllFit(One(Smem(Run(req, does, in, out, NeRest(op.src[0]), n), b)), d)
         /\ \A does, in, out :
              AllFit(One(Run(req, does, in, out, NeRest(op.src[0]), n)), d)
<1>1. /\ d.max_smem \in Nat /\ Rows(op.src[0]) \in Nat \ {0}
      /\ op.src[0].ne[1] \in Nat \ {0} /\ op.src[0].ne[2] \in Nat \ {0}
      /\ op.src[0].ne[3] \in Nat \ {0}
  BY LimitsOf
<1>2. ASSUME NEW a \in Nat \ {0}, NEW b \in Nat \ {0}, NEW c \in Nat \ {0}
      PROVE  /\ \A bytes : bytes <= d.max_smem
                  => AllFit(One(Smem(Simple(op, req, <<a, b, c>>, n), bytes)), d)
             /\ \A does, in, out, bytes : bytes <= d.max_smem
                  => AllFit(One(Smem(Run(req, does, in, out, <<a, b, c>>, n), bytes)), d)
             /\ \A does, in, out : AllFit(One(Run(req, does, in, out, <<a, b, c>>, n)), d)
  BY <1>1, <1>2, OneFits
<1>3. NeRest(op.src[0]) = <<op.src[0].ne[1], op.src[0].ne[2], op.src[0].ne[3]>>
  BY DEF NeRest
<1>4. 1 \in Nat \ {0}
  OBVIOUS
<1>. HIDE DEF NeRest
<1>. QED BY <1>1, <1>2, <1>3, <1>4

\* Sums and norms over rows.
LEMMA ReductionsFit ==
  ASSUME NEW op, NEW d, WellShaped(op, d), WithinLimits(op, d)
  PROVE  /\ op.op = "SUM" => AllFit(OpSum(op, d), d)
         /\ op.op \in {"SUM_ROWS", "MEAN"} => AllFit(OpSumRows(op, d), d)
         /\ op.op = "SOFT_MAX" => AllFit(OpSoftMax(op, d), d)
         /\ op.op = "L2_NORM" => AllFit(OpL2Norm(op, d), d)
         /\ op.op = "GROUP_NORM" => AllFit(OpGroupNorm(op, d), d)
         /\ op.op = "ARGMAX" => AllFit(OpArgmax(op, d), d)
         /\ op.op = "SSM_SCAN" => AllFit(OpSsmScan(op, d), d)
         /\ op.op = "COUNT_EQUAL" => AllFit(OpCountEqual(op, d), d)
<1>0. d.max \in Nat \ {0} /\ d.max <= 4096 /\ d.max >= 256 /\ d.max_smem \in Nat /\ d.max_smem >= 32768
  BY LimitsOf
<1>a. ASSUME op.op \in {"SUM", "SUM_ROWS", "MEAN", "SOFT_MAX", "L2_NORM", "GROUP_NORM",
                        "ARGMAX", "SSM_SCAN", "COUNT_EQUAL"}
      PROVE  /\ Arity(op.op) \in Nat /\ 0 < Arity(op.op)
             /\ \A k \in 0..3 : op.src[0].ne[k] \in Nat \ {0}
             /\ Rows(op.src[0]) \in Nat \ {0} /\ Elements(op.src[0]) \in Nat \ {0}
  <2>1. Arity(op.op) \in Nat /\ 0 < Arity(op.op)
    BY <1>a DEF Arity
  <2>. QED BY <2>1, LimitsOf
<1>b. ASSUME NEW n \in Nat \ {0}
      PROVE  /\ FromSimdWidth(n, d.max) \in Nat \ {0} /\ FromSimdWidth(n, d.max) <= d.max
             /\ \A req : ThreadsFit(FromSimdWidth(n, d.max), req, d)
             /\ \A req : ThreadsFit(AtMost(Doubled(32, AtMost(n, d.max)), d.max), req, d)
  <2>1. /\ FromSimdWidth(n, d.max) \in Nat \ {0} /\ FromSimdWidth(n, d.max) <= d.max
        /\ Doubled(32, AtMost(n, d.max)) \in Nat \ {0}
    BY <1>0, SimdWidthThreads
  <2>2. ASSUME NEW x \in Nat \ {0}, NEW req PROVE ThreadsFit(AtMost(x, d.max), req, d)
    BY <1>0 DEF ThreadsFit, AtMost
  <2>. QED BY <2>1, <2>2 DEF ThreadsFit
<1>c. /\ PipelineSoftMax(op).smem <= d.max_smem /\ PipelineL2Norm(op).smem <= d.max_smem
      /\ PipelineGroupNorm(op).smem <= d.max_smem /\ PipelineArgmax(op).smem <= d.max_smem
      /\ PipelineCountEqual(op).smem <= d.max_smem
      /\ PipelineSumRows(op).smem <= d.max_smem
  <2>1. \A x : x \in {128, 256, 512} => x <= d.max_smem
    BY <1>0
  <2>. QED BY <2>1, SmallRooms
\* A quarter of a row of fours, or the row.
<1>d. ASSUME NEW n \in Nat \ {0}
      PROVE  (IF n % 4 = 0 THEN n \div 4 ELSE n) \in Nat \ {0}
  BY InFours
<1>1. ASSUME op.op = "SUM" PROVE AllFit(OpSum(op, d), d)
  <2>. DEFINE nth == FromSimdWidth(Elements(op.src[0]), d.max)
  <2>1. nth \in Nat \ {0} /\ nth <= d.max /\ ThreadsFit(nth, PipelineSum(op), d)
    BY <1>a, <1>b, <1>1
  <2>. HIDE DEF nth
  <2>2. 4 * CeilDiv(nth, 32) <= d.max_smem
    <3>1. CeilDiv(nth, 32) \in Nat /\ CeilDiv(nth, 32) <= nth
      BY <2>1, CeilDivIsLess
    <3>. QED BY <1>0, <2>1, <3>1
  <2>3. AllFit(One(Smem(Simple(op, PipelineSum(op), <<1, 1, 1>>, nth), 4 * CeilDiv(nth, 32))), d)
    BY <1>0, <2>1, <2>2, OneFits
  <2>. QED BY <2>3 DEF OpSum, nth
<1>2. ASSUME op.op \in {"SUM_ROWS", "MEAN"} PROVE AllFit(OpSumRows(op, d), d)
  <2>. DEFINE ne00 == IF PipelineSumRows(op).c4 THEN op.src[0].ne[0] \div 4
                      ELSE op.src[0].ne[0]
  <2>1. PipelineSumRows(op).c4 = (op.src[0].ne[0] % 4 = 0)
    BY DEF PipelineSumRows, Request, ByFour
  <2>2. ne00 \in Nat \ {0}
    <3>1. op.src[0].ne[0] \in Nat \ {0}
      BY <1>a, <1>2
    <3>. QED BY <1>d, <2>1, <3>1
  <2>. HIDE DEF ne00
  <2>3. ThreadsFit(FromSimdWidth(ne00, d.max), PipelineSumRows(op), d)
    BY <1>b, <2>2
  <2>4. PipelineSumRows(op).smem <= d.max_smem
    BY <1>c
  <2>. QED BY <1>a, <1>2, <2>3, <2>4, RowsFit DEF OpSumRows, ne00
<1>3. ASSUME NEW rows \in Nat \ {0}
      PROVE  CeilDiv(256, rows) \in Nat \ {0} /\ CeilDiv(256, rows) <= 256
  BY CeilDivIsLess
<1>4. ASSUME NEW n \in Nat \ {0}, NEW rows \in Nat \ {0}
      PROVE  Doubled(32, AtMost(n, CeilDiv(256, rows))) \in Nat \ {0}
  <2>1. AtMost(n, CeilDiv(256, rows)) \in Nat /\ AtMost(n, CeilDiv(256, rows)) <= 256
    BY <1>3 DEF AtMost
  <2>. QED BY <2>1, DoubledThreads
<1>5. ASSUME op.op = "SOFT_MAX" PROVE AllFit(OpSoftMax(op, d), d)
  <2>. DEFINE ne00 == op.src[0].ne[0]
              n == IF ne00 % 4 = 0 THEN ne00 \div 4 ELSE ne00
              nth == Doubled(32, AtMost(n, CeilDiv(256, Rows(op.src[0]))))
  <2>1. n \in Nat \ {0}
    BY <1>a, <1>d, <1>5
  <2>. HIDE DEF n
  <2>2. nth \in Nat \ {0}
    BY <1>a, <1>4, <1>5, <2>1
  <2>. HIDE DEF nth
  <2>3. ThreadsFit(nth, PipelineSoftMax(op), d)
    BY <2>2, FixedKernels DEF ThreadsFit
  <2>4. PipelineSoftMax(op).smem <= d.max_smem
    BY <1>c
  <2>5. AllFit(One(Smem(Simple(op, PipelineSoftMax(op), NeRest(op.src[0]), nth),
                        PipelineSoftMax(op).smem)), d)
    BY <1>a, <1>5, <2>3, <2>4, RowsFit
  <2>. QED BY <2>5 DEF OpSoftMax, n, nth
<1>6. ASSUME op.op = "L2_NORM" PROVE AllFit(OpL2Norm(op, d), d)
  <2>1. ThreadsFit(AtMost(Doubled(32, AtMost(op.src[0].ne[0], d.max)), d.max),
                   PipelineL2Norm(op), d)
    BY <1>a, <1>b, <1>6
  <2>2. PipelineL2Norm(op).smem <= d.max_smem
    BY <1>c
  <2>. QED BY <1>a, <1>6, <2>1, <2>2, RowsFit DEF OpL2Norm
<1>7. ASSUME op.op = "GROUP_NORM" PROVE AllFit(OpGroupNorm(op, d), d)
  <2>1. op.par.groups \in Nat \ {0}
    BY <1>7 DEF WellShaped
  <2>2. ThreadsFit(32, PipelineGroupNorm(op), d)
    BY <1>0 DEF ThreadsFit
  <2>3. PipelineGroupNorm(op).smem <= d.max_smem
    BY <1>c
  <2>4. AllFit(One(Smem(Simple(op, PipelineGroupNorm(op), <<op.par.groups, 1, 1>>, 32),
                        PipelineGroupNorm(op).smem)), d)
    BY <1>0, <2>1, <2>2, <2>3, OneFits, SMTT(30)
  <2>. QED BY <2>4 DEF OpGroupNorm
<1>8. ASSUME op.op = "ARGMAX" PROVE AllFit(OpArgmax(op, d), d)
  <2>. DEFINE nth == Doubled(32, AtMost(op.src[0].ne[0], CeilDiv(256, Rows(op.src[0]))))
  <2>1. nth \in Nat \ {0}
    <3>1. op.src[0].ne[0] \in Nat \ {0} /\ Rows(op.src[0]) \in Nat \ {0}
      BY <1>a, <1>8
    <3>. QED BY <1>4, <3>1
  <2>. HIDE DEF nth
  <2>2. ThreadsFit(nth, PipelineArgmax(op), d)
    BY <2>1, FixedKernels DEF ThreadsFit
  <2>3. PipelineArgmax(op).smem <= d.max_smem
    BY <1>c
  <2>4. AllFit(One(Smem(Simple(op, PipelineArgmax(op), <<Rows(op.src[0]), 1, 1>>, nth),
                        PipelineArgmax(op).smem)), d)
    BY <1>a, <1>8, <2>2, <2>3, RowsFit
  <2>. QED BY <2>4 DEF OpArgmax, nth
<1>9. ASSUME op.op = "SSM_SCAN" PROVE AllFit(OpSsmScan(op, d), d)
  <2>1. /\ op.src[0].ne[0] \in Nat \ {0} /\ op.src[0].ne[1] \in Nat \ {0}
        /\ op.src[0].ne[2] \in Nat \ {0} /\ op.src[1].ne[3] \in Nat \ {0}
    <3>1. 1 \in 0..(Arity(op.op) - 1)
      BY <1>9 DEF Arity
    <3>. QED BY <1>a, <1>9, <3>1, LimitsOf
  <2>2. op.src[0].ne[0] <= d.max
    BY <1>9 DEF WellShaped, Asserted
  <2>3. PipelineSsmScan(op).smem <= d.max_smem
    <3>. DEFINE n == op.src[0].ne[0]
                c == CeilDiv(n, 32)
    <3>0. n \in Nat \ {0}
      BY <2>1
    <3>2. n \in Nat /\ n <= 4096
      BY <1>0, <2>1, <2>2
    <3>. HIDE DEF n
    <3>1. c \in Nat /\ 32 * c <= n + 31
      BY <3>0, CeilDivIsLess
    <3>. HIDE DEF c
    <3>3. 34 * 4 * c <= 32768
      BY <3>1, <3>2
    <3>4. 34 * 4 * c \in Nat
      BY <3>1
    <3>5. PipelineSsmScan(op).smem = 34 * 4 * c
      BY DEF PipelineSsmScan, Request, c, n
    <3>. QED BY <1>0, <3>3, <3>4, <3>5
  <2>4. ThreadsFit(op.src[0].ne[0], PipelineSsmScan(op), d)
    BY <2>1, <2>2 DEF ThreadsFit
  <2>5. AllFit(One(Smem(Simple(op, PipelineSsmScan(op),
                               <<op.src[0].ne[1], op.src[0].ne[2], op.src[1].ne[3]>>,
                               op.src[0].ne[0]), PipelineSsmScan(op).smem)), d)
    <3>1. d.max_smem \in Nat
      BY <1>0
    <3>. QED BY <2>1, <2>3, <2>4, <3>1, OneFits
  <2>. QED BY <2>5 DEF OpSsmScan
<1>10. ASSUME op.op = "COUNT_EQUAL" PROVE AllFit(OpCountEqual(op, d), d)
  <2>. DEFINE req == PipelineCountEqual(op)
              m == AtMost(CeilDiv(op.src[0].ne[0], 32), 32)
              a == Run(PipelineMemset(op), <<"ZERO">>, <<>>, <<op.at>>, <<1, 1, 1>>, 1)
              b == Smem(Run(req, <<op.op>>, Sources(op) \o <<op.at>>, <<op.at>>,
                            NeRest(op.src[0]), 32 * req.nsg), req.smem)
  <2>1. req.nsg = Doubled(1, m)
    BY DEF PipelineCountEqual, Request
  <2>2. m \in Nat /\ m <= 32
    <3>0. op.src[0].ne[0] \in Nat \ {0}
      BY <1>a, <1>10
    <3>1. \A n \in Nat \ {0} : CeilDiv(n, 32) \in Nat
      BY CeilDivIsLess
    <3>2. CeilDiv(op.src[0].ne[0], 32) \in Nat
      BY <3>0, <3>1
    <3>. QED BY <3>2 DEF AtMost
  <2>. HIDE DEF m
  <2>3. req.nsg \in Nat \ {0}
    BY <2>1, <2>2, DoubledThreads
  <2>4. ThreadsFit(32 * req.nsg, req, d)
    BY <2>3, FixedKernels DEF ThreadsFit
  <2>5. req.smem <= d.max_smem
    BY <1>c
  <2>6. Fits(a, d)
    <3>1. ThreadsFit(1, PipelineMemset(op), d)
      BY <1>0 DEF ThreadsFit
    <3>. QED BY <1>0, <3>1, RunFits
  <2>7. Fits(b, d)
    <3>. DEFINE r == Run(req, <<op.op>>, Sources(op) \o <<op.at>>, <<op.at>>,
                         NeRest(op.src[0]), 32 * req.nsg)
    <3>1. Fits(r, d)
      <4>1. op.src[0].ne[1] \in Nat \ {0} /\ op.src[0].ne[2] \in Nat \ {0} /\ op.src[0].ne[3] \in Nat \ {0}
        BY <1>a, <1>10
      <4>2. d.max_smem \in Nat
        BY <1>0
      <4>. HIDE DEF req
      <4>3. Fits(Run(req, <<op.op>>, Sources(op) \o <<op.at>>, <<op.at>>,
                     <<op.src[0].ne[1], op.src[0].ne[2], op.src[0].ne[3]>>,
                     32 * req.nsg), d)
        BY <2>4, <4>1, <4>2, RunFits
      <4>. QED BY <4>3 DEF NeRest
    <3>. HIDE DEF r
    <3>2. Fits(Smem(r, req.smem), d)
      BY <2>5, <3>1, SettersStayFit
    <3>. QED BY <3>2 DEF r
  <2>. HIDE DEF a, b
  <2>8. AllFit(<<<<a>>, <<b>>>>, d)
    BY <2>6, <2>7, StagesFit
  <2>. QED BY <2>8 DEF OpCountEqual, a, b
<1>. QED BY <1>1, <1>2, <1>5, <1>6, <1>7, <1>8, <1>9, <1>10

\* Work shared out to groups of as many threads as the device runs, or fewer.
LEMMA SharedThreads ==
  ASSUME NEW d, d.max \in Nat \ {0}, NEW n \in Nat \ {0}
  PROVE  /\ \A req : ThreadsFit(AtMost(n, d.max), req, d)
         /\ \A req : ThreadsFit(AtMost(d.max, n), req, d)
         /\ AtMost(n, d.max) \in Nat \ {0} /\ AtMost(d.max, n) \in Nat \ {0}
         /\ CeilDiv(n, AtMost(n, d.max)) \in Nat \ {0}
         /\ CeilDiv(n, AtMost(d.max, n)) \in Nat \ {0}
<1>1. /\ AtMost(n, d.max) \in Nat \ {0} /\ AtMost(n, d.max) <= d.max
      /\ AtMost(d.max, n) \in Nat \ {0} /\ AtMost(d.max, n) <= d.max
  BY DEF AtMost
<1>2. \A per \in Nat \ {0} : CeilDiv(n, per) \in Nat \ {0}
  BY CeilDivIsLess
<1>. QED BY <1>1, <1>2 DEF ThreadsFit

\* A copy of a source onto the result.
LEMMA CopiesLaunch ==
  ASSUME NEW op, NEW d, WellShaped(op, d), WithinLimits(op, d),
         NEW i \in 0..(Arity(op.op) - 1),
         CopyChunks(op.src[i], op.type, op.blck) \in Nat \ {0}
  PROVE  \A does, in : Fits(CopyOf(op, i, d, does, in), d)
<1>. DEFINE t == op.src[i]
            nk0 == CopyChunks(t, op.type, op.blck)
            nth == AtMost(nk0, d.max)
            nw0 == CeilDiv(nk0, nth)
            req == PipelineCpy(t.type, op.type)
<1>1. /\ d.max_smem \in Nat /\ d.max \in Nat \ {0}
      /\ t.ne[1] \in Nat \ {0} /\ t.ne[2] \in Nat \ {0} /\ t.ne[3] \in Nat \ {0}
  BY LimitsOf
<1>2. nk0 \in Nat \ {0}
  OBVIOUS
<1>. HIDE DEF t, nk0, req
<1>3. ThreadsFit(nth, req, d) /\ nw0 \in Nat \ {0}
  BY <1>1, <1>2, SharedThreads
<1>. HIDE DEF nth, nw0
<1>4. nw0 * t.ne[1] \in Nat \ {0}
  BY <1>1, <1>3, PositiveProduct
<1>5. ASSUME NEW does, NEW in
      PROVE  Fits(Cover(Run(req, does, in, <<op.at>>, <<nw0 * t.ne[1], t.ne[2], t.ne[3]>>, nth),
                        nw0, nth, nk0), d)
  <2>1. Fits(Run(req, does, in, <<op.at>>, <<nw0 * t.ne[1], t.ne[2], t.ne[3]>>, nth), d)
    BY <1>1, <1>3, <1>4, RunFits
  <2>. QED BY <2>1, SettersStayFit
<1>. QED BY <1>5 DEF CopyOf, nw0, nth, nk0, req, t

\* A power of two threads for half of a row, 256 at most.
LEMMA HalvesOfRows ==
  ASSUME NEW d, d.max \in Nat \ {0}, d.max >= 256, NEW n \in Nat \ {0}
  PROVE  \A req : ThreadsFit(Doubled(1, AtMost(CeilDiv(n, 2), AtMost(256, d.max))), req, d)
<1>. DEFINE m == AtMost(CeilDiv(n, 2), AtMost(256, d.max))
<1>1. m \in Nat /\ m <= 256
  <2>1. \A x \in Nat \ {0} : CeilDiv(x, 2) \in Nat
    BY DEF CeilDiv
  <2>2. CeilDiv(n, 2) \in Nat
    BY <2>1
  <2>. QED BY <2>2 DEF AtMost
<1>. HIDE DEF m
<1>2. Doubled(1, m) \in Nat \ {0} /\ Doubled(1, m) <= 256
  BY <1>1, DoubledThreads
<1>3. \A req : ThreadsFit(Doubled(1, m), req, d)
  BY <1>2 DEF ThreadsFit
<1>. QED BY <1>3 DEF m

\* Copies, and what is copied ahead of ACC and SET.
LEMMA CopiesFitLimits ==
  ASSUME NEW op, NEW d, WellShaped(op, d), WithinLimits(op, d)
  PROVE  /\ op.op \in {"DUP", "CPY", "CONT"} => AllFit(OpCpy(op, d), d)
         /\ op.op = "SET" => AllFit(OpSet(op, d), d)
         /\ op.op = "ACC" => AllFit(OpAcc(op, d), d)
<1>1. ASSUME op.op \in {"DUP", "CPY", "CONT"} PROVE AllFit(OpCpy(op, d), d)
  <2>1. 0 \in 0..(Arity(op.op) - 1) /\ CopyChunks(op.src[0], op.type, op.blck) \in Nat \ {0}
    BY <1>1 DEF Arity, WellShaped
  <2>2. Fits(CopyOf(op, 0, d, <<"copy">>, <<At(op, 0)>>), d)
    BY <2>1, CopiesLaunch
  <2>. QED BY <2>2, StagesFit DEF OpCpy
<1>2. ASSUME op.op \in {"SET", "ACC"}
      PROVE  /\ Fits(CopySrc0(op, d.max), d)
             /\ \A k \in 0..3 : op.src[1].ne[k] \in Nat \ {0}
  <2>1. 0 \in 0..(Arity(op.op) - 1) /\ 1 \in 0..(Arity(op.op) - 1)
    BY <1>2 DEF Arity
  <2>2. /\ \A k \in 0..3 : op.src[0].ne[k] \in Nat \ {0}
        /\ \A k \in 0..3 : op.src[1].ne[k] \in Nat \ {0}
        /\ d.max \in Nat \ {0} /\ d.max_smem \in Nat
    BY <2>1, LimitsOf
  <2>. DEFINE n == op.src[0].ne[0]
              nth == AtMost(d.max, n)
              req == PipelineCpy(Type(op, 0), op.type)
              x == Run(req, <<"copy">>, <<At(op, 0)>>, <<op.at>>, NeRest(op.src[0]), nth)
  <2>3. ThreadsFit(nth, req, d)
    <3>1. n \in Nat \ {0}
      BY <2>2
    <3>. HIDE DEF n, req
    <3>. QED BY <2>2, <3>1, SharedThreads
  <2>4. Fits(x, d)
    <3>. HIDE DEF nth, req
    <3>1. op.src[0].ne[1] \in Nat \ {0} /\ op.src[0].ne[2] \in Nat \ {0} /\ op.src[0].ne[3] \in Nat \ {0}
      BY <2>2
    <3>2. Fits(Run(req, <<"copy">>, <<At(op, 0)>>, <<op.at>>,
                   <<op.src[0].ne[1], op.src[0].ne[2], op.src[0].ne[3]>>, nth), d)
      BY <2>2, <2>3, <3>1, RunFits
    <3>. QED BY <3>2 DEF NeRest
  <2>. HIDE DEF x
  <2>5. Fits(Cover(x, 1, nth, n), d)
    BY <2>4, SettersStayFit
  <2>. QED BY <2>2, <2>5 DEF CopySrc0, x
<1>3. ASSUME op.op = "SET" PROVE AllFit(OpSet(op, d), d)
  <2>1. 1 \in 0..(Arity(op.op) - 1) /\ CopyChunks(op.src[1], op.type, op.blck) \in Nat \ {0}
    BY <1>3 DEF Arity, WellShaped
  <2>2. \A does, in : Fits(CopyOf(op, 1, d, does, in), d)
    BY <2>1, CopiesLaunch
  <2>. QED BY <1>2, <1>3, <2>2, StagesFit DEF OpSet
<1>4. ASSUME op.op = "ACC" PROVE AllFit(OpAcc(op, d), d)
  <2>. DEFINE nth == Doubled(1, AtMost(CeilDiv(op.src[1].ne[0], 2), AtMost(256, d.max)))
              req == PipelineBinOne("ADD")
              add == Run(req, <<"ACC">>, <<op.at, At(op, 0), At(op, 1)>>, <<op.at>>,
                         NeRest(op.src[1]), nth)
  <2>1. /\ d.max \in Nat \ {0} /\ d.max >= 256 /\ d.max_smem \in Nat
        /\ op.src[1].ne[0] \in Nat \ {0}
    BY <1>2, <1>4, LimitsOf
  <2>2. ThreadsFit(nth, req, d)
    BY <2>1, HalvesOfRows
  <2>3. Fits(add, d)
    <3>. HIDE DEF nth, req
    <3>1. op.src[1].ne[1] \in Nat \ {0} /\ op.src[1].ne[2] \in Nat \ {0} /\ op.src[1].ne[3] \in Nat \ {0}
      BY <1>2, <1>4
    <3>2. Fits(Run(req, <<"ACC">>, <<op.at, At(op, 0), At(op, 1)>>, <<op.at>>,
                   <<op.src[1].ne[1], op.src[1].ne[2], op.src[1].ne[3]>>, nth), d)
      BY <2>1, <2>2, <3>1, RunFits
    <3>. QED BY <3>2 DEF NeRest
  <2>. HIDE DEF add
  <2>4. AllFit(IF op.par.inplace THEN One(add) ELSE <<<<CopySrc0(op, d.max)>>, <<add>>>>, d)
    BY <1>2, <1>4, <2>3, StagesFit
  <2>. QED BY <2>4 DEF OpAcc, add
<1>. QED BY <1>1, <1>3, <1>4

\* Pools and the steps of the optimizers.
LEMMA SharedOperationsFit ==
  ASSUME NEW op, NEW d, WellShaped(op, d), WithinLimits(op, d)
  PROVE  /\ AllFit(OpPool1d(op, d), d) /\ AllFit(OpPool2d(op, d), d)
         /\ op.op = "OPT_STEP_ADAMW" => AllFit(OpOptStepAdamw(op, d), d)
         /\ op.op = "OPT_STEP_SGD" => AllFit(OpOptStepSgd(op, d), d)
         /\ op.op = "GET_ROWS" => AllFit(OpGetRows(op, d), d)
         /\ AllFit(OpConv2d(op, d), d)
         /\ op.op = "CONV_3D" => AllFit(OpConv3d(op, d), d)
<1>0. /\ d.max_smem \in Nat /\ d.max \in Nat \ {0} /\ d.max >= 256
      /\ Elements(op) \in Nat \ {0} /\ \A k \in 0..3 : op.ne[k] \in Nat \ {0}
  BY LimitsOf
<1>s. ASSUME NEW req, NEW n, ThreadsFit(n, req, d),
              NEW a \in Nat \ {0}, NEW b \in Nat \ {0}, NEW c \in Nat \ {0}
      PROVE  /\ \A g, p, w : AllFit(One(Cover(Simple(op, req, <<a, b, c>>, n), g, p, w)), d)
             /\ \A does, in, out, g, p, w :
                  AllFit(One(Cover(Run(req, does, in, out, <<a, b, c>>, n), g, p, w)), d)
  BY <1>s, <1>0, OneFits
<1>1. ASSUME NEW req PROVE AllFit(OpPool(op, req, d), d)
  <2>. DEFINE n == Elements(op)
              nth == AtMost(d.max, n)
              g == CeilDiv(n, nth)
  <2>1. ThreadsFit(nth, req, d) /\ g \in Nat \ {0}
    BY <1>0, SharedThreads
  <2>. HIDE DEF n, nth, g
  <2>2. AllFit(One(Cover(Simple(op, req, <<g, 1, 1>>, nth), g, nth, n)), d)
    BY <2>1, <1>s
  <2>. QED BY <2>2 DEF OpPool, n, nth, g
<1>2. AllFit(OpPool1d(op, d), d) /\ AllFit(OpPool2d(op, d), d)
  BY <1>1 DEF OpPool1d, OpPool2d
<1>3. ASSUME NEW req, NEW out, 0 < Arity(op.op), Arity(op.op) \in Nat
      PROVE  AllFit(OptStep(op, req, out, d), d)
  <2>. DEFINE np == Elements(op.src[0])
              nth == AtMost(d.max, op.ne[0])
              g == CeilDiv(np, nth)
  <2>1. np \in Nat \ {0} /\ op.ne[0] \in Nat \ {0}
    BY <1>0, <1>3, LimitsOf
  <2>2. ThreadsFit(nth, req, d) /\ nth \in Nat \ {0}
    BY <1>0, <2>1, SharedThreads
  <2>. HIDE DEF np, nth
  <2>3. g \in Nat \ {0}
    BY <2>1, <2>2, CeilDivIsLess
  <2>. HIDE DEF g
  <2>4. AllFit(One(Cover(Run(req, <<op.op>>, Sources(op), out, <<g, 1, 1>>, nth), g, nth, np)), d)
    BY <2>2, <2>3, <1>s
  <2>. QED BY <2>4 DEF OptStep, np, nth, g
<1>4. /\ op.op = "OPT_STEP_ADAMW" => AllFit(OpOptStepAdamw(op, d), d)
      /\ op.op = "OPT_STEP_SGD" => AllFit(OpOptStepSgd(op, d), d)
  <2>1. op.op \in {"OPT_STEP_ADAMW", "OPT_STEP_SGD"} => Arity(op.op) = 1
    BY DEF Arity
  <2>. QED BY <2>1, <1>3 DEF OpOptStepAdamw, OpOptStepSgd
<1>5. ASSUME op.op = "GET_ROWS" PROVE AllFit(OpGetRows(op, d), d)
  <2>. DEFINE ne00t == IF Type(op, 0) \in QuantTypes
                       THEN op.src[0].ne[0] \div 16 ELSE op.src[0].ne[0]
              nth == AtMost(ne00t, d.max)
              nw0 == CeilDiv(ne00t, nth)
              req == PipelineGetRows(Type(op, 0))
  <2>1. 0 \in 0..(Arity(op.op) - 1) /\ 1 \in 0..(Arity(op.op) - 1)
    BY <1>5 DEF Arity
  <2>2. /\ op.src[0].ne[0] \in Nat \ {0}
        /\ \A k \in 0..3 : op.src[1].ne[k] \in Nat \ {0}
    BY <2>1, LimitsOf
  <2>3. ne00t \in Nat \ {0}
    <3>1. Type(op, 0) \in QuantTypes => op.src[0].ne[0] >= 16
      BY <2>1, ShapeOf DEF Sized, Type
    <3>2. ASSUME NEW n \in Nat, n >= 16 PROVE n \div 16 \in Nat \ {0}
      BY <3>2
    <3>. QED BY <2>2, <3>1, <3>2
  <2>. HIDE DEF ne00t, req
  <2>4. ThreadsFit(nth, req, d) /\ nw0 \in Nat \ {0}
    BY <1>0, <2>3, SharedThreads
  <2>. HIDE DEF nth, nw0
  <2>5. nw0 * op.src[1].ne[0] \in Nat \ {0}
    BY <2>2, <2>4, PositiveProduct
  <2>6. AllFit(One(Cover(Simple(op, req, <<nw0 * op.src[1].ne[0], op.src[1].ne[1],
                                           op.src[1].ne[2]>>, nth), nw0, nth, ne00t)), d)
    BY <2>2, <2>4, <2>5, <1>s
  <2>. QED BY <2>6 DEF OpGetRows, nw0, nth, ne00t, req
<1>6. AllFit(OpConv2d(op, d), d)
  <2>. DEFINE nth == Most(1, AtMost(d.max, 256))
              tg == Most(1, CeilDiv(Elements(op), nth))
              req == PipelineConv2d(op)
  <2>1. nth \in Nat \ {0} /\ ThreadsFit(nth, req, d)
    BY <1>0 DEF Most, AtMost, ThreadsFit
  <2>. HIDE DEF nth, req
  <2>2. tg \in Nat \ {0}
    <3>1. CeilDiv(Elements(op), nth) \in Nat \ {0}
      BY <1>0, <2>1, CeilDivIsLess
    <3>. QED BY <3>1 DEF Most
  <2>. HIDE DEF tg
  <2>3. AllFit(One(Cover(Simple(op, req, <<tg, 1, 1>>, nth), tg, nth, Elements(op))), d)
    BY <2>1, <2>2, <1>s
  <2>. QED BY <2>3 DEF OpConv2d, tg, nth, req
<1>7. ASSUME op.op = "CONV_3D" PROVE AllFit(OpConv3d(op, d), d)
  <2>. DEFINE v == op.ne[0] * op.ne[1] * op.ne[2]
              g == CeilDiv(v, 32)
              req == PipelineConv3d(op)
  <2>1. v \in Nat \ {0}
    BY <1>0, PositiveProduct
  <2>2. op.par.OC \in Nat \ {0} /\ op.par.N \in Nat \ {0}
    BY <1>7 DEF WellShaped
  <2>3. ThreadsFit(32, req, d)
    BY <1>0 DEF ThreadsFit
  <2>. HIDE DEF v, req
  <2>4. \A n \in Nat \ {0} : CeilDiv(n, 32) \in Nat \ {0}
    BY CeilDivIsLess
  <2>5. g \in Nat \ {0}
    BY <2>1, <2>4
  <2>. HIDE DEF g
  <2>6. AllFit(One(Cover(Simple(op, req, <<g, op.par.OC, op.par.N>>, 32), g, 32, v)), d)
    BY <2>2, <2>3, <2>5, <1>s
  <2>. QED BY <2>6 DEF OpConv3d, g, v, req
<1>. QED BY <1>2, <1>4, <1>5, <1>6, <1>7

\* Operations over state and convolutions, whose groups are given by their shapes.
LEMMA ShapedOperationsFit ==
  ASSUME NEW op, NEW d, WellShaped(op, d), WithinLimits(op, d)
  PROVE  /\ op.op = "SSM_CONV" => AllFit(OpSsmConv(op, d), d)
         /\ op.op \in {"RWKV_WKV6", "RWKV_WKV7"} => AllFit(OpRwkv(op, d), d)
         /\ op.op = "GATED_DELTA_NET" => AllFit(OpGatedDeltaNet(op, d), d)
         /\ op.op = "SOLVE_TRI" => AllFit(OpSolveTri(op, d), d)
         /\ op.op = "IM2COL" => AllFit(OpIm2col(op, d), d)
         /\ op.op = "CONV_TRANSPOSE_2D" => AllFit(OpConvTranspose2d(op, d), d)
<1>0. /\ d.max_smem \in Nat /\ d.max_smem >= 32768
      /\ d.max \in Nat \ {0} /\ d.max >= 256 /\ d.max <= 4096
      /\ \A k \in 0..3 : op.ne[k] \in Nat \ {0}
  BY LimitsOf
<1>s. ASSUME NEW req, NEW n, ThreadsFit(n, req, d),
              NEW a \in Nat \ {0}, NEW b \in Nat \ {0}, NEW c \in Nat \ {0}
      PROVE  /\ AllFit(One(Simple(op, req, <<a, b, c>>, n)), d)
             /\ \A g, p, w : AllFit(One(Cover(Simple(op, req, <<a, b, c>>, n), g, p, w)), d)
             /\ \A m : m <= d.max_smem
                  => AllFit(One(Smem(Simple(op, req, <<a, b, c>>, n), m)), d)
             /\ \A does, in, out : AllFit(One(Run(req, does, in, out, <<a, b, c>>, n)), d)
  <2>1. /\ Fits(Simple(op, req, <<a, b, c>>, n), d)
        /\ \A does, in, out : Fits(Run(req, does, in, out, <<a, b, c>>, n), d)
    BY <1>s, <1>0, RunFits
  <2>2. \A x : Fits(x, d) => /\ AllFit(One(x), d)
                             /\ \A m : m <= d.max_smem => Fits(Smem(x, m), d)
                             /\ \A g, p, w : Fits(Cover(x, g, p, w), d)
    BY StagesFit, SettersStayFit
  <2>. QED BY <2>1, <2>2
<1>1. ASSUME op.op = "SSM_CONV" PROVE AllFit(OpSsmConv(op, d), d)
  <2>. DEFINE ne1 == op.ne[1]
              bs == BatchSize(ne1)
              g == CeilDiv(ne1, bs)
              r0 == PipelineSsmConvBatched(op, bs)
              r1 == PipelineSsmConv(op)
  <2>1. ne1 \in Nat \ {0}
    BY <1>0
  <2>. HIDE DEF ne1
  <2>2. bs \in Nat \ {0} /\ bs <= 256
    BY <2>1 DEF BatchSize
  <2>3. ThreadsFit(bs, r0, d) /\ ThreadsFit(1, r1, d)
    <3>. HIDE DEF bs, r0, r1
    <3>. QED BY <1>0, <2>2 DEF ThreadsFit
  <2>. HIDE DEF bs, r0, r1
  <2>4. g \in Nat \ {0}
    BY <2>1, <2>2, CeilDivIsLess
  <2>. HIDE DEF g
  <2>5. op.src[0].ne[1] \in Nat \ {0} /\ op.src[0].ne[2] \in Nat \ {0}
    <3>1. 0 \in 0..(Arity(op.op) - 1)
      BY <1>1 DEF Arity
    <3>. QED BY <3>1, LimitsOf
  <2>6. /\ AllFit(One(Cover(Simple(op, r0, <<op.src[0].ne[1], g, op.src[0].ne[2]>>, bs),
                            g, bs, ne1)), d)
        /\ AllFit(One(Simple(op, r1, <<op.src[0].ne[1], ne1, op.src[0].ne[2]>>, 1)), d)
    BY <2>1, <2>3, <2>4, <2>5, <1>s
  <2>. QED BY <2>6 DEF OpSsmConv, g, bs, ne1, r0, r1
<1>2. ASSUME op.op \in {"RWKV_WKV6", "RWKV_WKV7"} PROVE AllFit(OpRwkv(op, d), d)
  <2>. DEFINE B == op.src[IF op.op = "RWKV_WKV6" THEN 5 ELSE 6].ne[1]
              H == op.src[0].ne[1]
              n == op.ne[0] \div H
              req == PipelineRwkv(op)
  <2>1. B \in Nat \ {0} /\ H \in Nat \ {0}
    <3>1. /\ 0 \in 0..(Arity(op.op) - 1)
          /\ (IF op.op = "RWKV_WKV6" THEN 5 ELSE 6) \in 0..(Arity(op.op) - 1)
      BY <1>2 DEF Arity
    <3>. QED BY <3>1, LimitsOf
  <2>2. n \in 1..d.max
    BY <1>2 DEF WithinLimits
  <2>. HIDE DEF B, H, n, req
  <2>3. ThreadsFit(n, req, d)
    BY <1>0, <2>2 DEF ThreadsFit
  <2>4. B * H \in Nat \ {0}
    BY <2>1, PositiveProduct
  <2>5. AllFit(One(Simple(op, req, <<B * H, 1, 1>>, n)), d)
    BY <2>3, <2>4, <1>s
  <2>. QED BY <2>5 DEF OpRwkv, B, H, n, req
<1>3. ASSUME op.op = "GATED_DELTA_NET" PROVE AllFit(OpGatedDeltaNet(op, d), d)
  <2>. DEFINE n == op.src[2].ne[0]
              req == PipelineGatedDeltaNet(op)
              nsg == n \div 32
              groups == n \div nsg
  <2>1. /\ n \in Nat \ {0} /\ op.src[2].ne[1] \in Nat \ {0} /\ op.src[2].ne[3] \in Nat \ {0}
    <3>1. 2 \in 0..(Arity(op.op) - 1)
      BY <1>3 DEF Arity
    <3>. QED BY <3>1, LimitsOf
  <2>2. n % 32 = 0 /\ n <= d.max
    BY <1>3 DEF WellShaped, WithinLimits
  <2>3. req.nsg = nsg
    BY DEF PipelineGatedDeltaNet, Request
  <2>. HIDE DEF n, req
  <2>4. nsg \in Nat \ {0} /\ n = 32 * nsg
    BY <2>1, <2>2
  <2>. HIDE DEF nsg
  <2>5. groups \in Nat \ {0}
    <3>1. n = nsg * groups + (n % nsg) /\ groups \in Int /\ n % nsg \in 0..(nsg - 1)
      BY <2>1, <2>4
    <3>. DEFINE r == n % nsg
    <3>. HIDE DEF groups, r
    <3>2. groups \in Int /\ r \in 0..(nsg - 1) /\ n = nsg * groups + r
      BY <3>1 DEF r
    <3>3. CASE groups <= 0
      <4>1. nsg * groups <= 0
        BY <2>4, <3>2, <3>3
      <4>2. nsg * groups \in Int
        BY <2>4, <3>2
      <4>. QED BY <2>4, <3>2, <4>1, <4>2
    <3>. QED BY <3>2, <3>3
  <2>. HIDE DEF groups
  <2>6. ThreadsFit(32 * nsg, req, d)
    BY <2>2, <2>4 DEF ThreadsFit
  <2>7. AllFit(One(Cover(Simple(op, req, <<groups, op.src[2].ne[1], op.src[2].ne[3]>>,
                                32 * nsg), groups, nsg, n)), d)
    BY <2>1, <2>5, <2>6, <1>s
  <2>. QED BY <2>3, <2>7 DEF OpGatedDeltaNet, groups, n, req
<1>4. ASSUME op.op = "SOLVE_TRI" PROVE AllFit(OpSolveTri(op, d), d)
  <2>. DEFINE n == op.src[1].ne[1]
              req == PipelineSolveTri(op)
              g == CeilDiv(op.src[1].ne[0], 8)
              m == CeilDiv(n, 32)
  <2>1. /\ n \in Nat \ {0} /\ op.src[1].ne[0] \in Nat \ {0}
        /\ op.src[0].ne[2] \in Nat \ {0} /\ op.src[0].ne[3] \in Nat \ {0}
    <3>1. 0 \in 0..(Arity(op.op) - 1) /\ 1 \in 0..(Arity(op.op) - 1)
      BY <1>4 DEF Arity
    <3>. QED BY <3>1, LimitsOf
  <2>2. n <= 1024
    BY <1>4 DEF WithinLimits
  <2>3. req.nsg = 8 /\ req.smem = 16 * CeilDiv(32 * m * 8 * 4, 16)
    BY DEF PipelineSolveTri, Request
  <2>. HIDE DEF n, req
  <2>4. m \in Nat \ {0} /\ m <= 32
    BY <2>1, <2>2 DEF CeilDiv
  <2>. HIDE DEF m
  <2>5. 16 * CeilDiv(32 * m * 8 * 4, 16) <= d.max_smem
    <3>1. 32 * m * 8 * 4 \in Nat /\ 32 * m * 8 * 4 = 1024 * m
      BY <2>4
    <3>2. ASSUME NEW x \in Nat, x <= 32 PROVE 16 * CeilDiv(1024 * x, 16) <= 32768
      BY <3>2 DEF CeilDiv
    <3>3. 16 * CeilDiv(1024 * m, 16) <= 32768 /\ CeilDiv(1024 * m, 16) \in Nat
      BY <2>4, <3>2 DEF CeilDiv
    <3>. QED BY <1>0, <3>1, <3>3
  <2>6. g \in Nat \ {0}
    <3>1. \A x \in Nat \ {0} : CeilDiv(x, 8) \in Nat \ {0}
      BY DEF CeilDiv
    <3>. QED BY <2>1, <3>1
  <2>. HIDE DEF g
  <2>7. ThreadsFit(32 * 8, req, d)
    BY <1>0 DEF ThreadsFit
  <2>. DEFINE x == Smem(Simple(op, req, <<g, op.src[0].ne[2], op.src[0].ne[3]>>, 32 * 8),
                        16 * CeilDiv(32 * m * 8 * 4, 16))
  <2>8. Fits(x, d)
    <3>1. Fits(Simple(op, req, <<g, op.src[0].ne[2], op.src[0].ne[3]>>, 32 * 8), d)
      BY <1>0, <2>1, <2>6, <2>7, RunFits, SMTT(30)
    <3>. QED BY <2>5, <3>1, SettersStayFit
  <2>. HIDE DEF x
  <2>9. AllFit(One(Cover(x, g, 8, op.src[1].ne[0])), d)
    BY <2>8, SettersStayFit, StagesFit
  <2>. QED BY <2>3, <2>9 DEF OpSolveTri, x, g, req
<1>5. ASSUME op.op = "IM2COL" PROVE AllFit(OpIm2col(op, d), d)
  <2>. DEFINE is_2D == op.par.is_2D
              KH == IF is_2D THEN op.src[0].ne[1] ELSE 1
              KW == op.src[0].ne[0]
              OH == IF is_2D THEN op.ne[2] ELSE 1
              N  == op.src[1].ne[IF is_2D THEN 3 ELSE 2]
              IC == op.src[1].ne[IF is_2D THEN 2 ELSE 1]
              K  == KH * KW
              n  == AtMost(d.max \div K, N) * KH * KW
              req == PipelineIm2col(op)
  <2>1. /\ KH \in Nat \ {0} /\ KW \in Nat \ {0} /\ OH \in Nat \ {0}
        /\ N \in Nat \ {0} /\ IC \in Nat \ {0} /\ op.ne[1] \in Nat \ {0}
    <3>1. 0 \in 0..(Arity(op.op) - 1) /\ 1 \in 0..(Arity(op.op) - 1)
      BY <1>5 DEF Arity
    <3>2. /\ \A k \in 0..3 : op.src[0].ne[k] \in Nat \ {0}
          /\ \A k \in 0..3 : op.src[1].ne[k] \in Nat \ {0}
      BY <3>1, LimitsOf
    <3>. QED BY <1>0, <3>2
  <2>2. KW * KH <= d.max
    BY <1>5 DEF WellShaped, Asserted
  <2>. HIDE DEF is_2D, KH, KW, OH, N, IC, req
  <2>3. K \in Nat \ {0} /\ K <= d.max
    <3>1. KH * KW = KW * KH
      BY <2>1
    <3>. QED BY <2>1, <2>2, <3>1, PositiveProduct
  <2>4. n = AtMost(d.max \div K, N) * K
    <3>1. AtMost(d.max \div K, N) \in Int
      <4>. HIDE DEF K
      <4>. QED BY <1>0, <2>1, <2>3 DEF AtMost
    <3>. DEFINE a == AtMost(d.max \div K, N)
    <3>. HIDE DEF a
    <3>2. a * KH * KW = a * (KH * KW)
      BY <2>1, <3>1 DEF a
    <3>. QED BY <3>2 DEF a
  <2>. HIDE DEF K, n
  <2>5. n \in Nat \ {0} /\ n <= d.max
    <3>. DEFINE q == d.max \div K
                r == d.max % K
                a == AtMost(q, N)
    <3>1. q \in Int /\ r \in 0..(K - 1) /\ d.max = K * q + r
      BY <1>0, <2>3
    <3>2. n = a * K
      BY <2>4
    <3>. HIDE DEF q, r
    <3>3. q >= 1
      <4>1. ASSUME q <= 0 PROVE FALSE
        <5>1. K * q <= 0 /\ K * q \in Int
          BY <2>3, <3>1, <4>1
        <5>. QED BY <2>3, <3>1, <5>1
      <4>. QED BY <3>1, <4>1
    <3>4. a \in Nat \ {0} /\ a <= q
      BY <2>1, <3>1, <3>3 DEF AtMost
    <3>. HIDE DEF a
    <3>5. a * K \in Nat \ {0}
      BY <2>3, <3>4, PositiveProduct
    <3>6. (q - a) * K >= 0 /\ (q - a) * K = q * K - a * K /\ q * K = K * q
      BY <2>3, <3>1, <3>4
    <3>. QED BY <1>0, <2>3, <3>1, <3>2, <3>5, <3>6
  <2>6. ThreadsFit(n, req, d)
    BY <2>5 DEF ThreadsFit
  <2>7. \A does, in, out : AllFit(One(Run(req, does, in, out, <<IC, OH, op.ne[1]>>, n)), d)
    BY <2>1, <2>6, <1>s
  <2>. QED BY <2>7 DEF OpIm2col, is_2D, KH, KW, OH, N, IC, K, n, req
<1>6. ASSUME op.op = "CONV_TRANSPOSE_2D" PROVE AllFit(OpConvTranspose2d(op, d), d)
  <2>. DEFINE K == op.src[0].ne[0] * op.src[0].ne[1]
              req == PipelineConvTranspose2d(op)
  <2>1. K \in Nat \ {0}
    <3>1. 0 \in 0..(Arity(op.op) - 1)
      BY <1>6 DEF Arity
    <3>. QED BY <3>1, LimitsOf, PositiveProduct
  <2>2. K <= d.max
    BY <1>6 DEF WithinLimits
  <2>. HIDE DEF K, req
  <2>3. ThreadsFit(K, req, d)
    BY <2>1, <2>2 DEF ThreadsFit
  <2>4. Padded(4 * K, 16) <= d.max_smem
    <3>1. ASSUME NEW x \in Nat, x <= 4096 PROVE Padded(4 * x, 16) <= 32768 /\ Padded(4 * x, 16) \in Nat
      BY <3>1 DEF Padded, CeilDiv
    <3>2. K \in Nat /\ K <= 4096
      BY <1>0, <2>1, <2>2
    <3>3. Padded(4 * K, 16) <= 32768 /\ Padded(4 * K, 16) \in Nat
      BY <3>1, <3>2
    <3>. QED BY <1>0, <3>3
  <2>5. AllFit(One(Smem(Simple(op, req, <<op.ne[0], op.ne[1], op.ne[2]>>, K),
                        Padded(4 * K, 16))), d)
    <3>1. op.ne[0] \in Nat \ {0} /\ op.ne[1] \in Nat \ {0} /\ op.ne[2] \in Nat \ {0}
      BY <1>0
    <3>. QED BY <2>3, <2>4, <3>1, <1>s
  <2>. QED BY <2>5 DEF OpConvTranspose2d, K, req
<1>. QED BY <1>1, <1>2, <1>3, <1>4, <1>5, <1>6

\* A launch of one kernel, with what is said of it.
LEMMA LaunchesOf ==
  ASSUME NEW d, d.max_smem \in Nat, NEW req, NEW n, ThreadsFit(n, req, d),
         NEW a \in Nat \ {0}, NEW b \in Nat \ {0}, NEW c \in Nat \ {0}, NEW m, m <= d.max_smem
  PROVE  /\ \A op : Fits(Smem(Simple(op, req, <<a, b, c>>, n), m), d)
         /\ \A does, in, out : Fits(Smem(Run(req, does, in, out, <<a, b, c>>, n), m), d)
         /\ \A does, in, out, g, p, w :
              /\ Fits(Cover(Run(req, does, in, out, <<a, b, c>>, n), g, p, w), d)
              /\ Fits(Smem(Cover(Run(req, does, in, out, <<a, b, c>>, n), g, p, w), m), d)
<1>1. \A x : Fits(x, d) => /\ Fits(Smem(x, m), d)
                           /\ \A g, p, w : Fits(Cover(x, g, p, w), d)
  BY SettersStayFit
<1>. QED BY <1>1, RunFits

\* Prefix sums.
LEMMA CumsumFits ==
  ASSUME NEW op, NEW d, WellShaped(op, d), WithinLimits(op, d), op.op = "CUMSUM"
  PROVE  AllFit(OpCumsum(op, d), d)
<1>. DEFINE t == op.src[0]
            ne00 == op.src[0].ne[0]
            nth == CumsumThreads(ne00, d.max)
            net0 == CeilDiv(ne00, nth)
            tmp == op.scratch[1]
            wide == <<net0 * t.ne[1], t.ne[2], t.ne[3]>>
            blk  == Smem(Cover(Run(PipelineCumsumBlk(op), <<"CUMSUM">>, <<At(op, 0)>>,
                             <<op.at, tmp>>, wide, nth), net0, nth, ne00), 128)
            sums == Smem(Cover(Run(PipelineCumsumBlk(op), <<"CUMSUM">>, <<tmp>>, <<tmp>>,
                             NeRest(t), nth), 1, nth, net0), 128)
            add  == Cover(Run(PipelineCumsumAdd(op), <<"CUMSUM_ADD">>, <<op.at, tmp>>,
                        <<op.at>>, wide, nth), net0, nth, ne00)
<1>1. /\ ne00 \in Nat \ {0} /\ t.ne[1] \in Nat \ {0} /\ t.ne[2] \in Nat \ {0}
      /\ t.ne[3] \in Nat \ {0} /\ d.max \in Nat \ {0} /\ d.max <= 4096
      /\ d.max_smem \in Nat /\ d.max_smem >= 32768
  <2>1. 0 \in 0..(Arity(op.op) - 1)
    BY DEF Arity
  <2>. QED BY <2>1, LimitsOf
<1>. HIDE DEF t, ne00, tmp
<1>2. nth \in Nat \ {0} /\ nth <= d.max
  <2>1. ne00 \in Nat /\ d.max \in Nat \ {0} /\ d.max <= 4096
    BY <1>1
  <2>. QED BY <2>1, CumsumThreadsIsNumber
<1>. HIDE DEF nth
<1>3. net0 \in Nat \ {0}
  <2>1. ne00 \in Nat \ {0} /\ nth \in Nat \ {0}
    BY <1>1, <1>2
  <2>. QED BY <2>1, CeilDivIsLess
<1>. HIDE DEF net0
<1>4. net0 * t.ne[1] \in Nat \ {0}
  BY <1>1, <1>3, PositiveProduct
<1>5. 128 <= d.max_smem /\ \A req : ThreadsFit(nth, req, d)
  BY <1>1, <1>2 DEF ThreadsFit
<1>6. \A req, does, in, out, g, p, w :
        /\ Fits(Cover(Run(req, does, in, out, wide, nth), g, p, w), d)
        /\ Fits(Smem(Cover(Run(req, does, in, out, wide, nth), g, p, w), 128), d)
  <2>. DEFINE n0 == net0 * t.ne[1]
  <2>1. n0 \in Nat \ {0}
    BY <1>4
  <2>. HIDE DEF n0
  <2>2. \A req, does, in, out, g, p, w :
          /\ Fits(Cover(Run(req, does, in, out, <<n0, t.ne[2], t.ne[3]>>, nth), g, p, w), d)
          /\ Fits(Smem(Cover(Run(req, does, in, out, <<n0, t.ne[2], t.ne[3]>>, nth),
                              g, p, w), 128), d)
    BY <1>1, <2>1, <1>5, LaunchesOf
  <2>. QED BY <2>2 DEF n0
<1>7. \A req, does, in, out, g, p, w :
        Fits(Smem(Cover(Run(req, does, in, out, <<t.ne[1], t.ne[2], t.ne[3]>>, nth),
                        g, p, w), 128), d)
  BY <1>1, <1>5, LaunchesOf, SMTT(30)
<1>8. Fits(blk, d) /\ Fits(add, d)
  <2>. HIDE DEF wide
  <2>. QED BY <1>6
<1>9. Fits(sums, d)
  BY <1>7 DEF NeRest
<1>. HIDE DEF blk, sums, add
<1>10. AllFit(IF ne00 > nth THEN <<<<blk>>, <<sums>>, <<add>>>> ELSE One(blk), d)
  BY <1>8, <1>9, StagesFit
<1>. QED BY <1>10 DEF OpCumsum, blk, sums, add, wide, net0, nth, ne00, tmp, t

\* Rows that are set.
LEMMA SetRowsFit ==
  ASSUME NEW op, NEW d, WellShaped(op, d), WithinLimits(op, d), op.op = "SET_ROWS"
  PROVE  AllFit(OpSetRows(op, d), d)
<1>. DEFINE nk0   == op.ne[0] \div op.blck
            nth0  == Doubled(32, AtMost(nk0, d.max))
            fit   == CeilDiv(nth0, nk0)
            nrptg == IF nth0 <= nk0 THEN 1
                     ELSE IF fit * nk0 > d.max THEN fit - 1 ELSE fit
            t == op.src[0]
            groups == CeilDiv(op.src[0].ne[1], nrptg)
            req == PipelineSetRows(Type(op, 1), op.type)
            n == AtMost(nth0, nk0) * nrptg
<1>1. nk0 \in Nat \ {0} /\ nth0 \in Nat \ {0} /\ nrptg \in Nat \ {0}
  BY SetRowsNumbers
<1>2. /\ t.ne[1] \in Nat \ {0} /\ t.ne[2] \in Nat \ {0} /\ t.ne[3] \in Nat \ {0}
      /\ d.max_smem \in Nat
  <2>1. 0 \in 0..(Arity(op.op) - 1)
    BY DEF Arity
  <2>. QED BY <2>1, LimitsOf
<1>3. req.base.kernel \in FixedThreads
  BY FixedKernels
<1>. HIDE DEF nk0, nth0, nrptg, req
<1>4. groups \in Nat \ {0}
  BY <1>1, <1>2, CeilDivIsLess
<1>5. n \in Nat \ {0}
  <2>1. AtMost(nth0, nk0) \in Nat \ {0}
    BY <1>1 DEF AtMost
  <2>. QED BY <1>1, <2>1, PositiveProduct
<1>6. ThreadsFit(n, req, d)
  BY <1>3, <1>5 DEF ThreadsFit
<1>. HIDE DEF groups, n
<1>7. \A g, p, w : AllFit(One(Cover(Simple(op, req, <<groups, t.ne[2], t.ne[3]>>, n), g, p, w)), d)
  BY <1>2, <1>4, <1>6, OneFits
<1>8. AllFit(One(Cover(Simple(op, req, <<groups, t.ne[2], t.ne[3]>>, n), groups, nrptg, op.src[0].ne[1])), d)
  BY <1>7
<1>. QED BY <1>8 DEF OpSetRows, groups, n, req, nrptg, nth0, nk0

\* Element-wise operations.
LEMMA UnaryFits ==
  ASSUME NEW op, NEW d, WellShaped(op, d), WithinLimits(op, d), op.op \in UnaryOps
  PROVE  AllFit(OpUnary(op, d), d)
<1>. DEFINE req == PipelineUnary(op)
            t == op.src[0]
            by == IF req.c4 THEN 4 ELSE 1
            ne00 == op.src[0].ne[0] \div by
            max == AtMost(256, d.max)
            nth == AtMost(ne00, max)
            n == Elements(op) \div by
            nk0 == CeilDiv(ne00, nth)
<1>1. /\ Sized(t) /\ op.ne = t.ne /\ d.max \in Nat \ {0} /\ d.max_smem \in Nat
      /\ d.max >= 256
  <2>1. Arity(op.op) = 1
    BY DEF Arity, UnaryOps
  <2>. QED BY <2>1, ShapeOf, LimitsOf DEF WellShaped
<1>2. /\ t.ne[0] \in Nat \ {0} /\ t.ne[1] \in Nat \ {0}
      /\ t.ne[2] \in Nat \ {0} /\ t.ne[3] \in Nat \ {0}
  BY <1>1, SizesAreNumbers
<1>3. req.c4 = ByFour(t)
  BY DEF PipelineUnary, Request
<1>. HIDE DEF req
<1>4. by \in {1, 4} /\ (by = 4 => t.ne[0] % 4 = 0)
  <2>1. by \in {1, 4} /\ (by = 4 => ByFour(t))
    <3>. HIDE DEF t
    <3>. QED BY <1>3
  <2>. HIDE DEF by, t
  <2>. QED BY <2>1 DEF ByFour
<1>5. ne00 \in Nat \ {0}
  <2>1. CASE by = 4
    BY <1>2, <1>4, <2>1, InFours
  <2>2. CASE by = 1
    BY <1>2, <2>2
  <2>. QED BY <1>4, <2>1, <2>2
<1>6. n \in Nat \ {0}
  <2>. DEFINE e == Elements(op)
              r == t.ne[1] * t.ne[2] * t.ne[3]
              a == t.ne[0]
  <2>1. e \in Nat \ {0} /\ r \in Nat \ {0}
    BY <1>1, <1>2, LimitsOf, PositiveProduct
  <2>2. e = a * r
    BY <1>1, <1>2 DEF Elements
  <2>3. a \in Nat \ {0}
    BY <1>2
  <2>. HIDE DEF e, r
  <2>4. CASE by = 4
    <3>1. a >= 4
      BY <1>4, <2>3, <2>4
    <3>. HIDE DEF a
    <3>2. a * r >= 4
      <4>1. a * r \in Int /\ 4 * r >= 4 /\ (a - 4) * r >= 0
        BY <2>1, <2>3, <3>1
      <4>2. (a - 4) * r = a * r - 4 * r
        BY <2>1, <2>3
      <4>. QED BY <2>1, <4>1, <4>2
    <3>3. e >= 4
      BY <2>2, <3>2
    <3>4. e \div 4 \in Nat \ {0}
      BY <2>1, <3>3
    <3>. QED BY <2>4, <3>4 DEF e
  <2>5. CASE by = 1
    <3>1. e \div 1 \in Nat \ {0}
      BY <2>1
    <3>. QED BY <2>5, <3>1 DEF e
  <2>. QED BY <1>4, <2>4, <2>5
<1>7. /\ nth \in Nat \ {0} /\ nth <= d.max
  <2>. HIDE DEF ne00
  <2>. QED BY <1>1, <1>5 DEF AtMost
<1>. HIDE DEF ne00, nth, n, by
<1>8. nk0 \in Nat \ {0}
  BY <1>5, <1>7, CeilDivIsLess
<1>. HIDE DEF nk0
<1>9. nk0 * t.ne[1] \in Nat \ {0}
  BY <1>2, <1>8, PositiveProduct
<1>10. ThreadsFit(1, req, d) /\ ThreadsFit(nth, req, d)
  BY <1>1, <1>7 DEF ThreadsFit
<1>11. \A g, p, w : AllFit(One(Cover(Simple(op, req, <<n, 1, 1>>, 1), g, p, w)), d)
  BY <1>1, <1>6, <1>10, OneFits
<1>12. \A g, p, w : AllFit(One(Cover(Simple(op, req, <<nk0 * t.ne[1], t.ne[2], t.ne[3]>>, nth),
                                     g, p, w)), d)
  BY <1>1, <1>2, <1>9, <1>10, OneFits
<1>13. AllFit(IF req.cnt
              THEN One(Cover(Simple(op, req, <<n, 1, 1>>, 1), n, by, Elements(op)))
              ELSE One(Cover(Simple(op, req, <<nk0 * t.ne[1], t.ne[2], t.ne[3]>>, nth),
                             nk0, nth, ne00)), d)
  BY <1>11, <1>12
<1>. QED BY <1>13 DEF OpUnary, n, by, nk0, nth, ne00, req

\* Chains of additions, and norms with what is fused to them.
LEMMA BinFits ==
  ASSUME NEW nodes, NEW i, NEW d, WellShaped(nodes[i], d), WithinLimits(nodes[i], d),
         nodes[i].op \in BinOps
  PROVE  AllFit(OpBin(nodes, i, d), d)
<1>. DEFINE op == nodes[i]
            nf == BinFuse(nodes, i, d)
            req == PipelineBin(op, nf)
            t == op.src[0]
            ne0 == IF req.c4 THEN op.ne[0] \div 4 ELSE op.ne[0]
            nth == Doubled(1, AtMost(CeilDiv(ne0, 2), AtMost(256, d.max)))
            src(k) == nodes[i + k].src[1].at
            does == [k \in 1..nf |-> nodes[i + k - 1].op]
            in == <<At(op, 0)>> \o [k \in 1..nf |-> <<src(0)[1], src(k - 1)[2]>>]
            out == <<nodes[i + nf - 1].at>>
<1>1. /\ op.ne = t.ne /\ d.max \in Nat \ {0} /\ d.max >= 256 /\ d.max_smem \in Nat
      /\ t.ne[0] \in Nat \ {0} /\ t.ne[1] \in Nat \ {0}
      /\ t.ne[2] \in Nat \ {0} /\ t.ne[3] \in Nat \ {0}
      /\ Rows(op) \in Nat \ {0}
  <2>1. 0 \in 0..(Arity(op.op) - 1)
    BY DEF Arity, BinOps
  <2>2. op.ne = t.ne
    BY DEF WellShaped
  <2>. QED BY <2>1, <2>2, LimitsOf
<1>2. req.c4 = (ByFour(t) /\ ByFour(op.src[1]))
  BY DEF PipelineBin, Request
<1>. HIDE DEF req
<1>3. ne0 \in Nat \ {0}
  <2>1. CASE req.c4
    <3>1. t.ne[0] % 4 = 0
      BY <1>2, <2>1 DEF ByFour
    <3>. QED BY <1>1, <2>1, <3>1, InFours
  <2>2. CASE ~req.c4
    BY <1>1, <2>2
  <2>. QED BY <2>1, <2>2
<1>. HIDE DEF op
<1>. HIDE DEF ne0
<1>4. ThreadsFit(nth, req, d) /\ ThreadsFit(1, req, d)
  <2>1. ThreadsFit(1, req, d)
    BY <1>1 DEF ThreadsFit
  <2>. QED BY <1>1, <1>3, <2>1, HalvesOfRows
<1>. HIDE DEF nth, t
<1>5. \A x, y, z : AllFit(One(Run(req, x, y, z, <<ne0, Rows(op), 1>>, 1)), d)
  <2>1. \A n : ThreadsFit(n, req, d) => \A c \in Nat \ {0} :
          \A x, y, z : AllFit(One(Run(req, x, y, z, <<ne0, Rows(op), c>>, n)), d)
    BY <1>1, <1>3, OneFits
  <2>. QED BY <1>4, <2>1
<1>6. \A x, y, z : AllFit(One(Run(req, x, y, z, <<t.ne[1], t.ne[2], t.ne[3]>>, nth)), d)
  BY <1>1, <1>4, OneFits
<1>7. \A x, y, z : AllFit(One(Run(req, x, y, z, NeRest(op.src[0]), nth)), d)
  BY <1>6 DEF NeRest, t
<1>. HIDE DEF does, in, out
<1>8. AllFit(One(IF req.cnt THEN Run(req, does, in, out, <<ne0, Rows(op), 1>>, 1)
                 ELSE Run(req, does, in, out, NeRest(op.src[0]), nth)), d)
  BY <1>5, <1>7
<1>. QED BY <1>8 DEF OpBin, nf, req, op, ne0, nth, does, in, out

LEMMA NormFits ==
  ASSUME NEW nodes, NEW i, NEW d, WellShaped(nodes[i], d), WithinLimits(nodes[i], d),
         nodes[i].op \in {"NORM", "RMS_NORM"}
  PROVE  AllFit(OpNorm(nodes, i, d), d)
<1>. DEFINE op == nodes[i]
            nf == NormFuse(nodes, i, d)
            req == PipelineNorm(op, nf)
            ne00 == op.src[0].ne[0]
            n == IF ne00 % 4 = 0 THEN ne00 \div 4 ELSE ne00
            nth == FromSimdWidth(n, d.max)
            does == [k \in 1..nf |-> nodes[i + k - 1].op]
            in == <<At(op, 0)>> \o [k \in 1..(nf - 1) |-> nodes[i + k].src[1].at]
            out == <<nodes[i + nf - 1].at>>
<1>1. /\ Arity(op.op) \in Nat /\ 0 < Arity(op.op) /\ d.max \in Nat \ {0} /\ d.max <= 4096
      /\ d.max_smem \in Nat /\ d.max_smem >= 32768 /\ ne00 \in Nat \ {0}
  <2>1. Arity(op.op) = 1 /\ 0 \in 0..(Arity(op.op) - 1)
    BY DEF Arity
  <2>. QED BY <2>1, LimitsOf
<1>2. req.smem \in {128, 256, 512}
  BY SmallRooms
<1>3. req.smem <= d.max_smem
  BY <1>1, <1>2
<1>. HIDE DEF req
<1>4. n \in Nat \ {0}
  BY <1>1, InFours
<1>. HIDE DEF n
<1>5. ThreadsFit(nth, req, d)
  BY <1>1, <1>4, SimdWidthThreads DEF ThreadsFit
<1>6. WellShaped(op, d) /\ WithinLimits(op, d)
  OBVIOUS
<1>. HIDE DEF nth, op, does, in, out
<1>7. \A x, y, z : AllFit(One(Smem(Run(req, x, y, z, NeRest(op.src[0]), nth), req.smem)), d)
  <2>1. Arity(op.op) \in Nat /\ 0 < Arity(op.op)
    BY <1>1
  <2>. QED BY <2>1, <1>3, <1>5, <1>6, RowsFit
<1>. QED BY <1>7 DEF OpNorm, nf, req, op, n, nth, does, in, out

\* A launch, counted in tiles or not.
LEMMA TilesStayFit ==
  ASSUME NEW d, NEW x, Fits(x, d)
  PROVE  \A op, g0, g1, n1 : /\ Fits(Tiled(x, op, d, g0, g1, n1), d)
                             /\ Fits(Unchecked(Tiled(x, op, d, g0, g1, n1)), d)
<1>1. \A op, g0, g1, n1 : Fits(Tiled(x, op, d, g0, g1, n1), d)
  BY SettersStayFit
<1>2. \A y : Fits(y, d) => Fits(Unchecked(y), d)
  BY SettersStayFit
<1>. QED BY <1>1, <1>2

\* What the kernels of a matrix times a vector ask for.
IsLight(req) ==
  /\ req.nsg \in Nat \ {0} /\ req.nsg <= 8
  /\ req.smem \in Nat /\ req.smem <= 8192

\* The kernels of a matrix times a vector have eight simdgroups at most.
LEMMA MatVecLimits ==
  ASSUME SmallKernels, NEW op, NEW kernel \in {"mul_mv", "mul_mv_id"},
         NEW short \in BOOLEAN, short => Type(op, 0) \in FloatTypes,
         Type(op, 0) \in FloatTypes \cup QuantTypes, op.src[0].ne[0] \in Nat \ {0}
  PROVE  IsLight(MatVec(kernel, op, short))
<1>. DEFINE req == MatVec(kernel, op, short)
            type == Type(op, 0)
            sg == IF short THEN 1
                  ELSE IF type \in FloatTypes
                       THEN AtMost(4, CeilDiv(op.src[0].ne[0], 128)) ELSE N_SG[type]
            r0 == IF short THEN 32 ELSE IF type \in FloatTypes THEN 2 ELSE N_R0[type]
            bytes == IF short THEN 0 ELSE IF type \in FloatTypes THEN 32 * 4 * r0
                     ELSE QuantSmem(type)
<1>1. req.nsg = sg /\ req.smem = bytes
  BY DEF MatVec, Request
<1>2. sg \in Nat \ {0} /\ sg <= 8
  <2>1. \A n \in Nat \ {0} : CeilDiv(n, 128) \in Nat \ {0}
    BY CeilDivIsLess
  <2>2. AtMost(4, CeilDiv(op.src[0].ne[0], 128)) \in 1..4
    <3>. DEFINE c == CeilDiv(op.src[0].ne[0], 128)
    <3>1. c \in Nat \ {0}
      BY <2>1
    <3>. HIDE DEF c
    <3>2. AtMost(4, c) \in 1..4
      BY <3>1 DEF AtMost
    <3>. QED BY <3>2 DEF c
  <2>3. type \in QuantTypes => N_SG[type] \in Nat \ {0} /\ N_SG[type] <= 8
    BY QuantAssumption DEF SmallKernels
  <2>. HIDE DEF type
  <2>4. CASE short
    BY <2>4
  <2>5. CASE ~short /\ type \in FloatTypes
    BY <2>2, <2>5
  <2>6. CASE ~short /\ type \notin FloatTypes
    BY <2>3, <2>6 DEF type
  <2>. QED BY <2>4, <2>5, <2>6
<1>3. QuantSmem(type) \in Nat /\ QuantSmem(type) <= 8192
  <2>1. N_R0["q8_0"] \in Nat /\ N_R0["q8_0"] <= 64
    BY QuantAssumption, TypesAreApart DEF SmallKernels
  <2>2. CASE type = "q8_0"
    <3>1. QuantSmem(type) = 32 * 4 * N_R0["q8_0"]
      BY <2>2 DEF QuantSmem
    <3>. QED BY <2>1, <3>1
  <2>3. CASE type # "q8_0"
    <3>1. QuantSmem(type) \in {32 * 4, 256 * 8 + 128, 512 * 8 + 128, 256 * 4 + 128, 512 * 4, 0}
      BY <2>3 DEF QuantSmem
    <3>. QED BY <3>1
  <2>. QED BY <2>2, <2>3
<1>4. bytes \in Nat /\ bytes <= 8192
  <2>1. ~short /\ type \in FloatTypes => r0 = 2
    OBVIOUS
  <2>. HIDE DEF type, r0
  <2>. QED BY <1>3, <2>1
<1>. HIDE DEF req, sg, bytes
<1>5. IsLight(req)
  BY <1>1, <1>2, <1>4 DEF IsLight
<1>. QED BY <1>5 DEF req

\* Simdgroups of 32 threads.
LEMMA SimdgroupsFit ==
  ASSUME NEW d, d.max \in Nat, d.max >= 256, NEW n \in Nat \ {0}, n <= 8
  PROVE  \A req : ThreadsFit(32 * n, req, d)
<1>1. 32 * n \in Nat \ {0} /\ 32 * n <= d.max
  OBVIOUS
<1>. QED BY <1>1 DEF ThreadsFit

LEMMA MulMvFits ==
  ASSUME SmallKernels, NEW op, NEW d, WellShaped(op, d), WithinLimits(op, d),
         op.op = "MUL_MAT"
  PROVE  Fits(MulMv(op, d), d)
<1>. DEFINE req == PipelineMulMv(op)
            n0 == RowsPerGroup(op, req)
            g0 == CeilDiv(op.src[0].ne[1], n0)
            g1 == CeilDiv(op.src[1].ne[1], req.nr1)
            x == Smem(Simple(op, req, <<g0, g1, Batch(op)>>, 32 * req.nsg), req.smem)
<1>1. /\ op.src[0].ne[0] \in Nat \ {0} /\ op.src[0].ne[1] \in Nat \ {0}
      /\ op.src[1].ne[1] \in Nat \ {0} /\ op.src[1].ne[2] \in Nat \ {0}
      /\ op.src[1].ne[3] \in Nat \ {0}
  <2>1. 0 \in 0..(Arity(op.op) - 1) /\ 1 \in 0..(Arity(op.op) - 1)
    BY DEF Arity
  <2>. QED BY <2>1, LimitsOf
<1>0. d.max \in Nat /\ d.max >= 256 /\ d.max_smem \in Nat /\ d.max_smem >= 32768
  BY LimitsOf
<1>2. /\ n0 \in Nat \ {0} /\ req.nr1 = 1 /\ req.nsg \in Nat \ {0} /\ req.nsg <= 8
      /\ req.smem \in Nat /\ req.smem <= 8192
  <2>. DEFINE short == Type(op, 0) \in FloatTypes /\ op.src[0].ne[0] < 32
  <2>1. short \in BOOLEAN /\ (short => Type(op, 0) \in FloatTypes)
    OBVIOUS
  <2>2. req = MatVec("mul_mv", op, short)
    BY DEF PipelineMulMv
  <2>3. Type(op, 0) \in FloatTypes \cup QuantTypes
    BY DEF WellShaped, Type
  <2>4. op.src[0].ne[0] \in Nat \ {0}
    BY <1>1
  <2>. HIDE DEF short, req
  <2>5. n0 \in Nat \ {0} /\ req.nr1 = 1
    BY <2>1, <2>2, <2>3, MatVecTile
  <2>6. req.nsg \in Nat \ {0} /\ req.nsg <= 8 /\ req.smem \in Nat /\ req.smem <= 8192
    BY <2>1, <2>2, <2>3, <2>4, MatVecLimits DEF IsLight
  <2>. QED BY <2>5, <2>6
<1>. HIDE DEF req, n0
<1>3. g0 \in Nat \ {0} /\ g1 \in Nat \ {0}
  <2>1. \A m \in Nat \ {0} : \A n \in Nat \ {0} : CeilDiv(m, n) \in Nat \ {0}
    BY CeilDivIsLess
  <2>2. op.src[0].ne[1] \in Nat \ {0} /\ op.src[1].ne[1] \in Nat \ {0}
    BY <1>1
  <2>3. n0 \in Nat \ {0} /\ req.nr1 \in Nat \ {0}
    BY <1>2
  <2>. QED BY <2>1, <2>2, <2>3
<1>4. Batch(op) \in Nat \ {0}
  BY <1>1, PositiveProduct DEF Batch
<1>5. ThreadsFit(32 * req.nsg, req, d) /\ req.smem <= d.max_smem
  BY <1>0, <1>2, SimdgroupsFit
<1>. HIDE DEF g0, g1
<1>6. Fits(x, d)
  <2>. DEFINE n == 32 * req.nsg
  <2>1. ThreadsFit(n, req, d) /\ d.max_smem \in Nat
    BY <1>0, <1>5
  <2>. HIDE DEF n
  <2>2. Fits(Smem(Simple(op, req, <<g0, g1, Batch(op)>>, n), req.smem), d)
    BY <1>3, <1>4, <1>5, <2>1, LaunchesOf
  <2>. QED BY <2>2 DEF n
<1>. HIDE DEF x
<1>7. Fits(Tiled(x, op, d, 1, 2, op.src[1].ne[1]), d)
  BY <1>6, TilesStayFit
<1>. QED BY <1>7 DEF MulMv, x, g0, g1, req, n0

LEMMA MulMvExtFits ==
  ASSUME NEW op, NEW d, WellShaped(op, d), WithinLimits(op, d), op.op = "MUL_MAT"
  PROVE  Fits(MulMvExt(op, d), d)
<1>. DEFINE ne11  == op.src[1].ne[1]
            nxpsg == IF op.src[0].ne[0] % 256 = 0 /\ ne11 < 3 THEN 16 ELSE 8
            r0ptg == (32 \div nxpsg) * 2
            r1ptg == CASE ne11 = 2 -> 2 [] ne11 \in {3, 6} -> 3 [] ne11 = 5 -> 5
                       [] OTHER -> 4
            g0 == CeilDiv(op.src[0].ne[1], r0ptg)
            g1 == CeilDiv(ne11, r1ptg)
            req   == PipelineMulMvExt(Type(op, 0), Type(op, 1), 2, nxpsg, r1ptg)
            x == Simple(op, req, <<g0, g1, Batch(op)>>, 32 * 2)
<1>1. /\ op.src[0].ne[1] \in Nat \ {0} /\ ne11 \in Nat \ {0}
      /\ op.src[1].ne[2] \in Nat \ {0} /\ op.src[1].ne[3] \in Nat \ {0}
      /\ d.max \in Nat /\ d.max >= 256 /\ d.max_smem \in Nat
  <2>1. 0 \in 0..(Arity(op.op) - 1) /\ 1 \in 0..(Arity(op.op) - 1)
    BY DEF Arity
  <2>. QED BY <2>1, LimitsOf
<1>2. r1ptg \in Nat \ {0}
  BY <1>1
<1>3. r0ptg \in Nat \ {0}
  OBVIOUS
<1>. HIDE DEF r1ptg, nxpsg, r0ptg, req
<1>4. g0 \in Nat \ {0} /\ g1 \in Nat \ {0}
  <2>1. \A m \in Nat \ {0} : \A n \in Nat \ {0} : CeilDiv(m, n) \in Nat \ {0}
    BY CeilDivIsLess
  <2>. QED BY <1>1, <1>2, <1>3, <2>1
<1>5. Batch(op) \in Nat \ {0}
  BY <1>1, PositiveProduct DEF Batch
<1>6. ThreadsFit(32 * 2, req, d)
  <2>1. 32 * 2 \in Nat \ {0} /\ 32 * 2 <= d.max
    BY <1>1
  <2>. QED BY <2>1 DEF ThreadsFit
<1>. HIDE DEF g0, g1
<1>7. Fits(x, d)
  <2>1. \A n : ThreadsFit(n, req, d) => Fits(Simple(op, req, <<g0, g1, Batch(op)>>, n), d)
    BY <1>1, <1>4, <1>5, RunFits
  <2>. QED BY <1>6, <2>1
<1>. HIDE DEF x
<1>8. Fits(Tiled(x, op, d, 1, 2, ne11), d)
  BY <1>7, TilesStayFit
<1>. QED BY <1>8 DEF MulMvExt, x, g0, g1, req, r0ptg, r1ptg, nxpsg, ne11

LEMMA MulMmFits ==
  ASSUME SmallKernels, NEW op, NEW d, WellShaped(op, d), WithinLimits(op, d),
         op.op = "MUL_MAT"
  PROVE  Fits(MulMm(op, d), d)
<1>. DEFINE req == PipelineMulMm(op, d)
            g0 == CeilDiv(op.src[1].ne[1], req.nr1)
            g1 == CeilDiv(op.src[0].ne[1], req.nr0)
            x == Smem(Simple(op, req, <<g0, g1, Batch(op)>>, 32 * req.nsg), req.smem)
            y == Tiled(x, op, d, 2, 1, op.src[1].ne[1])
<1>1. /\ op.src[0].ne[1] \in Nat \ {0}
      /\ op.src[1].ne[1] \in Nat \ {0} /\ op.src[1].ne[2] \in Nat \ {0}
      /\ op.src[1].ne[3] \in Nat \ {0}
  <2>1. 0 \in 0..(Arity(op.op) - 1) /\ 1 \in 0..(Arity(op.op) - 1)
    BY DEF Arity
  <2>. QED BY <2>1, LimitsOf
<1>0. d.max \in Nat /\ d.max >= 256 /\ d.max_smem \in Nat /\ d.max_smem >= 32768
  BY LimitsOf
<1>2. /\ req.nr0 \in Nat \ {0} /\ req.nr1 \in Nat \ {0}
      /\ req.nsg \in Nat \ {0} /\ req.nsg <= 8
      /\ req.smem \in Nat /\ req.smem <= 32768
  <2>1. CASE UseN64(op, d)
    <3>1. req.nr0 = 64 /\ req.nr1 = 64 /\ req.nsg = 8 /\ req.smem = 4096 + 4096
      BY <2>1 DEF PipelineMulMm, Plain, Request
    <3>. HIDE DEF req
    <3>. QED BY <3>1
  <2>2. CASE ~UseN64(op, d)
    <3>. DEFINE r0 == IF d.has_tensor THEN NRA ELSE 64
                r1 == IF d.has_tensor THEN NRB ELSE 32
                bco == op.ne[0] % r0 # 0 \/ op.ne[1] % r1 # 0
                bytes == IF d.has_tensor THEN NRA * N_MM_NK_TOTAL * 2
                         ELSE IF bco THEN 8192 ELSE 4096 + 2048
    <3>1. req.nr0 = r0 /\ req.nr1 = r1 /\ req.nsg = N_MM_SG /\ req.smem = bytes
      BY <2>2 DEF PipelineMulMm, Request
    <3>2. /\ NRA \in Nat \ {0} /\ NRB \in Nat \ {0} /\ N_MM_SG \in Nat \ {0}
          /\ N_MM_NK_TOTAL \in Nat \ {0} /\ N_MM_SG <= 8 /\ NRA * N_MM_NK_TOTAL <= 16384
      BY QuantAssumption DEF SmallKernels
    <3>3. NRA * N_MM_NK_TOTAL * 2 \in Nat /\ NRA * N_MM_NK_TOTAL * 2 <= 32768
      <4>. DEFINE p == NRA * N_MM_NK_TOTAL
      <4>1. p \in Nat /\ p <= 16384
        BY <3>2
      <4>. HIDE DEF p
      <4>2. p * 2 \in Nat /\ p * 2 <= 32768
        BY <4>1
      <4>. QED BY <4>2 DEF p
    <3>. HIDE DEF bco, req
    <3>4. bytes \in Nat /\ bytes <= 32768
      BY <3>3
    <3>5. r0 \in Nat \ {0} /\ r1 \in Nat \ {0}
      BY <3>2
    <3>. HIDE DEF bytes, r0, r1
    <3>. QED BY <3>1, <3>2, <3>4, <3>5
  <2>. QED BY <2>1, <2>2
<1>. HIDE DEF req
<1>3. g0 \in Nat \ {0} /\ g1 \in Nat \ {0}
  <2>1. \A m \in Nat \ {0} : \A n \in Nat \ {0} : CeilDiv(m, n) \in Nat \ {0}
    BY CeilDivIsLess
  <2>2. op.src[0].ne[1] \in Nat \ {0} /\ op.src[1].ne[1] \in Nat \ {0}
    BY <1>1
  <2>3. req.nr0 \in Nat \ {0} /\ req.nr1 \in Nat \ {0}
    BY <1>2
  <2>. QED BY <2>1, <2>2, <2>3
<1>4. Batch(op) \in Nat \ {0}
  BY <1>1, PositiveProduct DEF Batch
<1>5. ThreadsFit(32 * req.nsg, req, d) /\ req.smem <= d.max_smem
  BY <1>0, <1>2, SimdgroupsFit
<1>. HIDE DEF g0, g1
<1>6. Fits(x, d)
  <2>. DEFINE n == 32 * req.nsg
  <2>1. ThreadsFit(n, req, d) /\ d.max_smem \in Nat
    BY <1>0, <1>5
  <2>. HIDE DEF n
  <2>2. Fits(Smem(Simple(op, req, <<g0, g1, Batch(op)>>, n), req.smem), d)
    BY <1>3, <1>4, <1>5, <2>1, LaunchesOf
  <2>. QED BY <2>2 DEF n
<1>7. Fits(y, d) /\ Fits(Unchecked(y), d)
  <2>. HIDE DEF x
  <2>. QED BY <1>6, TilesStayFit
<1>. HIDE DEF y
<1>8. Fits(IF req.consts = NoFields \/ ~req.consts.bco THEN Unchecked(y) ELSE y, d)
  BY <1>7
<1>. QED BY <1>8 DEF MulMm, y, x, g0, g1, req

LEMMA MulMatFits ==
  ASSUME SmallKernels, NEW op, NEW d, WellShaped(op, d), WithinLimits(op, d),
         op.op = "MUL_MAT"
  PROVE  AllFit(OpMulMat(op, d), d)
<1>1. Fits(MulMvExt(op, d), d) /\ Fits(MulMm(op, d), d) /\ Fits(MulMv(op, d), d)
  BY MulMvExtFits, MulMmFits, MulMvFits
<1>. QED BY <1>1, StagesFit DEF OpMulMat

\* The list of the tokens of each expert, and the product of chosen matrices.
LEMMA MulMatIdFits ==
  ASSUME SmallKernels, NEW op, NEW d, WellShaped(op, d), WithinLimits(op, d),
         op.op = "MUL_MAT_ID"
  PROVE  AllFit(OpMulMatId(op, d), d)
<1>. DEFINE ne01 == op.src[0].ne[1]
            ne02 == op.src[0].ne[2]
            ids  == op.src[2]
            map0 == PipelineMulMmIdMap0(ne02, ids.ne[0])
            mm   == PipelineMulMmId(op)
            mv   == PipelineMulMvId(op)
            n0   == RowsPerGroup(op, mv)
            tpe  == op.scratch[1]
            list == op.scratch[2]
            byTiles == d.has_simdgroup_mm /\ op.src[0].ne[0] >= 64 /\ ids.ne[1] >= 32
            listed == Smem(Run(map0, <<"MAP0">>, <<At(op, 2)>>, <<tpe, list>>, <<1, 1, 1>>,
                               ne02), map0.smem)
            many == Smem(Run(mm, <<"MUL_MAT_ID">>, <<At(op, 0), At(op, 1), tpe, list>>,
                             <<op.at>>, <<CeilDiv(ids.ne[1], 32), CeilDiv(ne01, 64), ne02>>,
                             128), mm.smem)
            few == Smem(Simple(op, mv, <<CeilDiv(ne01, n0), 1, ids.ne[0] * ids.ne[1]>>,
                               32 * mv.nsg), mv.smem)
<1>1. /\ op.src[0].ne[0] \in Nat \ {0} /\ ne01 \in Nat \ {0} /\ ne02 \in Nat \ {0}
      /\ ids.ne[0] \in Nat \ {0} /\ ids.ne[1] \in Nat \ {0}
  <2>1. 0 \in 0..(Arity(op.op) - 1) /\ 2 \in 0..(Arity(op.op) - 1)
    BY DEF Arity
  <2>. QED BY <2>1, LimitsOf
<1>0. d.max \in Nat /\ d.max >= 256 /\ d.max_smem \in Nat /\ d.max_smem >= 32768
  BY LimitsOf
<1>2. map0.smem = ne02 * ids.ne[0] * 2 /\ mm.smem = 8192
  BY DEF PipelineMulMmIdMap0, PipelineMulMmId, Request
<1>3. /\ n0 \in Nat \ {0} /\ mv.nsg \in Nat \ {0} /\ mv.nsg <= 8
      /\ mv.smem \in Nat /\ mv.smem <= 8192
  <2>1. mv = MatVec("mul_mv_id", op, FALSE)
    BY DEF PipelineMulMvId
  <2>3. Type(op, 0) \in FloatTypes \cup QuantTypes
    BY DEF WellShaped, Type
  <2>4. op.src[0].ne[0] \in Nat \ {0}
    BY <1>1
  <2>. HIDE DEF mv
  <2>5. n0 \in Nat \ {0}
    BY <2>1, <2>3, MatVecTile
  <2>6. IsLight(MatVec("mul_mv_id", op, FALSE))
    BY <2>3, <2>4, MatVecLimits
  <2>7. mv.nsg \in Nat \ {0} /\ mv.nsg <= 8 /\ mv.smem \in Nat /\ mv.smem <= 8192
    <3>1. IsLight(mv)
      BY <2>1, <2>6
    <3>. QED BY <3>1 DEF IsLight
  <2>. QED BY <2>5, <2>7
<1>4. byTiles => ne02 <= d.max /\ ne02 * ids.ne[0] * 2 <= d.max_smem
  BY DEF WellShaped, Asserted
<1>. HIDE DEF map0, mm, mv, n0, ids, ne01, ne02, tpe, list
<1>5. \A m \in Nat \ {0} : \A n \in Nat \ {0} : CeilDiv(m, n) \in Nat \ {0}
  BY CeilDivIsLess
<1>6. ASSUME byTiles PROVE Fits(listed, d)
  <2>1. ThreadsFit(ne02, map0, d) /\ map0.smem <= d.max_smem
    BY <1>0, <1>1, <1>2, <1>4, <1>6 DEF ThreadsFit
  <2>2. \A a, b, c \in Nat \ {0} : \A does, in, out :
          Fits(Smem(Run(map0, does, in, out, <<a, b, c>>, ne02), map0.smem), d)
    BY <1>0, <2>1, LaunchesOf
  <2>. QED BY <2>2
<1>7. Fits(many, d)
  <2>. DEFINE g0 == CeilDiv(ids.ne[1], 32)
              g1 == CeilDiv(ne01, 64)
              n == 128
  <2>1. g0 \in Nat \ {0} /\ g1 \in Nat \ {0}
    <3>1. 32 \in Nat \ {0} /\ 64 \in Nat \ {0}
      OBVIOUS
    <3>2. \A w \in Nat \ {0} : CeilDiv(ids.ne[1], w) \in Nat \ {0}
                              /\ CeilDiv(ne01, w) \in Nat \ {0}
      BY <1>1, <1>5
    <3>. QED BY <3>1, <3>2
  <2>2. ThreadsFit(n, mm, d)
    BY <1>0 DEF ThreadsFit
  <2>3. mm.smem <= d.max_smem
    BY <1>0, <1>2
  <2>. HIDE DEF g0, g1, n
  <2>4. \A does, in, out :
          Fits(Smem(Run(mm, does, in, out, <<g0, g1, ne02>>, n), mm.smem), d)
    BY <1>0, <1>1, <2>1, <2>2, <2>3, LaunchesOf
  <2>. QED BY <2>4 DEF g0, g1, n
<1>8. Fits(few, d)
  <2>. DEFINE g0 == CeilDiv(ne01, n0)
              g2 == ids.ne[0] * ids.ne[1]
              n == 32 * mv.nsg
  <2>1. g0 \in Nat \ {0} /\ g2 \in Nat \ {0}
    <3>1. g0 \in Nat \ {0}
      BY <1>1, <1>3, <1>5
    <3>2. g2 \in Nat \ {0}
      BY <1>1, PositiveProduct
    <3>. QED BY <3>1, <3>2
  <2>2. ThreadsFit(n, mv, d)
    BY <1>0, <1>3, SimdgroupsFit
  <2>3. mv.smem <= d.max_smem
    BY <1>0, <1>3
  <2>. HIDE DEF g0, g2, n
  <2>4. \A b \in Nat \ {0} : Fits(Smem(Simple(op, mv, <<g0, b, g2>>, n), mv.smem), d)
    BY <1>0, <1>1, <2>1, <2>2, <2>3, LaunchesOf
  <2>5. Fits(Smem(Simple(op, mv, <<g0, 1, g2>>, n), mv.smem), d)
    BY <2>4
  <2>. QED BY <2>5 DEF g0, g2, n
<1>. HIDE DEF listed, many, few, byTiles
<1>9. Fits(Tiled(many, op, d, 2, 1, ids.ne[1]), d) /\ Fits(Tiled(few, op, d, 1, 2, 1), d)
  BY <1>7, <1>8, TilesStayFit
<1>10. AllFit(IF byTiles THEN <<<<listed>>, <<Tiled(many, op, d, 2, 1, ids.ne[1])>>>>
              ELSE One(Tiled(few, op, d, 1, 2, 1)), d)
  BY <1>6, <1>9, StagesFit
<1>. QED BY <1>10 DEF OpMulMatId, byTiles, listed, many, few, map0, mm, mv, n0, ids, ne01,
                      ne02, tpe, list

\* What is put together from launches that fit.
LEMMA TogetherFit ==
  ASSUME NEW d, NEW S, NEW a \in Seq(S), NEW b \in Seq(S),
         \A k \in DOMAIN a : Fits(a[k], d), \A k \in DOMAIN b : Fits(b[k], d)
  PROVE  \A k \in DOMAIN (a \o b) : Fits((a \o b)[k], d)
  BY TogetherIsEither

\* The same for stages one after the other.
LEMMA StagesTogetherFit ==
  ASSUME NEW d, NEW S, NEW a \in Seq(S), NEW b \in Seq(S), AllFit(a, d), AllFit(b, d)
  PROVE  AllFit(a \o b, d)
  BY TogetherIsEither DEF AllFit

\* Keys and values padded to a block, in room for rows of the larger blocks.
LEMMA PadKvFits ==
  ASSUME SmallKernels, NEW op, NEW d, WellShaped(op, d), WithinLimits(op, d),
         op.op = "FLASH_ATTN_EXT", NEW c \in {NCPSG, VEC_NCPSG}
  PROVE  Fits(PadKv(op, c), d)
<1>. DEFINE over(i) == IF Has(op, 3) THEN Most(op.src[1].ne[i], op.src[3].ne[i])
                       ELSE op.src[1].ne[i]
            req == PipelineFlashAttnExtPad(Has(op, 3), c)
            a2 == over(2)
            a3 == over(3)
            in == <<At(op, 1), At(op, 2), MaskAt(op)>>
            x == Run(req, <<"FA_PAD">>, in, <<op.scratch[1]>>, <<c, a2, a3>>, 32)
<1>1. op.src[1].ne[2] \in Nat \ {0} /\ op.src[1].ne[3] \in Nat \ {0}
  <2>1. 1 \in 0..(Arity(op.op) - 1)
    BY DEF Arity
  <2>. QED BY <2>1, LimitsOf
<1>2. Has(op, 3) => op.src[3].ne[2] \in Nat \ {0} /\ op.src[3].ne[3] \in Nat \ {0}
  BY SizesAreNumbers DEF WellShaped, Has
<1>3. a2 \in Nat \ {0} /\ a3 \in Nat \ {0}
  BY <1>1, <1>2 DEF Most
<1>4. c \in Nat \ {0} /\ c <= ExtraPad(op)
  BY QuantAssumption DEF SmallKernels, ExtraPad
<1>5. ThreadsFit(32, req, d) /\ d.max_smem \in Nat
  <2>1. d.max \in Nat /\ d.max >= 256 /\ d.max_smem \in Nat
    BY LimitsOf
  <2>. HIDE DEF req
  <2>. QED BY <2>1 DEF ThreadsFit
<1>. HIDE DEF req, a2, a3, in
<1>6. Fits(x, d)
  <2>1. \A n : ThreadsFit(n, req, d) => \A does, out : Fits(Run(req, does, in, out, <<c, a2, a3>>, n), d)
    BY <1>3, <1>4, <1>5, RunFits
  <2>. QED BY <1>5, <2>1
<1>. HIDE DEF x
<1>7. Fits(Room(x, c, ExtraPad(op)), d)
  BY <1>4, <1>6, SettersStayFit
<1>. QED BY <1>7 DEF PadKv, x, req, a2, a3, in

\* The blocks that are masked out, where the larger blocks are used.
LEMMA MaskBlocksFit ==
  ASSUME NEW op, NEW d, WellShaped(op, d), WithinLimits(op, d),
         op.op = "FLASH_ATTN_EXT", Has(op, 3), ~UseVec(op)
  PROVE  Fits(MaskBlocks(op), d)
<1>. DEFINE m == op.src[3]
            nblk1 == CeilDiv(op.src[0].ne[1], NQPSG)
            nblk0 == CeilDiv(m.ne[0], NCPSG)
            req == PipelineFlashAttnExtBlk(NQPSG, NCPSG)
            w == m.ne[2] * m.ne[3]
            n == nblk0 * nblk1 * m.ne[2] * m.ne[3]
            x == Run(req, <<"FA_BLK">>, <<At(op, 3)>>, <<op.scratch[2]>>,
                     <<nblk0, nblk1, w>>, 32)
<1>1. op.src[0].ne[1] \in Nat \ {0}
  <2>1. 0 \in 0..(Arity(op.op) - 1)
    BY DEF Arity
  <2>. QED BY <2>1, LimitsOf
<1>2. m.ne[0] \in Nat \ {0} /\ m.ne[2] \in Nat \ {0} /\ m.ne[3] \in Nat \ {0}
  BY SizesAreNumbers DEF WellShaped, Has
<1>3. NQPSG \in Nat \ {0} /\ NCPSG \in Nat \ {0}
  BY QuantAssumption
<1>. HIDE DEF m
<1>4. nblk0 \in Nat \ {0} /\ nblk1 \in Nat \ {0}
  BY <1>1, <1>2, <1>3, CeilDivIsLess
<1>. HIDE DEF nblk0, nblk1
<1>5. w \in Nat \ {0}
  BY <1>2, PositiveProduct
<1>6. n \in Nat \ {0}
  <2>1. nblk0 * nblk1 \in Nat \ {0}
    BY <1>4, PositiveProduct
  <2>2. nblk0 * nblk1 * m.ne[2] \in Nat \ {0}
    BY <1>2, <2>1, PositiveProduct
  <2>. QED BY <1>2, <2>2, PositiveProduct
<1>7. ThreadsFit(32, req, d) /\ d.max_smem \in Nat
  <2>1. d.max \in Nat /\ d.max >= 256 /\ d.max_smem \in Nat
    BY LimitsOf
  <2>. HIDE DEF req
  <2>. QED BY <2>1 DEF ThreadsFit
<1>8. ExtraBlk(op) = 32 * CeilDiv(n, 32)
  BY DEF ExtraBlk, nblk0, nblk1, m
<1>. HIDE DEF n, w, req
<1>9. n <= ExtraBlk(op)
  <2>1. \A k \in Nat \ {0} : CeilDiv(k, 32) \in Nat \ {0} /\ 32 * CeilDiv(k, 32) >= k
    BY CeilDivIsLess, SMTT(30)
  <2>2. 32 * CeilDiv(n, 32) >= n /\ CeilDiv(n, 32) \in Nat
    BY <1>6, <2>1
  <2>. DEFINE e == CeilDiv(n, 32)
  <2>. HIDE DEF e
  <2>3. 32 * e >= n /\ e \in Nat /\ ExtraBlk(op) = 32 * e
    BY <1>8, <2>2 DEF e
  <2>. QED BY <1>6, <2>3
<1>10. Fits(x, d)
  <2>1. \A k : ThreadsFit(k, req, d) => \A does, in, out : Fits(Run(req, does, in, out, <<nblk0, nblk1, w>>, k), d)
    BY <1>4, <1>5, <1>7, RunFits
  <2>. QED BY <1>7, <2>1
<1>. HIDE DEF x
<1>11. Fits(Room(x, n, ExtraBlk(op)), d)
  BY <1>9, <1>10, SettersStayFit
<1>. QED BY <1>11 DEF MaskBlocks, x, n, w, req, nblk0, nblk1, m

\* Groups of queries.
LEMMA AttnMatrixFits ==
  ASSUME SmallKernels, NEW op, NEW d, WellShaped(op, d), WithinLimits(op, d),
         op.op = "FLASH_ATTN_EXT", ~UseVec(op)
  PROVE  AllFit(AttnMatrix(op, d), d)
<1>. DEFINE q == op.src[0]
            has == AttnHas(op, NCPSG)
            nsg == MatrixSimdgroups(op)
            groups == CeilDiv(q.ne[1], NQPSG)
            req == PipelineFlashAttnExt(op, has, nsg)
            in == Sources(op) \o (IF has.kvpad THEN <<op.scratch[1]>> ELSE <<>>)
                              \o (IF has.mask THEN <<op.scratch[2]>> ELSE <<>>)
            main == Smem(Cover(Run(req, <<op.op>>, in, <<op.at>>,
                                   <<groups, q.ne[2], q.ne[3]>>, 32 * nsg),
                               groups, NQPSG, q.ne[1]), MatrixSmem(op))
            pad   == IF has.kvpad THEN <<PadKv(op, NCPSG)>> ELSE <<>>
            blk   == IF has.mask THEN <<MaskBlocks(op)>> ELSE <<>>
            first == pad \o blk
<1>1. /\ q.ne[1] \in Nat \ {0} /\ q.ne[2] \in Nat \ {0} /\ q.ne[3] \in Nat \ {0}
      /\ NQPSG \in Nat \ {0}
  <2>1. 0 \in 0..(Arity(op.op) - 1)
    BY DEF Arity
  <2>. QED BY <2>1, LimitsOf, QuantAssumption
<1>2. d.max \in Nat /\ d.max >= 256 /\ d.max_smem \in Nat
  BY LimitsOf
<1>3. MatrixSmem(op) <= d.max_smem
  BY DEF WithinLimits
<1>4. nsg \in Nat \ {0} /\ nsg <= 8
  BY DEF MatrixSimdgroups
<1>5. has.mask => Has(op, 3)
  BY DEF AttnHas
<1>6. Fits(PadKv(op, NCPSG), d) /\ (has.mask => Fits(MaskBlocks(op), d))
  <2>1. Fits(PadKv(op, NCPSG), d)
    BY PadKvFits
  <2>. HIDE DEF has
  <2>. QED BY <1>5, <2>1, MaskBlocksFit
<1>. HIDE DEF q, nsg, req, in
<1>7. groups \in Nat \ {0}
  BY <1>1, CeilDivIsLess
<1>. HIDE DEF groups
<1>8. Fits(main, d)
  <2>. DEFINE n == 32 * nsg
  <2>1. ThreadsFit(n, req, d)
    BY <1>2, <1>4, SimdgroupsFit
  <2>. HIDE DEF n
  <2>2. \A does, out, g, p, w :
          Fits(Smem(Cover(Run(req, does, in, out, <<groups, q.ne[2], q.ne[3]>>, n), g, p, w),
                    MatrixSmem(op)), d)
    BY <1>1, <1>2, <1>3, <1>7, <2>1, LaunchesOf
  <2>. QED BY <2>2 DEF n
<1>9. \A k \in DOMAIN first : Fits(first[k], d)
  <2>. DEFINE S == {PadKv(op, NCPSG), MaskBlocks(op)}
  <2>1. pad \in Seq(S) /\ blk \in Seq(S)
    <3>1. <<>> \in Seq(S) /\ \A y \in S : <<y>> \in Seq(S)
      OBVIOUS
    <3>2. PadKv(op, NCPSG) \in S /\ MaskBlocks(op) \in S
      OBVIOUS
    <3>. HIDE DEF S
    <3>. QED BY <3>1, <3>2
  <2>2. /\ \A k \in DOMAIN pad : Fits(pad[k], d)
        /\ \A k \in DOMAIN blk : Fits(blk[k], d)
    <3>. HIDE DEF has
    <3>. QED BY <1>6
  <2>. HIDE DEF S, pad, blk
  <2>. QED BY <2>1, <2>2, TogetherFit
<1>. HIDE DEF main, first
<1>10. AllFit(IF first = <<>> THEN <<<<main>>>> ELSE <<first, <<main>>>>, d)
  BY <1>8, <1>9 DEF AllFit
<1>. QED BY <1>10 DEF AttnMatrix, main, first, groups, q, nsg, req, in

\* Cache values shared out to workgroups, whose partial results have their room.
LEMMA AttnVectorFits ==
  ASSUME SmallKernels, NEW op, NEW d, WellShaped(op, d), WithinLimits(op, d),
         op.op = "FLASH_ATTN_EXT", UseVec(op)
  PROVE  AllFit(AttnVector(op, d), d)
<1>. DEFINE q == op.src[0]
            dv == op.src[2].ne[0]
            nwg == 32
            nsg == VecSimdgroups(op)
            has == AttnHas(op, VEC_NCPSG)
            nrows == op.ne[1] * op.ne[2] * op.ne[3]
            groups == CeilDiv(q.ne[1], VEC_NQPSG)
            req == PipelineFlashAttnExtVec(op, has, nsg, nwg)
            in == Sources(op) \o (IF has.kvpad THEN <<op.scratch[1]>> ELSE <<>>)
            own == Smem(Cover(Run(req, <<"FA_VEC">>, in, <<op.scratch[3]>>,
                                  <<groups, q.ne[2], q.ne[3] * nwg>>, 32 * nsg),
                              groups, VEC_NQPSG, q.ne[1]), VecSmem(op))
            main == Room(own, nrows * nwg * (dv + 2), ExtraTmp(op))
            joins == PipelineFlashAttnExtVecReduce(dv, nwg)
            reduce == Run(joins, <<op.op>>, <<op.scratch[3]>>, <<op.at>>,
                          <<nrows, 1, 1>>, 32 * nwg)
<1>1. /\ q.ne[1] \in Nat \ {0} /\ q.ne[2] \in Nat \ {0} /\ q.ne[3] \in Nat \ {0}
      /\ dv \in Nat \ {0} /\ op.src[1].ne[1] \in Nat \ {0}
  <2>1. /\ 0 \in 0..(Arity(op.op) - 1) /\ 1 \in 0..(Arity(op.op) - 1)
        /\ 2 \in 0..(Arity(op.op) - 1)
    BY DEF Arity
  <2>. QED BY <2>1, LimitsOf
<1>2. d.max \in Nat /\ d.max >= 256 /\ d.max_smem \in Nat
  BY LimitsOf
<1>3. VecSmem(op) <= d.max_smem
  BY DEF WellShaped, Asserted
<1>4. VEC_NQPSG \in Nat \ {0} /\ VEC_NCPSG \in Nat \ {0}
  BY QuantAssumption
<1>5. nsg \in Nat \ {0} /\ nsg <= 8
  <2>. DEFINE w == 2 * 32 * VEC_NCPSG
              c == CeilDiv(op.src[1].ne[1], w)
              n == AtMost(4, c)
  <2>1. w \in Nat \ {0}
    BY <1>4
  <2>2. nsg = Doubled(1, n)
    BY DEF VecSimdgroups
  <2>. HIDE DEF w
  <2>3. c \in Nat \ {0}
    BY <1>1, <2>1, CeilDivIsLess
  <2>. HIDE DEF c
  <2>4. n \in Nat /\ n <= 4
    BY <2>3 DEF AtMost
  <2>. HIDE DEF n, nsg
  <2>5. Doubled(1, n) \in Nat \ {0} /\ Doubled(1, n) <= 4
    BY <2>4, DoubledThreads
  <2>. QED BY <2>2, <2>5
<1>6. op.ne[1] = q.ne[2] /\ op.ne[2] = q.ne[1] /\ op.ne[3] = q.ne[3]
  BY DEF WellShaped
<1>7. q.ne[1] < 20
  BY DEF UseVec
<1>8. ExtraTmp(op) = AtMost(q.ne[1], 32) * q.ne[2] * q.ne[3] * 32 * (dv + 2)
  BY DEF ExtraTmp
<1>9. joins.base.kernel \in FixedThreads
  BY FixedKernels
<1>p. Fits(PadKv(op, VEC_NCPSG), d)
  BY PadKvFits
<1>. HIDE DEF q, dv, nsg, req, in, joins
<1>10. groups \in Nat \ {0}
  BY <1>1, <1>4, CeilDivIsLess
<1>. HIDE DEF groups
<1>11. nrows \in Nat \ {0} /\ q.ne[3] * nwg \in Nat \ {0}
  <2>1. op.ne[1] * op.ne[2] \in Nat \ {0}
    BY <1>1, <1>6, PositiveProduct
  <2>2. nrows \in Nat \ {0}
    BY <1>1, <1>6, <2>1, PositiveProduct
  <2>. QED BY <1>1, <2>2
<1>12. nrows * nwg * (dv + 2) = ExtraTmp(op)
  <2>1. AtMost(q.ne[1], 32) = q.ne[1]
    BY <1>1, <1>7 DEF AtMost
  <2>2. op.ne[1] * op.ne[2] * op.ne[3] = q.ne[1] * q.ne[2] * q.ne[3]
    BY <1>1, <1>6
  <2>. QED BY <1>8, <2>1, <2>2
<1>13. Fits(own, d)
  <2>. DEFINE n == 32 * nsg
              g2 == q.ne[3] * nwg
  <2>1. ThreadsFit(n, req, d)
    BY <1>2, <1>5, SimdgroupsFit
  <2>2. g2 \in Nat \ {0}
    BY <1>11
  <2>. HIDE DEF n, g2
  <2>3. \A does, out, g, p, w :
          Fits(Smem(Cover(Run(req, does, in, out, <<groups, q.ne[2], g2>>, n), g, p, w),
                    VecSmem(op)), d)
    BY <1>1, <1>2, <1>3, <1>10, <2>1, <2>2, LaunchesOf
  <2>. QED BY <2>3 DEF n, g2
<1>. HIDE DEF nrows
<1>14. Fits(main, d)
  <2>. DEFINE needs == nrows * nwg * (dv + 2)
  <2>1. needs = ExtraTmp(op) /\ needs \in Int
    BY <1>1, <1>11, <1>12
  <2>2. needs <= ExtraTmp(op)
    BY <2>1
  <2>. HIDE DEF needs, own
  <2>3. Fits(Room(own, needs, ExtraTmp(op)), d)
    BY <1>13, <2>2, SettersStayFit
  <2>. QED BY <2>3 DEF needs
<1>15. Fits(reduce, d)
  <2>. DEFINE n == 32 * nwg
  <2>1. ThreadsFit(n, joins, d)
    BY <1>9 DEF ThreadsFit
  <2>. HIDE DEF n
  <2>2. \A b \in Nat \ {0} : \A does, in0, out : Fits(Run(joins, does, in0, out, <<nrows, b, b>>, n), d)
    BY <1>2, <1>11, <2>1, RunFits
  <2>3. \A does, in0, out : Fits(Run(joins, does, in0, out, <<nrows, 1, 1>>, n), d)
    BY <2>2
  <2>. QED BY <2>3 DEF n
<1>. HIDE DEF main, reduce
<1>16. AllFit((IF has.kvpad THEN <<<<PadKv(op, VEC_NCPSG)>>>> ELSE <<>>)
              \o <<<<main>>, <<reduce>>>>, d)
  <2>. DEFINE pad == PadKv(op, VEC_NCPSG)
  <2>0. Fits(pad, d)
    BY <1>p
  <2>. HIDE DEF pad, has
  <2>. DEFINE S == {<<pad>>, <<main>>, <<reduce>>}
              a == IF has.kvpad THEN <<<<pad>>>> ELSE <<>>
              b == <<<<main>>, <<reduce>>>>
  <2>1. a \in Seq(S) /\ b \in Seq(S)
    <3>1. <<>> \in Seq(S) /\ <<<<pad>>>> \in Seq(S) /\ <<<<main>>, <<reduce>>>> \in Seq(S)
      OBVIOUS
    <3>. HIDE DEF S
    <3>. QED BY <3>1
  <2>2. AllFit(a, d) /\ AllFit(b, d)
    BY <1>14, <1>15, <2>0 DEF AllFit
  <2>3. AllFit(a \o b, d)
    <3>. HIDE DEF S, a, b
    <3>. QED BY <2>1, <2>2, StagesTogetherFit
  <2>. QED BY <2>3 DEF pad
<1>. QED BY <1>16 DEF AttnVector, main, own, reduce, nrows, groups, q, dv, nsg, req, in, joins

LEMMA AttentionFits ==
  ASSUME SmallKernels, NEW op, NEW d, WellShaped(op, d), WithinLimits(op, d),
         op.op = "FLASH_ATTN_EXT"
  PROVE  AllFit(OpFlashAttnExt(op, d), d)
<1>1. CASE UseVec(op)
  BY <1>1, AttnVectorFits DEF OpFlashAttnExt
<1>2. CASE ~UseVec(op)
  BY <1>2, AttnMatrixFits DEF OpFlashAttnExt
<1>. QED BY <1>1, <1>2

\* Merges of sorted runs.
LEMMA MergesFit ==
  ASSUME NEW op, NEW d, d.max \in Nat \ {0}, d.max_smem \in Nat, Sized(op.src[0]), NEW req,
         NEW len \in Nat \ {0}, NEW total \in Nat \ {0}, NEW here, NEW there
  PROVE  /\ AllFit(Merges(op, req, len, total, here, there, d), d)
         /\ \E S : Merges(op, req, len, total, here, there, d) \in Seq(S)
<1>. DEFINE m == Merges(op, req, len, total, here, there, d)
            t == op.src[0]
<1>0. t.ne[1] \in Nat \ {0} /\ t.ne[2] \in Nat \ {0} /\ t.ne[3] \in Nat \ {0}
  BY SizesAreNumbers
<1>1. PICK n \in 0..17 : n = LogUp(CeilDiv(total, len))
  BY LogUpIsBounded
<1>2. DOMAIN m = 1..n
  BY <1>1 DEF Merges
<1>3. \A i \in 1..n : \E a : Fits(a, d) /\ m[i] = <<a>>
  <2>. SUFFICES ASSUME NEW i \in 1..n PROVE \E a : Fits(a, d) /\ m[i] = <<a>>
    OBVIOUS
  <2>. DEFINE l == len * Pow2[i - 1]
              nm == CeilDiv(total, 2 * l)
              g0 == nm * t.ne[1]
              nth == MergeThreads(op, l, d)
  <2>1. l \in Nat \ {0}
    <3>1. Pow2[i - 1] \in Nat \ {0}
      <4>1. i - 1 \in 0..16
        BY <1>1
      <4>. QED BY <4>1, Powers
    <3>. QED BY <3>1, PositiveProduct
  <2>2. nm \in Nat \ {0}
    <3>. DEFINE w == 2 * l
    <3>1. w \in Nat \ {0}
      <4>. HIDE DEF l
      <4>. QED BY <2>1
    <3>. HIDE DEF w
    <3>2. CeilDiv(total, w) \in Nat \ {0}
      BY <3>1, CeilDivIsLess
    <3>. QED BY <3>2 DEF w
  <2>3. g0 \in Nat \ {0}
    <3>. HIDE DEF nm
    <3>. QED BY <1>0, <2>2, PositiveProduct
  <2>4. ThreadsFit(nth, req, d)
    <3>. HIDE DEF l
    <3>. DEFINE x == IF op.op = "TOP_K" THEN AtMost(l, d.max) ELSE d.max
    <3>1. x \in Nat \ {0} /\ x <= d.max
      BY <2>1 DEF AtMost
    <3>2. nth = AtMost(512, x)
      BY DEF MergeThreads
    <3>. HIDE DEF x, nth
    <3>3. AtMost(512, x) \in Nat \ {0} /\ AtMost(512, x) <= d.max
      BY <3>1 DEF AtMost
    <3>. QED BY <3>2, <3>3 DEF ThreadsFit
  <2>5. \A does, in, out, g, p, w :
          Fits(Cover(Run(req, does, in, out, <<g0, t.ne[2], t.ne[3]>>, nth), g, p, w), d)
    <3>1. 0 <= d.max_smem
      OBVIOUS
    <3>. HIDE DEF g0, nth, t
    <3>. QED BY <1>0, <2>3, <2>4, <3>1, LaunchesOf
  <2>. QED BY <1>1, <2>5 DEF Merges
<1>4. m = [i \in 1..n |-> m[i]]
  BY <1>1 DEF Merges
<1>. HIDE DEF m
<1>5. m \in Seq({m[i] : i \in 1..n})
  <2>1. n \in Nat
    BY <1>1
  <2>. QED BY <1>4, <2>1
<1>6. AllFit(m, d)
  BY <1>2, <1>3 DEF AllFit
<1>. QED BY <1>5, <1>6 DEF m

\* A block of a row is sorted in 16 KB.
LEMMA BlocksAreSmall ==
  ASSUME NEW n \in Nat \ {0}, n <= 4096
  PROVE  Padded(4 * n, 16) \in Nat /\ Padded(4 * n, 16) <= 32768
<1>. DEFINE m == 4 * n
            c == CeilDiv(m, 16)
<1>1. m \in Nat \ {0} /\ m <= 16384
  OBVIOUS
<1>. HIDE DEF m
<1>2. \A k \in Nat \ {0} : CeilDiv(k, 16) \in Nat \ {0} /\ 16 * CeilDiv(k, 16) <= k + 16 - 1
  BY CeilDivIsLess
<1>3. c \in Nat /\ 16 * c <= m + 16 - 1
  BY <1>1, <1>2
<1>. HIDE DEF c
<1>4. 16 * c \in Nat /\ 16 * c <= 32768
  BY <1>1, <1>3
<1>. QED BY <1>4 DEF Padded, c, m

\* The blocks of a row and their merges.
LEMMA SortedBlocksFit ==
  ASSUME NEW op, NEW d, d.max \in Nat \ {0}, d.max <= 4096, d.max_smem \in Nat,
         Sized(op.src[0]), NEW req, NEW merge, NEW kept \in Nat \ {0},
         Padded(4 * CumsumThreads(op.src[0].ne[0], d.max), 16) <= d.max_smem
  PROVE  AllFit(SortedBlocks(op, req, kept, merge, d), d)
<1>. DEFINE t == op.src[0]
            ne00 == t.ne[0]
            nth  == CumsumThreads(ne00, d.max)
            npr  == CeilDiv(ne00, nth)
            k    == AtMost(nth, kept)
            total == IF npr > 1 THEN (npr - 1) * k + AtMost(ne00 - (npr - 1) * nth, k)
                     ELSE k
            bytes == Padded(4 * nth, 16)
            g0 == npr * t.ne[1]
<1>1. /\ ne00 \in Nat \ {0} /\ t.ne[1] \in Nat \ {0} /\ t.ne[2] \in Nat \ {0}
      /\ t.ne[3] \in Nat \ {0}
  BY SizesAreNumbers
<1>6. bytes <= d.max_smem
  OBVIOUS
<1>. HIDE DEF t, ne00, bytes
<1>2. nth \in Nat \ {0} /\ nth <= d.max
  <2>1. ne00 \in Nat
    BY <1>1
  <2>. QED BY <2>1, CumsumThreadsIsNumber
<1>. HIDE DEF nth
<1>3. k \in Nat \ {0}
  BY <1>2, AtMostIsEither
<1>4. npr \in Nat \ {0} /\ (npr - 1) * nth < ne00
  <2>1. ne00 \in Nat \ {0} /\ nth \in Nat \ {0}
    BY <1>1, <1>2
  <2>2. Enough(npr, nth, ne00) /\ npr \in Nat \ {0}
    BY <2>1, CeilDivCovers
  <2>. HIDE DEF npr
  <2>. QED BY <2>2 DEF Enough
<1>. HIDE DEF npr, k
<1>5. total \in Nat \ {0}
  <2>1. CASE npr > 1
    <3>1. (npr - 1) * k \in Nat
      <4>1. npr - 1 \in Nat
        BY <1>4
      <4>. QED BY <1>3, <4>1
    <3>2. ne00 - (npr - 1) * nth \in Nat \ {0}
      <4>1. (npr - 1) * nth \in Int
        BY <1>2, <1>4
      <4>. QED BY <1>1, <1>4, <4>1
    <3>3. AtMost(ne00 - (npr - 1) * nth, k) \in Nat \ {0}
      BY <1>3, <3>2, AtMostIsEither
    <3>. QED BY <2>1, <3>1, <3>3
  <2>2. CASE ~(npr > 1)
    BY <1>3, <2>2
  <2>. QED BY <2>1, <2>2
<1>. HIDE DEF total
<1>7. g0 \in Nat \ {0}
  BY <1>1, <1>4, PositiveProduct
<1>8. ThreadsFit(nth, req, d)
  BY <1>2 DEF ThreadsFit
<1>. HIDE DEF g0
<1>9. \A does, in, out, g, p, w :
        AllFit(One(Smem(Cover(Run(req, does, in, out, <<g0, t.ne[2], t.ne[3]>>, nth),
                              g, p, w), bytes)), d)
  <2>1. \A a : Fits(a, d) => AllFit(One(a), d)
    BY DEF One, AllFit
  <2>2. \A does, in, out, g, p, w :
          Fits(Smem(Cover(Run(req, does, in, out, <<g0, t.ne[2], t.ne[3]>>, nth),
                          g, p, w), bytes), d)
    BY <1>1, <1>6, <1>7, <1>8, LaunchesOf
  <2>. QED BY <2>1, <2>2
<1>10. ASSUME NEW a, AllFit(One(a), d), NEW m, AllFit(m, d), NEW S, m \in Seq(S)
       PROVE  AllFit(One(a) \o m, d)
  <2>. DEFINE T == S \cup {<<a>>}
  <2>1. One(a) \in Seq(T) /\ m \in Seq(T)
    BY <1>10 DEF One
  <2>. HIDE DEF T
  <2>. QED BY <1>10, <2>1, StagesTogetherFit
<1>11. \A here, there : /\ AllFit(Merges(op, merge, k, total, here, there, d), d)
                        /\ \E S : Merges(op, merge, k, total, here, there, d) \in Seq(S)
  BY <1>3, <1>5, MergesFit
<1>12. \A does, in, out, here, there :
         AllFit(One(Smem(Cover(Run(req, does, in, out, <<g0, t.ne[2], t.ne[3]>>, nth),
                               npr, nth, ne00), bytes))
                \o Merges(op, merge, k, total, here, there, d), d)
  BY <1>9, <1>10, <1>11, SMTT(30)
<1>. QED BY <1>12, SMTT(30) DEF SortedBlocks, bytes, g0, ne00, t, nth, npr, k, total

LEMMA SortingFits ==
  ASSUME NEW op, NEW d, WellShaped(op, d), WithinLimits(op, d),
         op.op \in {"ARGSORT", "TOP_K"}
  PROVE  AllFit(OpArgsort(op, d), d) /\ AllFit(OpTopK(op, d), d)
<1>1. /\ d.max \in Nat \ {0} /\ d.max <= 4096 /\ Sized(op.src[0])
      /\ op.src[0].ne[0] \in Nat \ {0} /\ op.ne[0] \in Nat \ {0}
      /\ d.max_smem \in Nat /\ d.max_smem >= 32768
  <2>1. Sized(op.src[0]) /\ Sized(op)
    BY ShapeOf DEF Arity
  <2>. QED BY <2>1, ShapeOf, SizesAreNumbers, LimitsOf
<1>. DEFINE nth == CumsumThreads(op.src[0].ne[0], d.max)
<1>2. nth \in Nat \ {0} /\ nth <= d.max
  <2>1. op.src[0].ne[0] \in Nat
    BY <1>1
  <2>. QED BY <1>1, <2>1, CumsumThreadsIsNumber
<1>. HIDE DEF nth
<1>3. Padded(4 * nth, 16) \in Nat /\ Padded(4 * nth, 16) <= 32768
  <2>1. nth <= 4096
    BY <1>1, <1>2
  <2>. QED BY <1>2, <2>1, BlocksAreSmall
<1>4. Padded(4 * nth, 16) <= d.max_smem
  <2>. DEFINE m == Padded(4 * nth, 16)
  <2>1. m \in Nat /\ m <= 32768
    BY <1>3
  <2>. HIDE DEF m
  <2>2. m <= d.max_smem
    BY <1>1, <2>1
  <2>. QED BY <2>2 DEF m
<1>5. /\ d.max \in Nat \ {0} /\ d.max <= 4096 /\ d.max_smem \in Nat /\ Sized(op.src[0])
      /\ Padded(4 * CumsumThreads(op.src[0].ne[0], d.max), 16) <= d.max_smem
  BY <1>1, <1>4 DEF nth
<1>6. \A req, merge : \A kept \in Nat \ {0} : AllFit(SortedBlocks(op, req, kept, merge, d), d)
  BY <1>5, SortedBlocksFit
<1>7. op.src[0].ne[0] \in Nat \ {0} /\ op.ne[0] \in Nat \ {0}
  BY <1>1
<1>. QED BY <1>6, <1>7 DEF OpArgsort, OpTopK

\* Whatever the operation, its launches fit the device.
LEMMA EveryStageFits ==
  ASSUME SmallKernels, NEW nodes, NEW i, NEW d, nodes[i].op \in EncodedOps,
         WellShaped(nodes[i], d), WithinLimits(nodes[i], d)
  PROVE  AllFit(Stages(nodes, i, d), d)
<1>1. CASE nodes[i].op \in BinOps
  <2>1. AllFit(OpBin(nodes, i, d), d)
    BY <1>1, BinFits
  <2>. QED BY <1>1, <2>1 DEF Stages, BinOps, UnaryOps
<1>2. CASE nodes[i].op \in UnaryOps
  <2>1. AllFit(OpUnary(nodes[i], d), d)
    BY <1>2, UnaryFits
  <2>. QED BY <1>2, <2>1 DEF Stages, UnaryOps, BinOps
<1>3. CASE nodes[i].op \in {"NORM", "RMS_NORM"}
  <2>1. AllFit(OpNorm(nodes, i, d), d)
    BY <1>3, NormFits
  <2>. QED BY <1>3, <2>1 DEF Stages, UnaryOps, BinOps
<1>4. CASE nodes[i].op \in {"CONCAT", "REPEAT", "GLU", "ADD_ID", "DIAG", "ROPE"}
  <2>. DEFINE op == nodes[i]
  <2>1. /\ op.op = "CONCAT" => AllFit(OpConcat(op, d), d)
        /\ AllFit(OpRepeat(op, d), d)
        /\ op.op = "GLU" => AllFit(OpGlu(op, d), d)
    BY ElementwiseFits
  <2>2. /\ op.op = "ADD_ID" => AllFit(OpAddId(op, d), d)
        /\ AllFit(OpDiag(op, d), d)
        /\ op.op = "ROPE" => AllFit(OpRope(op, d), d)
    BY ElementwiseFits
  <2>. QED BY <1>4, <2>1, <2>2 DEF Stages, BinOps, UnaryOps
<1>5. CASE nodes[i].op \in {"UPSCALE", "ROLL", "PAD", "PAD_REFLECT_1D", "ARANGE",
                            "TIMESTEP_EMBEDDING", "TRI", "CONV_TRANSPOSE_1D"}
  BY <1>5, ElementwiseFits
  DEF Stages, BinOps, UnaryOps
<1>6. CASE nodes[i].op \in {"SUM", "SUM_ROWS", "MEAN", "SOFT_MAX", "L2_NORM",
                            "GROUP_NORM", "ARGMAX", "SSM_SCAN", "COUNT_EQUAL"}
  BY <1>6, ReductionsFit
  DEF Stages, BinOps, UnaryOps
<1>7. CASE nodes[i].op \in {"DUP", "CPY", "CONT", "SET", "ACC"}
  BY <1>7, CopiesFitLimits
  DEF Stages, BinOps, UnaryOps
<1>8. CASE nodes[i].op \in {"POOL_1D", "POOL_2D", "OPT_STEP_ADAMW", "OPT_STEP_SGD",
                            "GET_ROWS", "CONV_2D", "CONV_3D"}
  BY <1>8, SharedOperationsFit
  DEF Stages, BinOps, UnaryOps
<1>9. CASE nodes[i].op \in {"SSM_CONV", "RWKV_WKV6", "RWKV_WKV7", "GATED_DELTA_NET",
                            "SOLVE_TRI", "IM2COL", "CONV_TRANSPOSE_2D"}
  BY <1>9, ShapedOperationsFit
  DEF Stages, BinOps, UnaryOps
<1>10. CASE nodes[i].op \in {"CUMSUM", "SET_ROWS", "MUL_MAT", "MUL_MAT_ID",
                             "FLASH_ATTN_EXT", "ARGSORT", "TOP_K"}
  BY <1>10, CumsumFits, SetRowsFit, MulMatFits, MulMatIdFits, AttentionFits, SortingFits
  DEF Stages, BinOps, UnaryOps
<1>. QED BY <1>1, <1>2, <1>3, <1>4, <1>5, <1>6, <1>7, <1>8, <1>9, <1>10 DEF EncodedOps

\* Every dispatch so far fits the device.
DispatchedFit == \A a \in dispatched : Fits(a.run, dev)

\* Every launch that is ever encoded has threads and groups, no more threads and group
\* memory than the device has, and what it writes behind the result fits the room
\* reserved for it, for operations within the limits the code takes for granted.
THEOREM LaunchesFit == ASSUME LimitsKept PROVE Spec => []LaunchFits
<1>1. Init => DispatchedFit
  BY DEF Init, DispatchedFit
<1>2. MetalTypeOK /\ DispatchedFit /\ [Next]_vars => DispatchedFit'
  <2>. SUFFICES ASSUME MetalTypeOK, DispatchedFit, [Next]_vars PROVE DispatchedFit'
    OBVIOUS
  <2>0. dev' = dev
    BY DEF Next, Skip, Encode, Execute, vars
  <2>1. ASSUME NEW e \in Encoders, Encode(e) PROVE DispatchedFit'
    <3>. DEFINE nodes  == Nodes(e)
                i      == next[e]
                stages == Stages(nodes, i, dev)
                first  == IF Joins(ranges[e], nodes, i, dev) THEN group[e] ELSE group[e] + 1
    <3>1. i \in DOMAIN nodes /\ nodes[i].compute
      BY <2>1, EncodingAssumption DEF Encode, Encoded, MetalTypeOK, Nodes
    <3>2. nodes[i].op \in EncodedOps
      BY <3>1, EncodingAssumption DEF MetalTypeOK, Nodes, Declared
    <3>3. WellShaped(nodes[i], dev)
      BY <3>1, ShapesAssumption DEF MetalTypeOK, Nodes
    <3>4. SmallKernels /\ WithinLimits(nodes[i], dev)
      BY <3>1, LimitsKept DEF MetalTypeOK, Nodes, LimitsKept
    <3>5. AllFit(stages, dev)
      <4>. HIDE DEF nodes, i
      <4>. QED BY <3>2, <3>3, <3>4, EveryStageFits
    <3>6. dispatched' = dispatched \cup Dispatches(e, i, stages, first)
      BY <2>1 DEF Encode
    <3>7. \A a \in Dispatches(e, i, stages, first) : Fits(a.run, dev)
      <4>. HIDE DEF stages, first
      <4>. QED BY <3>5 DEF Dispatches, AllFit
    <3>. HIDE DEF stages, first
    <3>8. \A a \in dispatched' : Fits(a.run, dev)
      BY <3>6, <3>7 DEF DispatchedFit
    <3>. QED BY <2>0, <3>8 DEF DispatchedFit
  <2>2. CASE UNCHANGED dispatched
    BY <2>0, <2>2 DEF DispatchedFit
  <2>. QED BY <2>1, <2>2 DEF Next, Skip, Execute, vars
<1>3. DispatchedFit => LaunchFits
  BY DEF DispatchedFit, LaunchFits, Fits, GridFits
<1>. QED BY MetalTypes, <1>1, <1>2, <1>3, PTL DEF Spec
===============================================================================
