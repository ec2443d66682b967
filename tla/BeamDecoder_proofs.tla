------------------------- MODULE BeamDecoder_proofs -------------------------
(* Proofs about the decoding of a window, for every number of decoders,       *)
(* tokens and cells: the cache never mixes hypotheses, leaks no cell, hides   *)
(* no token from the attention and always has a slot for the next batch.      *)
EXTENDS BeamDecoder, KvCache_proofs, FiniteSetTheorems, SequenceTheorems

\* In the cells c, sequence s attends to a history h of m positions: one cell
\* for each, with the prefix that ends there.
CachedIn(c, s, h, m) ==
  /\ \A k \in Slots : Attends(c, s, k) =>
       c[k].pos \in 0..(m - 1) /\ c[k].data = PrefixAt(h, c[k].pos)
  /\ \A pos \in 0..(m - 1) :
       \E k \in Slots : /\ Attends(c, s, k)
                        /\ \A l \in Slots :
                             Attends(c, s, l) => (c[l].pos = pos <=> l = k)

Cached(s, h, m) == CachedIn(cells, s, h, m)

\* Where a window is being decoded, there are decoders left; a hypothesis has
\* one token per decoded position, and one more once it is sampled.
HypothesesInv ==
  /\ step \in {"share", "sample", "copy", "swap", "update", "decode"} => Live # {}
  /\ step \in {"copy", "swap", "update", "decode"} => i < MaxTokens
  /\ step = "share" => i = 0 /\ Live = Decoders /\ hist = [j \in Decoders |-> <<>>]
  /\ step = "sample" => \A j \in Live : Len(hist[j]) = i
  /\ step = "copy" => \A j \in Live : /\ Len(cand[j]) = i
                                      /\ turn <= j => Len(hist[j]) = i
                                      /\ j < turn => Len(hist[j]) = i + 1
  /\ step \in {"swap", "update", "decode"} => \A j \in Live : Len(hist[j]) = i + 1

\* Who attends to a cell at each point of the step.
UsersInv ==
  /\ step = "share" => 1 <= turn /\ \A k \in Slots : cells[k].seqs \subseteq 0..(turn - 1)
  /\ step \in {"sample", "update", "decode"} =>
       \A k \in Slots : cells[k].seqs \subseteq Decoders
  /\ step = "copy" => \A k \in Slots :
       cells[k].seqs \subseteq Decoders \cup {Scratch(j) : j \in {l \in Live : l < turn}}
  /\ step = "swap" => \A k \in Slots :
       cells[k].seqs \subseteq Decoders \cup {Scratch(j) : j \in {l \in Live : turn <= l}}

\* What the sequences attend to at each point: the beams change hands in two
\* passes, from the sources to the scratch sequences, and from there back.
ContentsInv ==
  /\ step = "share" => \A j \in 0..(turn - 1) : Cached(j, <<>>, PromptLen)
  /\ step \in {"sample", "update", "decode"} =>
       \A j \in Live : Cached(j, hist[j], PromptLen + i)
  /\ step = "copy" => \A j \in Live :
       /\ Cached(j, cand[j], PromptLen + i)
       /\ j < turn => Cached(Scratch(j), hist[j], PromptLen + i)
  /\ step = "swap" => \A j \in Live :
       /\ j < turn => Cached(j, hist[j], PromptLen + i)
       /\ turn <= j => Cached(Scratch(j), hist[j], PromptLen + i)

\* The used cells, and the head, lie in what the batches so far could fill.
Extent == PromptLen + NDecoders * i
ExtentInv ==
  step \in {"share", "sample", "copy", "swap", "update", "decode"} =>
    head <= Extent /\ \A k \in Slots : InUse(cells, k) => k < Extent

\* The attention sees every used cell, from the decoding of a batch to the
\* sampling from it.
MaskInv ==
  step \in {"share", "sample"} => \A k \in Slots : InUse(cells, k) => k < n

DecInv ==
  /\ DecTypeOK /\ Owned(cells) /\ HypothesesInv /\ UsersInv /\ ContentsInv
  /\ ExtentInv /\ MaskInv /\ SlotIsFound

-----------------------------------------------------------------------------
(* Histories                                                                  *)

LEMMA ConstantsAreNumbers ==
  /\ Size \in Nat \ {0} /\ NDecoders \in Nat \ {0} /\ MaxDecoders \in Nat
  /\ NDecoders <= MaxDecoders /\ PromptLen \in Nat \ {0} /\ MaxTokens \in Nat
BY SizeAssumption, DecoderAssumption

\* A history is a sequence of at most one token more than a window has.
LEMMA HistoryIsSeq ==
  ASSUME NEW h
  PROVE  h \in Histories <=> h \in Seq(Tokens) /\ Len(h) <= MaxTokens + 1
<1>. PICK m \in Nat : m = MaxTokens + 1
  BY ConstantsAreNumbers
<1>1. ASSUME h \in Histories PROVE h \in Seq(Tokens) /\ Len(h) <= m
  <2>1. PICK k \in 0..m : h \in [1..k -> Tokens]
    BY <1>1 DEF Histories
  <2>2. h \in Seq(Tokens)
    BY <2>1, SeqDef
  <2>3. Len(h) = k
    BY <2>1, <2>2, LenProperties
  <2>. QED BY <2>2, <2>3
<1>2. ASSUME h \in Seq(Tokens), Len(h) <= m PROVE h \in Histories
  <2>1. Len(h) \in 0..m /\ h \in [1..Len(h) -> Tokens]
    BY <1>2, LenProperties
  <2>. QED BY <2>1 DEF Histories
<1>. QED BY <1>1, <1>2

\* A longer history has the prefixes of the history it goes on from.
LEMMA PrefixOfLonger ==
  ASSUME NEW h \in Seq(Tokens), NEW token \in Tokens,
         NEW pos \in 0..(PromptLen + Len(h) - 1)
  PROVE  PrefixAt(Append(h, token), pos) = PrefixAt(h, pos)
<1>. PICK P \in Nat : P = PromptLen
  BY ConstantsAreNumbers
<1>1. CASE pos < P
  BY <1>1 DEF PrefixAt
<1>2. CASE ~(pos < P)
  <2>. DEFINE q == pos - P + 1
              g == Append(h, token)
  <2>1. Len(h) \in Nat
    BY LenProperties
  <2>2. q \in 1..Len(h)
    BY <2>1, <1>2
  <2>3. /\ g \in Seq(Tokens) /\ Len(g) = Len(h) + 1
        /\ \A k \in 1..Len(h) : g[k] = h[k]
    BY AppendProperties
  <2>. HIDE DEF g, q
  <2>4. /\ \A k \in 1..q : g[k] \in Tokens
        /\ \A k \in 1..q : h[k] \in Tokens
    BY <2>1, <2>2, <2>3, ElementOfSeq
  <2>5. /\ SubSeq(g, 1, q) \in Seq(Tokens) /\ Len(SubSeq(g, 1, q)) = q
        /\ \A k \in 1..q : SubSeq(g, 1, q)[k] = g[k]
    BY <2>1, <2>2, <2>4, SubSeqProperties
  <2>6. /\ SubSeq(h, 1, q) \in Seq(Tokens) /\ Len(SubSeq(h, 1, q)) = q
        /\ \A k \in 1..q : SubSeq(h, 1, q)[k] = h[k]
    BY <2>1, <2>2, <2>4, SubSeqProperties
  <2>7. SubSeq(g, 1, q) = SubSeq(h, 1, q)
    <3>1. \A k \in 1..q : SubSeq(g, 1, q)[k] = SubSeq(h, 1, q)[k]
      BY <2>1, <2>2, <2>3, <2>5, <2>6
    <3>. QED BY <3>1, <2>5, <2>6, SeqEqual
  <2>. QED BY <2>7, <1>2 DEF PrefixAt, g, q
<1>. QED BY <1>1, <1>2

\* The prefix at the last position is the whole history.
LEMMA PrefixAtEnd ==
  ASSUME NEW h \in Seq(Tokens), Len(h) # 0
  PROVE  PrefixAt(h, PromptLen + Len(h) - 1) = h
<1>. PICK P \in Nat : P = PromptLen
  BY ConstantsAreNumbers
<1>1. Len(h) \in Nat \ {0}
  BY LenProperties
<1>2. ~(P + Len(h) - 1 < P) /\ P + Len(h) - 1 - P + 1 = Len(h)
  BY <1>1
<1>3. SubSeq(h, 1, Len(h)) = h
  BY SubSeqFull
<1>. QED BY <1>2, <1>3 DEF PrefixAt

-----------------------------------------------------------------------------
(* What a sequence attends to                                                 *)

\* Sequence t of cells d attends to what sequence s of cells c does.
LEMMA CachedMoves ==
  ASSUME NEW c, NEW d, NEW s, NEW t, NEW h, NEW m,
         \A k \in Slots : /\ Attends(d, t, k) <=> Attends(c, s, k)
                          /\ Attends(c, s, k) => SameToken(c, d, k),
         CachedIn(c, s, h, m)
  PROVE  CachedIn(d, t, h, m)
<1>1. ASSUME NEW k \in Slots, Attends(d, t, k)
      PROVE  d[k].pos \in 0..(m - 1) /\ d[k].data = PrefixAt(h, d[k].pos)
  BY <1>1 DEF CachedIn, SameToken
<1>2. ASSUME NEW pos \in 0..(m - 1)
      PROVE  \E k \in Slots : /\ Attends(d, t, k)
                              /\ \A l \in Slots :
                                   Attends(d, t, l) => (d[l].pos = pos <=> l = k)
  <2>1. PICK k \in Slots : /\ Attends(c, s, k)
                           /\ \A l \in Slots :
                                Attends(c, s, l) => (c[l].pos = pos <=> l = k)
    BY DEF CachedIn
  <2>2. ASSUME NEW l \in Slots, Attends(d, t, l) PROVE d[l].pos = pos <=> l = k
    BY <2>1, <2>2 DEF SameToken
  <2>. QED BY <2>1, <2>2
<1>. QED BY <1>1, <1>2 DEF CachedIn

\* A sampled token changes nothing of what is cached so far.
LEMMA CachedBySampling ==
  ASSUME NEW c, NEW s, NEW h \in Seq(Tokens), NEW token \in Tokens,
         CachedIn(c, s, h, PromptLen + Len(h))
  PROVE  CachedIn(c, s, Append(h, token), PromptLen + Len(h))
<1>. PICK m \in Nat : m = PromptLen + Len(h)
  BY LenProperties, ConstantsAreNumbers
<1>1. \A pos \in 0..(m - 1) : PrefixAt(Append(h, token), pos) = PrefixAt(h, pos)
  <2>1. ASSUME NEW pos \in 0..(PromptLen + Len(h) - 1)
        PROVE  PrefixAt(Append(h, token), pos) = PrefixAt(h, pos)
    BY PrefixOfLonger
  <2>2. 0..(m - 1) = 0..(PromptLen + Len(h) - 1)
    BY ConstantsAreNumbers, LenProperties
  <2>. QED BY <2>1, <2>2
<1>2. CachedIn(c, s, h, m)
  OBVIOUS
<1>3. CachedIn(c, s, Append(h, token), m)
  BY <1>1, <1>2 DEF CachedIn
<1>. QED BY <1>3

\* A cell for the next position, with the whole history, makes the history
\* one position longer.
LEMMA CachedByDecoding ==
  ASSUME NEW c, NEW d, NEW s, NEW h \in Seq(Tokens), Len(h) # 0, NEW new \in Slots,
         \A k \in Slots : /\ Attends(d, s, k) <=> (Attends(c, s, k) \/ k = new)
                          /\ Attends(c, s, k) => SameToken(c, d, k),
         ~Attends(c, s, new),
         d[new].pos = PromptLen + Len(h) - 1, d[new].data = h,
         CachedIn(c, s, h, PromptLen + Len(h) - 1)
  PROVE  CachedIn(d, s, h, PromptLen + Len(h))
<1>. PICK P \in Nat : P = PromptLen
  BY ConstantsAreNumbers
<1>. PICK m \in Nat : m = P + Len(h) - 1
  <2>1. Len(h) \in Nat \ {0}
    BY LenProperties
  <2>2. P + Len(h) - 1 \in Nat
    BY <2>1
  <2>. QED BY <2>2
<1>1. P + Len(h) = m + 1
  <2>1. Len(h) \in Nat
    BY LenProperties
  <2>. QED BY <2>1
<1>2. PrefixAt(h, m) = h
  BY PrefixAtEnd
<1>3. ASSUME NEW k \in Slots, Attends(d, s, k)
      PROVE  d[k].pos \in 0..m /\ d[k].data = PrefixAt(h, d[k].pos)
  <2>1. CASE k = new
    BY <2>1, <1>2
  <2>2. CASE k # new
    <3>1. Attends(c, s, k) /\ SameToken(c, d, k)
      BY <2>2, <1>3
    <3>2. c[k].pos \in 0..(m - 1) /\ c[k].data = PrefixAt(h, c[k].pos)
      BY <3>1 DEF CachedIn
    <3>. QED BY <3>1, <3>2 DEF SameToken
  <2>. QED BY <2>1, <2>2
<1>4. ASSUME NEW pos \in 0..m
      PROVE  \E k \in Slots : /\ Attends(d, s, k)
                              /\ \A l \in Slots :
                                   Attends(d, s, l) => (d[l].pos = pos <=> l = k)
  <2>1. \A l \in Slots : Attends(c, s, l) => d[l].pos = c[l].pos /\ c[l].pos \in 0..(m - 1)
    BY DEF CachedIn, SameToken
  <2>2. CASE pos = m
    <3>1. \A l \in Slots : Attends(d, s, l) => (d[l].pos = m <=> l = new)
      BY <2>1
    <3>. QED BY <3>1, <2>2
  <2>3. CASE pos # m
    <3>1. PICK k \in Slots : /\ Attends(c, s, k)
                             /\ \A l \in Slots :
                                  Attends(c, s, l) => (c[l].pos = pos <=> l = k)
      <4>1. pos \in 0..(m - 1)
        BY <2>3
      <4>. QED BY <4>1 DEF CachedIn
    <3>2. \A l \in Slots : Attends(d, s, l) => (d[l].pos = pos <=> l = k)
      BY <2>1, <2>3, <3>1
    <3>. QED BY <3>1, <3>2
  <2>. QED BY <2>2, <2>3
<1>. QED BY <1>1, <1>3, <1>4 DEF CachedIn

-----------------------------------------------------------------------------
(* Live decoders and their batch                                              *)

\* The elements of a finite set of numbers in their order: the number of smaller
\* ones takes every value below the size of the set, once.
LEMMA RankIsOrder ==
  ASSUME NEW L \in SUBSET Nat, IsFiniteSet(L)
  PROVE  LET Rank(j) == Cardinality({l \in L : l < j})
             size    == Cardinality(L)
         IN  /\ size \in Nat
             /\ \A j \in L : Rank(j) \in 0..(size - 1)
             /\ \A j, k \in L : Rank(j) = Rank(k) => j = k
             /\ \A r \in 0..(size - 1) : \E j \in L : Rank(j) = r
<1>. DEFINE Below(j) == {l \in L : l < j}
            Rank(j)  == Cardinality(Below(j))
            size     == Cardinality(L)
            f        == [j \in L |-> Rank(j)]
<1>1. size \in Nat
  BY FS_CardinalityType
<1>2. ASSUME NEW j \in L
      PROVE  /\ IsFiniteSet(Below(j)) /\ Rank(j) \in Nat
             /\ IsFiniteSet(Below(j) \cup {j}) /\ Cardinality(Below(j) \cup {j}) = Rank(j) + 1
             /\ Rank(j) \in 0..(size - 1)
  <2>1. IsFiniteSet(Below(j)) /\ Rank(j) \in Nat
    BY FS_Subset, FS_CardinalityType, Below(j) \in SUBSET L
  <2>2. j \notin Below(j)
    OBVIOUS
  <2>3. /\ IsFiniteSet(Below(j) \cup {j})
        /\ Cardinality(Below(j) \cup {j}) = Rank(j) + 1
    <3>. HIDE DEF Below
    <3>. QED BY <2>1, <2>2, FS_AddElement
  <2>4. Cardinality(Below(j) \cup {j}) <= size
    <3>1. Below(j) \cup {j} \in SUBSET L
      OBVIOUS
    <3>. HIDE DEF Below
    <3>. QED BY <3>1, FS_Subset
  <2>. HIDE DEF Below, Rank, size
  <2>. QED BY <1>1, <2>1, <2>3, <2>4
<1>3. ASSUME NEW j \in L, NEW k \in L, j < k PROVE Rank(j) < Rank(k)
  <2>1. Below(j) \cup {j} \in SUBSET Below(k)
    <3>1. j \in Nat /\ k \in Nat /\ \A l \in Below(j) : l \in Nat /\ l < j
      OBVIOUS
    <3>2. \A l \in Below(j) : l < k
      BY <3>1, <1>3
    <3>. QED BY <3>2, <1>3
  <2>2. Cardinality(Below(j) \cup {j}) <= Rank(k)
    <3>1. IsFiniteSet(Below(k))
      BY <1>2
    <3>. HIDE DEF Below
    <3>. QED BY <2>1, <3>1, FS_Subset DEF Rank
  <2>3. /\ Cardinality(Below(j) \cup {j}) = Rank(j) + 1
        /\ Rank(j) \in Nat /\ Rank(k) \in Nat
    BY <1>2
  <2>. HIDE DEF Below, Rank
  <2>. QED BY <2>2, <2>3
<1>4. ASSUME NEW j \in L, NEW k \in L, Rank(j) = Rank(k) PROVE j = k
  <2>1. j \in Nat /\ k \in Nat /\ Rank(j) \in Nat /\ Rank(k) \in Nat
    BY <1>2
  <2>. HIDE DEF Rank
  <2>2. ~(j < k) /\ ~(k < j)
    BY <1>3, <1>4, <2>1
  <2>. QED BY <2>1, <2>2
<1>5. \A r \in 0..(size - 1) : \E j \in L : Rank(j) = r
  <2>1. f \in Injection(L, 0..(size - 1))
    <3>1. f \in [L -> 0..(size - 1)]
      <4>. HIDE DEF Rank, size
      <4>. QED BY <1>2
    <3>2. \A j, k \in L : f[j] = f[k] => j = k
      <4>. HIDE DEF Rank
      <4>. QED BY <1>4
    <3>. HIDE DEF f, size
    <3>. QED BY <3>1, <3>2 DEF Injection, IsInjective
  <2>2. IsFiniteSet(0..(size - 1)) /\ Cardinality(0..(size - 1)) = size
    <3>. HIDE DEF size
    <3>. QED BY <1>1, FS_Interval
  <2>3. f \in Surjection(L, 0..(size - 1))
    <3>. HIDE DEF f
    <3>. QED BY <2>1, <2>2, FS_Injection
  <2>. QED BY <2>3 DEF Surjection
<1>. QED BY <1>1, <1>2, <1>4, <1>5

\* The batch has one entry for every live decoder.
LEMMA BatchIsLive ==
  LET size == Cardinality(Live)
  IN  /\ size \in 0..NDecoders /\ (Live # {} => size # 0)
      /\ \A k \in 0..(size - 1) : NthLive(k) \in Live
      /\ \A j \in Live : \E k \in 0..(size - 1) :
           NthLive(k) = j /\ \A l \in 0..(size - 1) : NthLive(l) = j => l = k
<1>. DEFINE Rank(j) == Cardinality({l \in Live : l < j})
            size    == Cardinality(Live)
<1>. PICK D \in Nat \ {0} : D = NDecoders
  BY ConstantsAreNumbers
<1>1. IsFiniteSet(Decoders) /\ Cardinality(Decoders) = D
  BY FS_Interval DEF Decoders
<1>2. Live \in SUBSET Decoders /\ Live \in SUBSET Nat
  BY DEF Live, Decoders
<1>3. IsFiniteSet(Live) /\ size <= D
  BY <1>1, <1>2, FS_Subset
<1>4. /\ size \in Nat
      /\ \A j \in Live : Rank(j) \in 0..(size - 1)
      /\ \A j, k \in Live : Rank(j) = Rank(k) => j = k
      /\ \A r \in 0..(size - 1) : \E j \in Live : Rank(j) = r
  BY <1>2, <1>3, RankIsOrder
<1>5. Live # {} => size # 0
  BY <1>3, FS_EmptySet
<1>6. ASSUME NEW k \in 0..(size - 1)
      PROVE  NthLive(k) \in Live /\ Rank(NthLive(k)) = k
  BY <1>4 DEF NthLive
<1>7. ASSUME NEW j \in Live
      PROVE  \E k \in 0..(size - 1) :
               NthLive(k) = j /\ \A l \in 0..(size - 1) : NthLive(l) = j => l = k
  <2>1. Rank(j) \in 0..(size - 1)
    BY <1>4
  <2>2. NthLive(Rank(j)) = j
    <3>. HIDE DEF Rank, size
    <3>. QED BY <2>1, <1>4, <1>6
  <2>3. \A l \in 0..(size - 1) : NthLive(l) = j => l = Rank(j)
    <3>. HIDE DEF Rank, size
    <3>. QED BY <1>6
  <2>. HIDE DEF Rank
  <2>. QED BY <2>1, <2>2, <2>3
<1>8. size \in 0..NDecoders
  <2>. HIDE DEF size
  <2>. QED BY <1>3, <1>4
<1>9. \A k \in 0..(size - 1) : NthLive(k) \in Live
  BY <1>6
<1>. QED BY <1>5, <1>7, <1>8, <1>9

\* There are cells for the prompt and for one more batch before each step.
LEMMA RoomForBatches ==
  /\ PromptLen <= Size
  /\ \A k \in 0..(MaxTokens - 1) : PromptLen + NDecoders * k + NDecoders <= Size
<1>1. ASSUME NEW a \in Nat, NEW m \in Nat, NEW k \in 0..(m - 1) PROVE a * k + a <= a * m
  <2>1. a * m = a * k + a * (m - k)
    OBVIOUS
  <2>2. m - k >= 1
    OBVIOUS
  <2>3. \A b \in Nat \ {0} : a * b >= a
    OBVIOUS
  <2>. QED BY <2>1, <2>2, <2>3
<1>2. Size >= PromptLen + NDecoders * MaxTokens
  BY DecoderAssumption, Zenon
<1>. PICK p \in Nat : p = NDecoders * MaxTokens
  BY ConstantsAreNumbers
<1>3. ASSUME NEW k \in 0..(MaxTokens - 1)
      PROVE  PromptLen + NDecoders * k + NDecoders <= Size
  <2>1. NDecoders * k + NDecoders <= p
    BY <1>1, ConstantsAreNumbers
  <2>. PICK q \in Nat : q = NDecoders * k
    BY ConstantsAreNumbers
  <2>. QED BY <1>2, <2>1, ConstantsAreNumbers
<1>. QED BY <1>2, <1>3, ConstantsAreNumbers

-----------------------------------------------------------------------------
(* The invariant is inductive                                                 *)

Seqs == 0..(2 * MaxDecoders - 1)

\* Types of the state, as the lemmas about the cache want them.
LEMMA CellsAreTyped ==
  ASSUME DecTypeOK
  PROVE  cells \in Cells(Seqs, Histories)
BY DEF DecTypeOK, Cells, Seqs

LEMMA AttendsIsMember ==
  ASSUME NEW c, Owned(c), NEW k \in Slots, NEW s
  PROVE  s \in c[k].seqs <=> Attends(c, s, k)
BY DEF Owned, Attends

\* Decoders and scratch sequences are sequences, and all different.
LEMMA ScratchIsApart ==
  /\ Decoders \subseteq Seqs /\ Decoders \subseteq 0..NDecoders
  /\ \A j \in Decoders : Scratch(j) \in Seqs /\ Scratch(j) \notin Decoders
  /\ \A j, k \in Decoders : Scratch(j) = Scratch(k) => j = k
BY ConstantsAreNumbers DEF Decoders, Seqs, Scratch

LEMMA ExtentIsNumber ==
  ASSUME DecTypeOK
  PROVE  Extent \in Nat
<1>1. i \in Nat
  BY DEF DecTypeOK
<1>2. NDecoders * i \in Nat
  BY <1>1, ConstantsAreNumbers
<1>. QED BY <1>2, ConstantsAreNumbers DEF Extent

LEMMA EmptyHistory == <<>> \in Histories /\ Len(<<>>) = 0
<1>1. <<>> \in Seq(Tokens) /\ Len(<<>>) = 0
  BY EmptySeq
<1>2. Len(<<>>) <= MaxTokens + 1
  BY <1>1, ConstantsAreNumbers
<1>. QED BY <1>1, <1>2, HistoryIsSeq

\* A history that may grow by a token.
LEMMA LongerHistory ==
  ASSUME NEW h \in Histories, NEW token \in Tokens, Len(h) < MaxTokens
  PROVE  /\ h \in Seq(Tokens) /\ Append(h, token) \in Histories
         /\ Len(Append(h, token)) = Len(h) + 1
<1>1. h \in Seq(Tokens) /\ Len(h) \in Nat
  BY HistoryIsSeq, LenProperties
<1>2. Append(h, token) \in Seq(Tokens) /\ Len(Append(h, token)) = Len(h) + 1
  BY <1>1, AppendProperties
<1>3. Len(Append(h, token)) <= MaxTokens + 1
  BY <1>1, <1>2, ConstantsAreNumbers
<1>. QED BY <1>1, <1>2, <1>3, HistoryIsSeq

LEMMA DecInitInv == DecInit => DecInv
<1>. SUFFICES ASSUME DecInit PROVE DecInv
  OBVIOUS
<1>. USE DEF DecInit
<1>1. cells \in [Slots -> [pos : Int, seqs : SUBSET Seqs, data : Histories]]
  BY EmptyHistory DEF FreeCell
<1>2. DecTypeOK
  BY <1>1, EmptyHistory, ConstantsAreNumbers, DecoderAssumption DEF DecTypeOK, Seqs
<1>3. Owned(cells)
  BY DEF Owned, InUse, FreeCell
<1>. QED BY <1>2, <1>3
     DEF DecInv, HypothesesInv, UsersInv, ContentsInv, ExtentInv, MaskInv, SlotIsFound

\* The prompt finds the first cells, one for each of its tokens.
LEMMA PromptInv ==
  ASSUME DecInv, Prompt
  PROVE  DecInv'
<1>. PICK P \in Nat \ {0} : P = PromptLen
  BY ConstantsAreNumbers
<1>. DEFINE clear == Cleared(cells)
            batch == [k \in 0..(PromptLen - 1) |->
                        [pos |-> k, seqs |-> {0}, data |-> <<>>]]
            slot  == FindSlot(clear, 0, PromptLen)
<1>1. cells \in Cells(Seqs, Histories)
  BY CellsAreTyped DEF DecInv
<1>2. /\ clear \in Cells(Seqs, Histories) /\ Owned(clear)
      /\ \A k \in Slots : ~InUse(clear, k)
  BY <1>1 DEF Cleared, Cells, FreeCell, Owned, InUse
<1>3. P <= Size
  BY RoomForBatches
<1>. HIDE DEF clear
<1>0. 0 \in Slots /\ FreeRun(clear, 0, P)
  BY <1>2, <1>3, ConstantsAreNumbers DEF FreeRun, Slots
<1>4. slot.found /\ slot.head = 0
  <2>2. /\ slot.head \in 0..Size /\ slot.found \in BOOLEAN
        /\ slot.found <=> \E h \in Slots : FreeRun(clear, h, P)
        /\ \A h \in Slots : 0 <= h /\ FreeRun(clear, h, P) => slot.head <= h
    BY SlotSearchIsFirstFit, ConstantsAreNumbers, P \in Nat \ {0}, 0 \in 0..Size
  <2>. HIDE DEF slot
  <2>. QED BY <1>0, <2>2
<1>5. /\ head' = 0 /\ cells' = Written(clear, 0, batch)
      /\ n' = CellMax(cells') /\ step' = "share"
      /\ hist' = [j \in Decoders |-> <<>>] /\ status' = [j \in Decoders |-> "live"]
      /\ turn' = 1 /\ i' = 0 /\ UNCHANGED <<cand, round, beamSearch>>
  BY <1>4 DEF Prompt, clear
<1>6. batch \in [0..(P - 1) -> [pos : Nat, seqs : (SUBSET Seqs) \ {{}}, data : Histories]]
  <2>1. 0 \in Seqs
    BY ConstantsAreNumbers DEF Seqs
  <2>. QED BY <2>1, EmptyHistory
<1>7. /\ cells' \in Cells(Seqs, Histories) /\ Owned(cells')
      /\ HoldsBatch(clear, cells', 0, P, batch)
      /\ \A b \in 0..(P - 1) : b \in Slots
  <2>. HIDE DEF batch
  <2>1. P \in Nat
    OBVIOUS
  <2>2. \A b \in 0..(P - 1) : b \in Slots
    BY <1>3, ConstantsAreNumbers DEF Slots
  <2>3. /\ Written(clear, 0, batch) \in Cells(Seqs, Histories)
        /\ Owned(Written(clear, 0, batch))
        /\ HoldsBatch(clear, Written(clear, 0, batch), 0, P, batch)
    BY <1>2, <1>6, <1>0, <2>1, WrittenHoldsBatch
  <2>. QED BY <1>5, <2>2, <2>3
<1>8. ASSUME NEW k \in Slots
      PROVE  IF k < P
             THEN cells'[k].pos = k /\ cells'[k].seqs = {0} /\ cells'[k].data = <<>>
             ELSE ~InUse(cells', k) /\ cells'[k].seqs = {}
  <2>1. CASE k < P
    <3>1. k \in 0..(P - 1) /\ k - 0 = k
      BY <2>1 DEF Slots
    <3>2. cells'[k] = [pos |-> k, seqs |-> {0}, data |-> <<>>]
      BY <3>1, <1>7 DEF HoldsBatch
    <3>. QED BY <3>2, <2>1
  <2>2. CASE ~(k < P)
    <3>0. k \in Nat /\ k - 0 = k /\ ~(k - 0 \in 0..(P - 1))
      BY <2>2, ConstantsAreNumbers DEF Slots
    <3>1. cells'[k] = clear[k]
      BY <3>0, <1>7 DEF HoldsBatch
    <3>. QED BY <3>1, <2>2, <1>2 DEF InUse, Owned
  <2>. QED BY <2>1, <2>2
<1>9. ASSUME NEW k \in Slots, NEW s
      PROVE  Attends(cells', s, k) <=> k < P /\ s = 0
  <2>1. CASE k < P
    <3>1. cells'[k].pos = k /\ cells'[k].seqs = {0}
      BY <2>1, <1>8
    <3>. QED BY <3>1, <2>1 DEF Attends, InUse, Slots
  <2>2. CASE ~(k < P)
    BY <2>2, <1>8 DEF Attends
  <2>. QED BY <2>1, <2>2
<1>10. CellMax(cells') \in 1..Size /\ \A k \in Slots : InUse(cells', k) => k < CellMax(cells')
  BY <1>7, CellMaxCovers DEF Owned
<1>. HIDE DEF batch, slot
<1>11. DecTypeOK'
  <2>1. cells' \in [Slots -> [pos : Int, seqs : SUBSET (0..(2 * MaxDecoders - 1)),
                              data : Histories]]
    BY <1>7 DEF Cells, Seqs
  <2>. QED BY <2>1, <1>5, <1>10, EmptyHistory, ConstantsAreNumbers DEF DecInv, DecTypeOK
<1>12. Live' = Decoders
  BY <1>5 DEF Live
<1>13. HypothesesInv'
  <2>1. 0 \in Decoders
    BY ConstantsAreNumbers DEF Decoders
  <2>. QED BY <2>1, <1>5, <1>12 DEF HypothesesInv
<1>14. UsersInv'
  <2>1. ASSUME NEW k \in Slots, NEW s \in cells'[k].seqs PROVE s \in 0..(turn' - 1)
    BY <2>1, <1>5, <1>7, <1>9, AttendsIsMember
  <2>. QED BY <2>1, <1>5 DEF UsersInv
<1>15. ContentsInv'
  <2>1. CachedIn(cells', 0, <<>>, PromptLen)
    <3>1. ASSUME NEW k \in Slots, Attends(cells', 0, k)
          PROVE  /\ cells'[k].pos = k /\ k \in 0..(P - 1)
                 /\ cells'[k].data = PrefixAt(<<>>, cells'[k].pos)
      <4>1. k < P
        BY <3>1, <1>9
      <4>2. cells'[k].pos = k /\ cells'[k].data = <<>>
        BY <4>1, <1>8
      <4>. QED BY <4>1, <4>2 DEF PrefixAt, Slots
    <3>2. ASSUME NEW pos \in 0..(P - 1)
          PROVE  pos \in Slots /\ Attends(cells', 0, pos)
      BY <1>7, <1>9
    <3>. QED BY <3>1, <3>2 DEF CachedIn
  <2>2. \A j \in 0..(turn' - 1) : j = 0
    BY <1>5
  <2>. QED BY <2>1, <2>2, <1>5 DEF ContentsInv, Cached
<1>16. ExtentInv'
  <2>1. Extent' = P
    BY <1>5, ConstantsAreNumbers DEF Extent
  <2>2. \A k \in Slots : InUse(cells', k) => k < P
    BY <1>8
  <2>. QED BY <2>1, <2>2, <1>5 DEF ExtentInv
<1>17. MaskInv' /\ SlotIsFound'
  BY <1>5, <1>10 DEF MaskInv, SlotIsFound
<1>. QED BY <1>7, <1>11, <1>13, <1>14, <1>15, <1>16, <1>17 DEF DecInv

\* A decoder's copy of the prompt is what decoder 0 attends to; the others keep
\* theirs.
LEMMA ShareInv ==
  ASSUME DecInv, Share
  PROVE  DecInv'
<1>. USE DEF DecInv
<1>1. /\ step = "share" /\ turn \in Decoders /\ turn \in Nat /\ 1 <= turn
      /\ cells' = SeqCp(cells, 0, turn) /\ head' = 0 /\ turn' = turn + 1
      /\ UNCHANGED <<n, hist, status, cand, step, i, round, beamSearch>>
  BY DEF Share, UsersInv, Decoders
<1>2. cells \in Cells(Seqs, Histories) /\ turn \in Seqs
  BY <1>1, CellsAreTyped, ScratchIsApart
<1>3. /\ cells' \in Cells(Seqs, Histories) /\ Owned(cells')
      /\ \A k \in Slots :
           /\ SameToken(cells, cells', k) /\ (InUse(cells', k) <=> InUse(cells, k))
           /\ \A s : Attends(cells', s, k)
                     <=> (Attends(cells, s, k) \/ (s = turn /\ Attends(cells, 0, k)))
  BY <1>1, <1>2, SeqCpShares
<1>4. \A k \in Slots, s \in Nat : Attends(cells, s, k) => s < turn
  BY <1>1, AttendsIsMember DEF UsersInv
<1>5. DecTypeOK'
  <2>1. cells' \in [Slots -> [pos : Int, seqs : SUBSET (0..(2 * MaxDecoders - 1)),
                              data : Histories]]
    BY <1>3 DEF Cells, Seqs
  <2>2. turn' \in 0..NDecoders /\ 0 \in 0..Size
    BY <1>1, ConstantsAreNumbers DEF Decoders
  <2>. QED BY <2>1, <2>2, <1>1 DEF DecTypeOK
<1>6. Live' = Live
  BY <1>1 DEF Live
<1>7. HypothesesInv'
  BY <1>1, <1>6 DEF HypothesesInv
<1>8. UsersInv'
  <2>1. ASSUME NEW k \in Slots, NEW s \in cells'[k].seqs PROVE s \in 0..turn
    <3>1. Attends(cells', s, k)
      BY <1>3, AttendsIsMember
    <3>2. Attends(cells, s, k) => s \in 0..(turn - 1)
      BY <1>1, AttendsIsMember DEF UsersInv
    <3>. QED BY <3>1, <3>2, <1>1, <1>3
  <2>2. turn' - 1 = turn /\ 1 <= turn'
    BY <1>1
  <2>. QED BY <2>1, <2>2, <1>1 DEF UsersInv
<1>9. ContentsInv'
  <2>1. ASSUME NEW j \in 0..turn PROVE CachedIn(cells', j, <<>>, PromptLen)
    <3>1. CASE j = turn
      <4>1. CachedIn(cells, 0, <<>>, PromptLen)
        BY <1>1 DEF ContentsInv, Cached
      <4>2. \A k \in Slots : /\ Attends(cells', turn, k) <=> Attends(cells, 0, k)
                             /\ Attends(cells, 0, k) => SameToken(cells, cells', k)
        BY <1>1, <1>3, <1>4
      <4>. QED BY <4>1, <4>2, <3>1, CachedMoves
    <3>2. CASE j # turn
      <4>1. CachedIn(cells, j, <<>>, PromptLen)
        BY <3>2, <1>1 DEF ContentsInv, Cached
      <4>2. \A k \in Slots : /\ Attends(cells', j, k) <=> Attends(cells, j, k)
                             /\ Attends(cells, j, k) => SameToken(cells, cells', k)
        BY <1>3, <3>2
      <4>. QED BY <4>1, <4>2, CachedMoves
    <3>. QED BY <3>1, <3>2
  <2>2. turn' - 1 = turn
    BY <1>1
  <2>. QED BY <2>1, <2>2, <1>1 DEF ContentsInv, Cached
<1>10. ExtentInv'
  <2>1. Extent \in Nat
    BY ExtentIsNumber
  <2>2. Extent' = Extent
    BY <1>1 DEF Extent
  <2>. QED BY <2>1, <2>2, <1>1, <1>3 DEF ExtentInv
<1>11. MaskInv' /\ SlotIsFound'
  BY <1>1, <1>3 DEF MaskInv, SlotIsFound
<1>. QED BY <1>3, <1>5, <1>7, <1>8, <1>9, <1>10, <1>11

LEMMA SharedInv ==
  ASSUME DecInv, Shared
  PROVE  DecInv'
<1>. USE DEF DecInv
<1>1. /\ step = "share" /\ turn = NDecoders /\ step' = "sample"
      /\ UNCHANGED <<cells, head, n, hist, status, cand, turn, i, round, beamSearch>>
  BY ConstantsAreNumbers DEF Shared, DecTypeOK, Decoders
<1>2. DecTypeOK' /\ Owned(cells')
  BY <1>1 DEF DecTypeOK
<1>3. Live' = Live /\ Live = Decoders
  BY <1>1 DEF Live, HypothesesInv
<1>4. HypothesesInv'
  BY <1>1, <1>3, EmptyHistory DEF HypothesesInv
<1>5. UsersInv'
  BY <1>1 DEF UsersInv, Decoders
<1>6. ContentsInv'
  <2>1. \A j \in Decoders : CachedIn(cells, j, <<>>, PromptLen)
    BY <1>1 DEF ContentsInv, Cached, Decoders
  <2>2. PromptLen + i = PromptLen /\ hist = [j \in Decoders |-> <<>>]
    BY <1>1, ConstantsAreNumbers DEF HypothesesInv
  <2>. QED BY <2>1, <2>2, <1>1, <1>3 DEF ContentsInv, Cached
<1>7. ExtentInv' /\ MaskInv' /\ SlotIsFound'
  BY <1>1 DEF ExtentInv, MaskInv, SlotIsFound, Extent
<1>. QED BY <1>2, <1>4, <1>5, <1>6, <1>7

\* A sampled token makes the hypotheses longer than what is cached; with beam
\* search the candidates are the hypotheses as they are.
LEMMA SampleInv ==
  ASSUME DecInv, Sample
  PROVE  DecInv'
<1>. USE DEF DecInv
<1>1. /\ step = "sample" /\ i < MaxTokens /\ i \in Nat /\ turn' = 0
      /\ UNCHANGED <<cells, head, n, status, i, round, beamSearch>>
  BY DEF Sample, DecTypeOK
<1>2. Live' = Live /\ Live \subseteq Decoders
  BY <1>1 DEF Live
<1>3. Owned(cells') /\ 0 \in 0..NDecoders
  BY <1>1, ConstantsAreNumbers
<1>4. CASE beamSearch
  <2>1. cand' = hist /\ step' = "copy" /\ hist' = hist
    BY <1>4 DEF Sample
  <2>2. DecTypeOK'
    BY <2>1, <1>1, <1>3 DEF DecTypeOK
  <2>3. \A j \in Live : ~(j < 0)
    BY <1>2 DEF Decoders
  <2>4. HypothesesInv'
    BY <2>1, <2>3, <1>1, <1>2 DEF HypothesesInv
  <2>5. UsersInv'
    BY <2>1, <1>1 DEF UsersInv
  <2>6. ContentsInv'
    BY <2>1, <2>3, <1>1, <1>2 DEF ContentsInv, Cached
  <2>7. ExtentInv' /\ MaskInv' /\ SlotIsFound'
    BY <2>1, <1>1 DEF ExtentInv, MaskInv, SlotIsFound, Extent
  <2>. QED BY <2>2, <2>4, <2>5, <2>6, <2>7, <1>3
<1>5. CASE ~beamSearch
  <2>1. PICK token \in [Live -> Tokens] :
          /\ hist' = [j \in Decoders |-> IF j \in Live THEN Append(hist[j], token[j])
                                         ELSE hist[j]]
          /\ step' = "update" /\ UNCHANGED cand
    BY <1>5 DEF Sample
  <2>2. ASSUME NEW j \in Live
        PROVE  /\ hist[j] \in Seq(Tokens) /\ Len(hist[j]) = i /\ token[j] \in Tokens
               /\ hist'[j] = Append(hist[j], token[j])
               /\ hist'[j] \in Histories /\ Len(hist'[j]) = i + 1
    <3>1. hist[j] \in Histories /\ Len(hist[j]) = i /\ token[j] \in Tokens
      BY <1>1, <1>2 DEF DecTypeOK, HypothesesInv
    <3>2. hist'[j] = Append(hist[j], token[j])
      BY <2>1, <1>2
    <3>. QED BY <3>1, <3>2, <1>1, LongerHistory
  <2>3. DecTypeOK'
    <3>1. hist' \in [Decoders -> Histories]
      BY <2>1, <2>2 DEF DecTypeOK
    <3>. QED BY <3>1, <2>1, <1>1, <1>3 DEF DecTypeOK
  <2>4. HypothesesInv'
    BY <2>1, <2>2, <1>1, <1>2 DEF HypothesesInv
  <2>5. UsersInv'
    BY <2>1, <1>1 DEF UsersInv
  <2>6. ContentsInv'
    <3>1. ASSUME NEW j \in Live
          PROVE  CachedIn(cells, j, hist'[j], PromptLen + i)
      <4>1. CachedIn(cells, j, hist[j], PromptLen + Len(hist[j]))
        BY <1>1, <2>2 DEF ContentsInv, Cached
      <4>. QED BY <4>1, <2>2, CachedBySampling
    <3>. QED BY <3>1, <2>1, <1>1, <1>2 DEF ContentsInv, Cached
  <2>7. ExtentInv' /\ MaskInv' /\ SlotIsFound'
    BY <2>1, <1>1 DEF ExtentInv, MaskInv, SlotIsFound, Extent
  <2>. QED BY <2>3, <2>4, <2>5, <2>6, <2>7, <1>3
<1>. QED BY <1>4, <1>5

\* The scratch sequence of the decoder whose turn it is attends to what the
\* source of its candidate does.
LEMMA CopyInv ==
  ASSUME DecInv, Copy
  PROVE  DecInv'
<1>. USE DEF DecInv
<1>1. PICK source \in Live, token \in Tokens :
        /\ hist' = [hist EXCEPT ![turn] = Append(cand[source], token)]
        /\ cells' = SeqCp(cells, source, Scratch(turn))
  BY DEF Copy
<1>2. /\ step = "copy" /\ turn \in Live /\ head' = 0 /\ turn' = turn + 1
      /\ UNCHANGED <<n, status, cand, step, i, round, beamSearch>>
  BY DEF Copy
<1>3. /\ Live \subseteq Decoders /\ Live' = Live
      /\ source \in Decoders /\ turn \in Decoders /\ turn \in Nat
      /\ Scratch(turn) \in Seqs /\ Scratch(turn) \notin Decoders
      /\ i \in Nat /\ i < MaxTokens
  BY <1>2, ScratchIsApart DEF Live, Decoders, DecTypeOK, HypothesesInv
<1>4. cells \in Cells(Seqs, Histories)
  BY CellsAreTyped
<1>5. /\ cells' \in Cells(Seqs, Histories) /\ Owned(cells')
      /\ \A k \in Slots :
           /\ SameToken(cells, cells', k) /\ (InUse(cells', k) <=> InUse(cells, k))
           /\ \A s : Attends(cells', s, k)
                     <=> (Attends(cells, s, k) \/ (s = Scratch(turn) /\ Attends(cells, source, k)))
  BY <1>1, <1>3, <1>4, SeqCpShares
<1>6. ASSUME NEW k \in Slots, NEW s, Attends(cells, s, k)
      PROVE  s \in Decoders \cup {Scratch(j) : j \in {l \in Live : l < turn}}
  BY <1>2, <1>6, AttendsIsMember DEF UsersInv
<1>7. \A k \in Slots : ~Attends(cells, Scratch(turn), k)
  <2>. SUFFICES ASSUME NEW k \in Slots, Attends(cells, Scratch(turn), k) PROVE FALSE
    OBVIOUS
  <2>1. PICK j \in Live : j < turn /\ Scratch(j) = Scratch(turn)
    BY <1>3, <1>6
  <2>. QED BY <2>1, <1>3, ScratchIsApart
<1>8. /\ cand[source] \in Seq(Tokens) /\ Len(cand[source]) = i
      /\ Append(cand[source], token) \in Histories
      /\ Len(Append(cand[source], token)) = i + 1
  <2>1. cand[source] \in Histories /\ Len(cand[source]) = i
    BY <1>2, <1>3 DEF DecTypeOK, HypothesesInv
  <2>. QED BY <2>1, <1>3, LongerHistory
<1>9. /\ hist' \in [Decoders -> Histories]
      /\ hist'[turn] = Append(cand[source], token)
      /\ \A j \in Decoders : j # turn => hist'[j] = hist[j]
  BY <1>1, <1>3, <1>8 DEF DecTypeOK
<1>10. DecTypeOK'
  <2>1. cells' \in [Slots -> [pos : Int, seqs : SUBSET (0..(2 * MaxDecoders - 1)),
                              data : Histories]]
    BY <1>5 DEF Cells, Seqs
  <2>2. turn' \in 0..NDecoders /\ 0 \in 0..Size
    BY <1>2, <1>3, ConstantsAreNumbers DEF Decoders
  <2>. QED BY <2>1, <2>2, <1>2, <1>9 DEF DecTypeOK
<1>11. HypothesesInv'
  <2>1. ASSUME NEW j \in Live
        PROVE  /\ turn' <= j => Len(hist'[j]) = i
               /\ j < turn' => Len(hist'[j]) = i + 1
    <3>1. j \in Nat /\ j \in Decoders
      BY <1>3 DEF Decoders
    <3>2. CASE j = turn
      BY <3>2, <1>2, <1>3, <1>8, <1>9
    <3>3. CASE j # turn
      <4>1. hist'[j] = hist[j]
        BY <3>1, <3>3, <1>9
      <4>2. (turn' <= j => turn <= j) /\ (j < turn' => j < turn)
        BY <3>1, <3>3, <1>2, <1>3
      <4>. QED BY <4>1, <4>2, <1>2 DEF HypothesesInv
    <3>. QED BY <3>2, <3>3
  <2>. QED BY <2>1, <1>2, <1>3 DEF HypothesesInv
<1>12. UsersInv'
  <2>1. ASSUME NEW k \in Slots, NEW s \in cells'[k].seqs
        PROVE  s \in Decoders \cup {Scratch(j) : j \in {l \in Live : l < turn + 1}}
    <3>1. Attends(cells', s, k)
      BY <1>5, AttendsIsMember
    <3>2. CASE Attends(cells, s, k)
      <4>1. \A l \in Live : l < turn => l < turn + 1
        BY <1>3 DEF Decoders
      <4>. QED BY <4>1, <3>2, <1>6
    <3>3. CASE s = Scratch(turn)
      BY <3>3, <1>2, <1>3
    <3>. QED BY <3>1, <3>2, <3>3, <1>5
  <2>. QED BY <2>1, <1>2, <1>3 DEF UsersInv
<1>13. ContentsInv'
  <2>1. ASSUME NEW j \in Live
        PROVE  CachedIn(cells', j, cand[j], PromptLen + i)
    <3>1. CachedIn(cells, j, cand[j], PromptLen + i)
      BY <1>2 DEF ContentsInv, Cached
    <3>2. \A k \in Slots : /\ Attends(cells', j, k) <=> Attends(cells, j, k)
                           /\ Attends(cells, j, k) => SameToken(cells, cells', k)
      BY <1>3, <1>5
    <3>. QED BY <3>1, <3>2, CachedMoves
  <2>2. CachedIn(cells', Scratch(turn), hist'[turn], PromptLen + i)
    <3>1. CachedIn(cells, source, cand[source], PromptLen + i)
      BY <1>2 DEF ContentsInv, Cached
    <3>2. \A k \in Slots : /\ Attends(cells', Scratch(turn), k) <=> Attends(cells, source, k)
                           /\ Attends(cells, source, k) => SameToken(cells, cells', k)
      BY <1>5, <1>7
    <3>3. CachedIn(cells', Scratch(turn), cand[source], PromptLen + i)
      BY <3>1, <3>2, CachedMoves
    <3>. QED BY <3>3, <1>8, <1>9, CachedBySampling
  <2>3. ASSUME NEW j \in Live, j < turn
        PROVE  CachedIn(cells', Scratch(j), hist'[j], PromptLen + i)
    <3>1. j \in Decoders /\ j # turn /\ Scratch(j) # Scratch(turn)
      BY <2>3, <1>3, ScratchIsApart DEF Decoders
    <3>2. CachedIn(cells, Scratch(j), hist[j], PromptLen + i)
      BY <2>3, <1>2 DEF ContentsInv, Cached
    <3>3. \A k \in Slots : /\ Attends(cells', Scratch(j), k) <=> Attends(cells, Scratch(j), k)
                           /\ Attends(cells, Scratch(j), k) => SameToken(cells, cells', k)
      BY <3>1, <1>5
    <3>. QED BY <3>1, <3>2, <3>3, <1>9, CachedMoves
  <2>4. \A j \in Live : j < turn' => j < turn \/ j = turn
    BY <1>2, <1>3 DEF Decoders
  <2>. QED BY <2>1, <2>2, <2>3, <2>4, <1>2, <1>3 DEF ContentsInv, Cached
<1>14. ExtentInv'
  <2>1. Extent \in Nat
    BY ExtentIsNumber
  <2>2. Extent' = Extent
    BY <1>2 DEF Extent
  <2>. QED BY <2>1, <2>2, <1>2, <1>5 DEF ExtentInv
<1>15. MaskInv' /\ SlotIsFound'
  BY <1>2 DEF MaskInv, SlotIsFound
<1>. QED BY <1>5, <1>10, <1>11, <1>12, <1>13, <1>14, <1>15

\* A decoder that is not live has no turn.
LEMMA CopyOnInv ==
  ASSUME DecInv, CopyOn
  PROVE  DecInv'
<1>. USE DEF DecInv
<1>1. /\ step = "copy" /\ Skip(turn, "swap")
      /\ UNCHANGED <<cells, head, n, hist, status, cand, i, round, beamSearch>>
  BY DEF CopyOn
<1>2. /\ Live' = Live /\ Live \subseteq Decoders /\ Owned(cells')
      /\ turn \in 0..NDecoders /\ Extent' = Extent
  BY <1>1 DEF Live, DecTypeOK, Extent
<1>3. CASE turn \in Decoders
  <2>1. turn \notin Live /\ turn' = turn + 1 /\ step' = "copy"
    BY <1>1, <1>3 DEF Skip
  <2>2. turn' \in 0..NDecoders
    BY <2>1, <1>3, ConstantsAreNumbers DEF Decoders
  <2>3. ASSUME NEW j \in Live PROVE (j < turn' <=> j < turn) /\ (turn' <= j <=> turn <= j)
    <3>1. j \in Nat /\ turn \in Nat /\ j # turn
      BY <2>1, <1>2, <1>3 DEF Decoders
    <3>. QED BY <3>1, <2>1
  <2>4. DecTypeOK'
    BY <2>1, <2>2, <1>1 DEF DecTypeOK
  <2>5. HypothesesInv'
    BY <2>1, <2>3, <1>1, <1>2 DEF HypothesesInv
  <2>6. UsersInv'
    <3>1. {l \in Live : l < turn'} = {l \in Live : l < turn}
      BY <2>3
    <3>. QED BY <3>1, <2>1, <1>1, <1>2 DEF UsersInv
  <2>7. ContentsInv'
    BY <2>1, <2>3, <1>1, <1>2 DEF ContentsInv, Cached
  <2>8. ExtentInv' /\ MaskInv' /\ SlotIsFound'
    BY <2>1, <1>1, <1>2 DEF ExtentInv, MaskInv, SlotIsFound
  <2>. QED BY <1>2, <2>4, <2>5, <2>6, <2>7, <2>8
<1>4. CASE turn \notin Decoders
  <2>1. turn' = 0 /\ step' = "swap"
    BY <1>1, <1>4 DEF Skip
  <2>2. ASSUME NEW j \in Live PROVE j < turn /\ ~(j < turn') /\ turn' <= j
    <3>1. j \in 0..(NDecoders - 1) /\ turn = NDecoders
      BY <1>2, <1>4, ConstantsAreNumbers DEF Decoders
    <3>. QED BY <3>1, <2>1, ConstantsAreNumbers
  <2>3. 0 \in 0..NDecoders
    BY ConstantsAreNumbers
  <2>4. DecTypeOK'
    BY <2>1, <2>3, <1>1 DEF DecTypeOK
  <2>5. HypothesesInv'
    BY <2>1, <2>2, <1>1, <1>2 DEF HypothesesInv
  <2>6. UsersInv'
    <3>1. {l \in Live : turn' <= l} = {l \in Live : l < turn}
      BY <2>2
    <3>. QED BY <3>1, <2>1, <1>1, <1>2 DEF UsersInv
  <2>7. ContentsInv'
    BY <2>1, <2>2, <1>1, <1>2 DEF ContentsInv, Cached
  <2>8. ExtentInv' /\ MaskInv' /\ SlotIsFound'
    BY <2>1, <1>1, <1>2 DEF ExtentInv, MaskInv, SlotIsFound
  <2>. QED BY <1>2, <2>4, <2>5, <2>6, <2>7, <2>8
<1>. QED BY <1>3, <1>4

\* The decoder whose turn it is attends to what its scratch sequence did, and
\* nobody attends through that sequence any more.
LEMMA SwapInv ==
  ASSUME DecInv, Swap
  PROVE  DecInv'
<1>. USE DEF DecInv
<1>. DEFINE dropped == SeqRm(cells, turn)
            swapped == SeqCp(dropped, Scratch(turn), turn)
<1>1. /\ step = "swap" /\ turn \in Live /\ turn' = turn + 1
      /\ cells' = SeqRm(swapped, Scratch(turn))
      /\ head' = HeadAfterRm(swapped, 0, Scratch(turn))
      /\ UNCHANGED <<n, hist, status, cand, step, i, round, beamSearch>>
  BY DEF Swap
<1>2. /\ Live \subseteq Decoders /\ Live' = Live
      /\ turn \in Decoders /\ turn \in Nat /\ turn \in Seqs
      /\ Scratch(turn) \in Seqs /\ Scratch(turn) \notin Decoders
  BY <1>1, ScratchIsApart DEF Live, Decoders
<1>3. cells \in Cells(Seqs, Histories)
  BY CellsAreTyped
<1>4. /\ dropped \in Cells(Seqs, Histories) /\ Owned(dropped)
      /\ \A k \in Slots :
           /\ InUse(dropped, k) => InUse(cells, k) /\ SameToken(cells, dropped, k)
           /\ \A s : Attends(dropped, s, k) <=> (Attends(cells, s, k) /\ s # turn)
  BY <1>3, SeqRmTakes
<1>. HIDE DEF dropped
<1>5. /\ swapped \in Cells(Seqs, Histories) /\ Owned(swapped)
      /\ \A k \in Slots :
           /\ SameToken(dropped, swapped, k) /\ (InUse(swapped, k) <=> InUse(dropped, k))
           /\ \A s : Attends(swapped, s, k)
                     <=> (Attends(dropped, s, k) \/ (s = turn /\ Attends(dropped, Scratch(turn), k)))
  BY <1>2, <1>4, SeqCpShares
<1>. HIDE DEF swapped
<1>6. /\ cells' \in Cells(Seqs, Histories) /\ Owned(cells')
      /\ \A k \in Slots :
           /\ InUse(cells', k) => InUse(swapped, k) /\ SameToken(swapped, cells', k)
           /\ \A s : Attends(cells', s, k) <=> (Attends(swapped, s, k) /\ s # Scratch(turn))
  BY <1>1, <1>5, SeqRmTakes
<1>7. ASSUME NEW k \in Slots
      PROVE  /\ InUse(cells', k) => InUse(cells, k) /\ SameToken(cells, cells', k)
             /\ InUse(swapped, k) => InUse(cells, k)
             /\ \A s : s # turn /\ s # Scratch(turn) =>
                         (Attends(cells', s, k) <=> Attends(cells, s, k))
             /\ Attends(cells', turn, k) <=> Attends(cells, Scratch(turn), k)
             /\ ~Attends(cells', Scratch(turn), k)
  <2>1. InUse(cells', k) => InUse(cells, k) /\ SameToken(cells, cells', k)
    BY <1>4, <1>5, <1>6 DEF SameToken
  <2>. QED BY <2>1, <1>2, <1>4, <1>5, <1>6
<1>8. ASSUME NEW k \in Slots, NEW s, Attends(cells', s, k) PROVE SameToken(cells, cells', k)
  BY <1>7, <1>8 DEF Attends
<1>9. head' \in 0..Size /\ (head' = 0 \/ (head' \in Slots /\ InUse(cells, head')))
  <2>1. head' = 0 \/ (head' \in Slots /\ InUse(swapped, head'))
    BY <1>1, HeadAfterRmIsNear
  <2>. QED BY <2>1, <1>7, ConstantsAreNumbers DEF Slots
<1>10. DecTypeOK'
  <2>1. cells' \in [Slots -> [pos : Int, seqs : SUBSET (0..(2 * MaxDecoders - 1)),
                              data : Histories]]
    BY <1>6 DEF Cells, Seqs
  <2>2. turn' \in 0..NDecoders
    BY <1>1, <1>2, ConstantsAreNumbers DEF Decoders
  <2>. QED BY <2>1, <2>2, <1>1, <1>9 DEF DecTypeOK
<1>11. HypothesesInv'
  BY <1>1, <1>2 DEF HypothesesInv
<1>12. UsersInv'
  <2>1. ASSUME NEW k \in Slots, NEW s \in cells'[k].seqs
        PROVE  s \in Decoders \cup {Scratch(j) : j \in {l \in Live : turn + 1 <= l}}
    <3>1. Attends(cells', s, k)
      BY <1>6, AttendsIsMember
    <3>2. CASE s = turn
      BY <3>2, <1>2
    <3>3. CASE s # turn
      <4>1. s # Scratch(turn) /\ Attends(cells, s, k)
        BY <3>1, <3>3, <1>7
      <4>2. s \in Decoders \cup {Scratch(j) : j \in {l \in Live : turn <= l}}
        BY <4>1, <1>1, AttendsIsMember DEF UsersInv
      <4>3. \A l \in Live : turn <= l /\ l # turn => turn + 1 <= l
        BY <1>2 DEF Decoders
      <4>. QED BY <4>1, <4>2, <4>3
    <3>. QED BY <3>2, <3>3
  <2>. QED BY <2>1, <1>1, <1>2 DEF UsersInv
<1>13. ContentsInv'
  <2>1. CachedIn(cells', turn, hist[turn], PromptLen + i)
    <3>1. CachedIn(cells, Scratch(turn), hist[turn], PromptLen + i)
      BY <1>1, <1>2 DEF ContentsInv, Cached
    <3>2. \A k \in Slots :
            /\ Attends(cells', turn, k) <=> Attends(cells, Scratch(turn), k)
            /\ Attends(cells, Scratch(turn), k) => SameToken(cells, cells', k)
      BY <1>7, <1>8
    <3>. QED BY <3>1, <3>2, CachedMoves
  <2>2. ASSUME NEW j \in Live, j < turn
        PROVE  CachedIn(cells', j, hist[j], PromptLen + i)
    <3>1. j # turn /\ j # Scratch(turn)
      BY <2>2, <1>2 DEF Decoders
    <3>2. CachedIn(cells, j, hist[j], PromptLen + i)
      BY <2>2, <1>1 DEF ContentsInv, Cached
    <3>3. \A k \in Slots : /\ Attends(cells', j, k) <=> Attends(cells, j, k)
                           /\ Attends(cells, j, k) => SameToken(cells, cells', k)
      BY <3>1, <1>7, <1>8
    <3>. QED BY <3>2, <3>3, CachedMoves
  <2>3. ASSUME NEW j \in Live, turn <= j, j # turn
        PROVE  CachedIn(cells', Scratch(j), hist[j], PromptLen + i)
    <3>1. j \in Decoders /\ Scratch(j) # Scratch(turn) /\ Scratch(j) # turn
      BY <2>3, <1>2, ScratchIsApart
    <3>2. CachedIn(cells, Scratch(j), hist[j], PromptLen + i)
      BY <2>3, <1>1 DEF ContentsInv, Cached
    <3>3. \A k \in Slots : /\ Attends(cells', Scratch(j), k) <=> Attends(cells, Scratch(j), k)
                           /\ Attends(cells, Scratch(j), k) => SameToken(cells, cells', k)
      BY <3>1, <1>7, <1>8
    <3>. QED BY <3>2, <3>3, CachedMoves
  <2>4. \A j \in Live : /\ j < turn' => j < turn \/ j = turn
                        /\ turn' <= j => turn <= j /\ j # turn
    BY <1>1, <1>2 DEF Decoders
  <2>. QED BY <2>1, <2>2, <2>3, <2>4, <1>1, <1>2 DEF ContentsInv, Cached
<1>14. ExtentInv'
  <2>1. Extent \in Nat
    BY ExtentIsNumber
  <2>2. Extent' = Extent
    BY <1>1 DEF Extent
  <2>3. \A k \in Slots : InUse(cells, k) => k < Extent
    BY <1>1 DEF ExtentInv
  <2>4. head' <= Extent
    BY <2>1, <2>3, <1>9 DEF Slots
  <2>. QED BY <2>2, <2>3, <2>4, <1>1, <1>7 DEF ExtentInv
<1>15. MaskInv' /\ SlotIsFound'
  BY <1>1 DEF MaskInv, SlotIsFound
<1>. QED BY <1>6, <1>10, <1>11, <1>12, <1>13, <1>14, <1>15

LEMMA SwapOnInv ==
  ASSUME DecInv, SwapOn
  PROVE  DecInv'
<1>. USE DEF DecInv
<1>1. /\ step = "swap" /\ Skip(turn, "update")
      /\ UNCHANGED <<cells, head, n, hist, status, cand, i, round, beamSearch>>
  BY DEF SwapOn
<1>2. /\ Live' = Live /\ Live \subseteq Decoders /\ Owned(cells')
      /\ turn \in 0..NDecoders /\ Extent' = Extent
  BY <1>1 DEF Live, DecTypeOK, Extent
<1>3. CASE turn \in Decoders
  <2>1. turn \notin Live /\ turn' = turn + 1 /\ step' = "swap"
    BY <1>1, <1>3 DEF Skip
  <2>2. turn' \in 0..NDecoders
    BY <2>1, <1>3, ConstantsAreNumbers DEF Decoders
  <2>3. ASSUME NEW j \in Live PROVE (j < turn' <=> j < turn) /\ (turn' <= j <=> turn <= j)
    <3>1. j \in Nat /\ turn \in Nat /\ j # turn
      BY <2>1, <1>2, <1>3 DEF Decoders
    <3>. QED BY <3>1, <2>1
  <2>4. DecTypeOK'
    BY <2>1, <2>2, <1>1 DEF DecTypeOK
  <2>5. HypothesesInv'
    BY <2>1, <2>3, <1>1, <1>2 DEF HypothesesInv
  <2>6. UsersInv'
    <3>1. {l \in Live : turn' <= l} = {l \in Live : turn <= l}
      BY <2>3
    <3>. QED BY <3>1, <2>1, <1>1, <1>2 DEF UsersInv
  <2>7. ContentsInv'
    BY <2>1, <2>3, <1>1, <1>2 DEF ContentsInv, Cached
  <2>8. ExtentInv' /\ MaskInv' /\ SlotIsFound'
    BY <2>1, <1>1, <1>2 DEF ExtentInv, MaskInv, SlotIsFound
  <2>. QED BY <1>2, <2>4, <2>5, <2>6, <2>7, <2>8
<1>4. CASE turn \notin Decoders
  <2>1. turn' = 0 /\ step' = "update"
    BY <1>1, <1>4 DEF Skip
  <2>2. ASSUME NEW j \in Live PROVE j < turn /\ ~(turn <= j)
    <3>1. j \in 0..(NDecoders - 1) /\ turn = NDecoders
      BY <1>2, <1>4, ConstantsAreNumbers DEF Decoders
    <3>. QED BY <3>1, ConstantsAreNumbers
  <2>3. 0 \in 0..NDecoders
    BY ConstantsAreNumbers
  <2>4. DecTypeOK'
    BY <2>1, <2>3, <1>1 DEF DecTypeOK
  <2>5. HypothesesInv'
    BY <2>1, <1>1, <1>2 DEF HypothesesInv
  <2>6. UsersInv'
    BY <2>1, <2>2, <1>1 DEF UsersInv
  <2>7. ContentsInv'
    BY <2>1, <2>2, <1>1, <1>2 DEF ContentsInv, Cached
  <2>8. ExtentInv' /\ MaskInv' /\ SlotIsFound'
    BY <2>1, <1>1, <1>2 DEF ExtentInv, MaskInv, SlotIsFound
  <2>. QED BY <1>2, <2>4, <2>5, <2>6, <2>7, <2>8
<1>. QED BY <1>3, <1>4

\* A decoder that stops is not looked at any more; with none left the window is
\* decoded.
LEMMA UpdateInv ==
  ASSUME DecInv, Update
  PROVE  DecInv'
<1>. USE DEF DecInv
<1>1. PICK now \in [Live -> {"live", "completed", "failed"}] :
        /\ status' = [j \in Decoders |-> IF j \in Live THEN now[j] ELSE status[j]]
        /\ step' = IF \E j \in Live : now[j] = "live" THEN "decode" ELSE "decoded"
  BY DEF Update
<1>2. /\ step = "update"
      /\ UNCHANGED <<cells, head, n, hist, cand, turn, i, round, beamSearch>>
  BY DEF Update
<1>3. /\ Live' = {j \in Live : now[j] = "live"} /\ Live \subseteq Decoders
      /\ Owned(cells') /\ Extent' = Extent
  BY <1>1, <1>2 DEF Live, Extent
<1>4. step' \in {"decode", "decoded"} /\ (step' = "decode" => Live' # {})
  BY <1>1, <1>3
<1>5. DecTypeOK'
  <2>1. status' \in [Decoders -> {"live", "completed", "failed"}]
    BY <1>1 DEF DecTypeOK
  <2>. QED BY <2>1, <1>2, <1>4 DEF DecTypeOK
<1>6. HypothesesInv'
  BY <1>2, <1>3, <1>4 DEF HypothesesInv
<1>7. UsersInv'
  BY <1>2, <1>4 DEF UsersInv
<1>8. ContentsInv'
  BY <1>2, <1>3, <1>4 DEF ContentsInv, Cached
<1>9. ExtentInv' /\ MaskInv' /\ SlotIsFound'
  BY <1>2, <1>3, <1>4 DEF ExtentInv, MaskInv, SlotIsFound
<1>. QED BY <1>3, <1>5, <1>6, <1>7, <1>8, <1>9

LEMMA FallbackInv ==
  ASSUME DecInv, Fallback
  PROVE  DecInv'
<1>. USE DEF DecInv
<1>1. /\ step' = "prompt" /\ round < MaxRounds /\ round' = round + 1
      /\ UNCHANGED <<cells, head, n, hist, status, cand, turn, i, beamSearch>>
  BY DEF Fallback
<1>2. DecTypeOK' /\ Owned(cells')
  BY <1>1, DecoderAssumption DEF DecTypeOK
<1>. QED BY <1>1, <1>2
     DEF HypothesesInv, UsersInv, ContentsInv, ExtentInv, MaskInv, SlotIsFound

\* The batch finds a slot within one batch of the used cells, and every live
\* decoder's token lands in a cell of its own.
LEMMA DecodeBatchInv ==
  ASSUME DecInv, DecodeBatch
  PROVE  DecInv'
<1>. USE DEF DecInv
<1>. PICK P \in Nat \ {0} : P = PromptLen
  BY ConstantsAreNumbers
<1>. PICK D \in Nat \ {0} : D = NDecoders
  BY ConstantsAreNumbers
<1>. PICK Z \in Nat \ {0} : Z = Size
  BY ConstantsAreNumbers
<1>. PICK size \in 0..D : size = Cardinality(Live)
  BY BatchIsLive
<1>. PICK E \in Nat : E = Extent
  BY ExtentIsNumber
<1>. DEFINE batch == [k \in 0..(Cardinality(Live) - 1) |->
                        [pos |-> PromptLen + i, seqs |-> {NthLive(k)},
                         data |-> hist[NthLive(k)]]]
            slot  == FindSlot(cells, head, Cardinality(Live))
<1>1. /\ step = "decode" /\ i \in Nat /\ i < MaxTokens /\ i' = i + 1
      /\ UNCHANGED <<hist, status, cand, turn, round, beamSearch>>
      /\ head \in 0..Size
  BY DEF DecodeBatch, HypothesesInv, DecTypeOK
<1>2. /\ Live' = Live /\ Live \subseteq Decoders /\ Live # {}
  BY <1>1 DEF Live, HypothesesInv
<1>3. /\ size \in Nat \ {0} /\ size <= D
      /\ \A k \in 0..(size - 1) : NthLive(k) \in Live
      /\ \A j \in Live : \E k \in 0..(size - 1) :
           NthLive(k) = j /\ \A l \in 0..(size - 1) : NthLive(l) = j => l = k
  BY <1>2, BatchIsLive
<1>4. cells \in Cells(Seqs, Histories)
  BY CellsAreTyped
<1>5. head <= E /\ \A k \in Slots : InUse(cells, k) => k < E
  BY <1>1 DEF ExtentInv
<1>6. E + D <= Z /\ Extent' = E + D
  <2>1. i \in 0..(MaxTokens - 1)
    BY <1>1, ConstantsAreNumbers
  <2>2. E + D <= Z
    BY <2>1, RoomForBatches DEF Extent
  <2>3. D * (i + 1) = D * i + D
    BY <1>1
  <2>. PICK q \in Nat : q = D * i
    BY <1>1
  <2>4. Extent' = P + (q + D)
    BY <2>3, <1>1 DEF Extent
  <2>5. E = P + q
    BY DEF Extent
  <2>. QED BY <2>2, <2>4, <2>5
<1>7. E \in Slots /\ FreeRun(cells, E, size)
  BY <1>3, <1>5, <1>6 DEF Slots, FreeRun
<1>8. slot.found /\ slot.head \in Slots /\ slot.head <= E /\ FreeRun(cells, slot.head, size)
  <2>1. /\ slot.found => slot.head \in Slots /\ FreeRun(cells, slot.head, size)
        /\ slot.found <=> \E h \in Slots : FreeRun(cells, h, size)
        /\ \A h \in Slots : head <= h /\ FreeRun(cells, h, size) => slot.head <= h
    BY <1>1, <1>3, SlotSearchIsFirstFit
  <2>. HIDE DEF slot
  <2>. QED BY <2>1, <1>5, <1>7
<1>9. /\ head' = slot.head /\ cells' = Written(cells, slot.head, batch)
      /\ n' = CellMax(cells') /\ step' = "sample"
  BY <1>8 DEF DecodeBatch, Decode
<1>. PICK H \in Slots : H = slot.head
  BY <1>8
<1>. HIDE DEF slot
<1>10. ASSUME NEW j \in Live
       PROVE  /\ hist[j] \in Histories /\ hist[j] \in Seq(Tokens)
              /\ Len(hist[j]) = i + 1 /\ j \in Seqs
  <2>1. hist[j] \in Histories /\ Len(hist[j]) = i + 1
    BY <1>1, <1>2 DEF DecTypeOK, HypothesesInv
  <2>. QED BY <2>1, <1>2, HistoryIsSeq, ScratchIsApart
<1>11. /\ batch \in [0..(size - 1) -> [pos : Nat, seqs : (SUBSET Seqs) \ {{}},
                                       data : Histories]]
       /\ \A k \in 0..(size - 1) : /\ batch[k].pos = P + i
                                   /\ batch[k].seqs = {NthLive(k)}
                                   /\ batch[k].data = hist[NthLive(k)]
  <2>1. P + i \in Nat
    BY <1>1
  <2>. QED BY <2>1, <1>3, <1>10
<1>. HIDE DEF batch
<1>12. /\ cells' \in Cells(Seqs, Histories) /\ Owned(cells')
       /\ HoldsBatch(cells, cells', H, size, batch)
       /\ \A b \in 0..(size - 1) : H + b \in Slots
  <2>1. size \in Nat /\ FreeRun(cells, H, size)
    BY <1>8
  <2>2. /\ Written(cells, H, batch) \in Cells(Seqs, Histories)
        /\ Owned(Written(cells, H, batch))
        /\ HoldsBatch(cells, Written(cells, H, batch), H, size, batch)
        /\ \A b \in 0..(size - 1) : H + b \in Slots
    BY <1>4, <1>11, <2>1, WrittenHoldsBatch
  <2>. QED BY <2>2, <1>9
<1>13. ASSUME NEW k \in Slots, k - H \in 0..(size - 1)
       PROVE  /\ ~InUse(cells, k) /\ InUse(cells', k)
              /\ cells'[k].pos = P + i /\ cells'[k].seqs = {NthLive(k - H)}
              /\ cells'[k].data = hist[NthLive(k - H)]
  <2>1. ~InUse(cells, k) /\ cells'[k] = batch[k - H]
    BY <1>12, <1>13 DEF HoldsBatch
  <2>. QED BY <2>1, <1>1, <1>11, <1>13 DEF InUse
<1>14. ASSUME NEW k \in Slots, ~(k - H \in 0..(size - 1))
       PROVE  cells'[k] = cells[k]
  BY <1>12, <1>14 DEF HoldsBatch
<1>15. CellMax(cells') \in 1..Size /\ \A k \in Slots : InUse(cells', k) => k < CellMax(cells')
  BY <1>12, CellMaxCovers DEF Owned
<1>16. DecTypeOK'
  <2>1. cells' \in [Slots -> [pos : Int, seqs : SUBSET (0..(2 * MaxDecoders - 1)),
                              data : Histories]]
    BY <1>12 DEF Cells, Seqs
  <2>2. i' \in 0..MaxTokens /\ head' \in 0..Size
    BY <1>1, <1>9, ConstantsAreNumbers DEF Slots
  <2>. QED BY <2>1, <2>2, <1>1, <1>9, <1>15, ConstantsAreNumbers DEF DecTypeOK
<1>17. HypothesesInv'
  BY <1>1, <1>2, <1>9, <1>10 DEF HypothesesInv
<1>18. UsersInv'
  <2>1. ASSUME NEW k \in Slots PROVE cells'[k].seqs \subseteq Decoders
    <3>1. CASE k - H \in 0..(size - 1)
      BY <3>1, <1>2, <1>3, <1>13
    <3>2. CASE ~(k - H \in 0..(size - 1))
      BY <3>2, <1>1, <1>14 DEF UsersInv
    <3>. QED BY <3>1, <3>2
  <2>. QED BY <2>1, <1>9 DEF UsersInv
<1>19. ContentsInv'
  <2>1. ASSUME NEW j \in Live
        PROVE  CachedIn(cells', j, hist[j], PromptLen + Len(hist[j]))
    <3>1. PICK b \in 0..(size - 1) :
            NthLive(b) = j /\ \A l \in 0..(size - 1) : NthLive(l) = j => l = b
      BY <1>3
    <3>. PICK new \in Slots : new = H + b
      BY <1>12
    <3>2. new - H = b
      BY DEF Slots
    <3>3. ASSUME NEW k \in Slots
          PROVE  /\ Attends(cells', j, k) <=> (Attends(cells, j, k) \/ k = new)
                 /\ Attends(cells, j, k) => SameToken(cells, cells', k)
      <4>1. CASE k - H \in 0..(size - 1)
        <5>1. k - H = b <=> k = new
          BY DEF Slots
        <5>2. Attends(cells', j, k) <=> NthLive(k - H) = j
          BY <4>1, <1>13 DEF Attends
        <5>. QED BY <4>1, <5>1, <5>2, <3>1, <1>13 DEF Attends
      <4>2. CASE ~(k - H \in 0..(size - 1))
        <5>1. k # new /\ cells'[k] = cells[k]
          BY <4>2, <3>2, <1>14
        <5>. QED BY <5>1 DEF Attends, InUse, SameToken
      <4>. QED BY <4>1, <4>2
    <3>4. /\ ~Attends(cells, j, new) /\ cells'[new].pos = P + i
          /\ cells'[new].data = hist[j]
      BY <3>1, <3>2, <1>13 DEF Attends
    <3>5. /\ PromptLen + Len(hist[j]) - 1 = P + i /\ Len(hist[j]) # 0
          /\ hist[j] \in Seq(Tokens)
      BY <1>1, <1>10
    <3>6. CachedIn(cells, j, hist[j], P + i)
      BY <1>1 DEF ContentsInv, Cached
    <3>. QED BY <3>3, <3>4, <3>5, <3>6, CachedByDecoding
  <2>2. \A j \in Live : PromptLen + Len(hist[j]) = PromptLen + i'
    BY <1>1, <1>10
  <2>. QED BY <2>1, <2>2, <1>1, <1>2, <1>9 DEF ContentsInv, Cached
<1>20. ExtentInv'
  <2>1. ASSUME NEW k \in Slots, InUse(cells', k) PROVE k < E + D
    <3>1. CASE k - H \in 0..(size - 1)
      BY <3>1, <1>3, <1>8 DEF Slots
    <3>2. CASE ~(k - H \in 0..(size - 1))
      <4>1. InUse(cells, k)
        BY <2>1, <3>2, <1>14 DEF InUse
      <4>. QED BY <4>1, <1>5 DEF Slots
    <3>. QED BY <3>1, <3>2
  <2>2. head' <= E + D
    BY <1>8, <1>9 DEF Slots
  <2>. QED BY <2>1, <2>2, <1>6 DEF ExtentInv
<1>21. MaskInv' /\ SlotIsFound'
  BY <1>9, <1>15 DEF MaskInv, SlotIsFound
<1>. QED BY <1>12, <1>16, <1>17, <1>18, <1>19, <1>20, <1>21

-----------------------------------------------------------------------------
(* The theorems                                                               *)

\* The loop of whisper_full_with_state over prompt, sampling, exchange of the
\* beams, update and decoding keeps the invariant, for every strategy.
THEOREM DecInvHolds == DecSpec => []DecInv
<1>1. DecInit => DecInv
  BY DecInitInv
<1>2. DecInv /\ [DecNext]_decVars => DecInv'
  <2>. SUFFICES ASSUME DecInv, [DecNext]_decVars PROVE DecInv'
    OBVIOUS
  <2>1. CASE UNCHANGED decVars
    BY <2>1
    DEF decVars, DecInv, DecTypeOK, Owned, InUse, HypothesesInv, UsersInv, ContentsInv,
        Cached, CachedIn, Attends, ExtentInv, Extent, MaskInv, SlotIsFound, Live
  <2>2. CASE DecNext
    BY <2>2, PromptInv, ShareInv, SharedInv, SampleInv, CopyInv, CopyOnInv, SwapInv,
       SwapOnInv, UpdateInv, DecodeBatchInv, FallbackInv DEF DecNext
  <2>. QED BY <2>1, <2>2
<1>. QED BY <1>1, <1>2, PTL DEF DecSpec

\* The state of the decoding has its types: no cell is written outside of the
\* row, no sequence number leaves the scratch sequences, no history grows beyond
\* one token more than n_max.
THEOREM DecTypesAreSafe == DecSpec => []DecTypeOK
BY DecInvHolds, PTL DEF DecInv

\* Whenever whisper_full_with_state samples, each live decoder attends to one
\* cell per position of its own hypothesis, computed from exactly its tokens,
\* whatever beams took which candidate before.
THEOREM CacheHoldsHypotheses == DecSpec => []CacheIsHistory
<1>1. DecInv => CacheIsHistory
  <2>. SUFFICES ASSUME DecInv, step = "sample", NEW j \in Live
                PROVE  /\ \A k \in Attended(j) :
                            /\ cells[k].pos < PromptLen + i
                            /\ cells[k].data = PrefixAt(hist[j], cells[k].pos)
                       /\ \A pos \in 0..(PromptLen + i - 1) :
                            \E k \in Attended(j) :
                              \A l \in Attended(j) : cells[l].pos = pos <=> l = k
    BY DEF CacheIsHistory
  <2>1. CachedIn(cells, j, hist[j], PromptLen + i)
    BY DEF DecInv, ContentsInv, Cached
  <2>2. Attended(j) = {k \in Slots : Attends(cells, j, k)}
    BY DEF Attended, Attends
  <2>3. ASSUME NEW k \in Attended(j)
        PROVE  /\ cells[k].pos < PromptLen + i
               /\ cells[k].data = PrefixAt(hist[j], cells[k].pos)
    <3>. PICK m \in Nat : m = PromptLen + i
      BY ConstantsAreNumbers DEF DecInv, DecTypeOK
    <3>. QED BY <2>1, <2>2 DEF CachedIn
  <2>4. ASSUME NEW pos \in 0..(PromptLen + i - 1)
        PROVE  \E k \in Attended(j) :
                 \A l \in Attended(j) : cells[l].pos = pos <=> l = k
    <3>. PICK m \in Nat : m = PromptLen + i
      BY ConstantsAreNumbers DEF DecInv, DecTypeOK
    <3>0. pos \in 0..(m - 1) /\ CachedIn(cells, j, hist[j], m)
      BY <2>1, ConstantsAreNumbers DEF DecInv, DecTypeOK
    <3>1. PICK k \in Slots : /\ Attends(cells, j, k)
                             /\ \A l \in Slots :
                                  Attends(cells, j, l) => (cells[l].pos = pos <=> l = k)
      BY <3>0 DEF CachedIn
    <3>2. k \in Attended(j)
      BY <2>2, <3>1
    <3>3. \A l \in Attended(j) : cells[l].pos = pos <=> l = k
      BY <2>2, <3>1
    <3>. QED BY <3>2, <3>3
  <2>. QED BY <2>3, <2>4, Zenon
<1>. QED BY <1>1, DecInvHolds, PTL

\* After whisper_kv_cache_seq_cp, seq_rm and the decoding of a batch no cell is
\* in use that no sequence attends to, and between two steps only decoders
\* attend: the scratch sequences of beam search never leak cells.
THEOREM ScratchNeverLeaks == DecSpec => []CellsAreOwned
<1>1. DecInv => CellsAreOwned
  BY DEF DecInv, Owned, UsersInv, CellsAreOwned
<1>. QED BY <1>1, DecInvHolds, PTL

\* The attention looks at kv_self.n cells; whenever a token is sampled, every
\* used cell is among them.
THEOREM MaskIsWideEnough == DecSpec => []MaskCoversCells
<1>1. DecInv => MaskCoversCells
  BY DEF DecInv, MaskInv, MaskCoversCells
<1>. QED BY <1>1, DecInvHolds, PTL

\* A cache of PromptLen + NDecoders * MaxTokens cells is enough: whisper_decode
\* never fails for want of a slot, however the exchange of beams scatters the
\* free cells, as the used ones stay within what the batches so far could fill.
THEOREM BatchesAlwaysFit == DecSpec => []SlotIsFound
BY DecInvHolds, PTL DEF DecInv
=============================================================================
