--------------------------- MODULE KvCache_proofs ---------------------------
(* What the operators of the self-attention cache do, for every size of the   *)
(* cache: the search for a slot finds the first run that fits, whatever is    *)
(* in use, and copying and removing a sequence changes what that sequence     *)
(* attends to and nothing else.  The search is a recursive function, so its   *)
(* value is known only once some function is shown to satisfy its equation;   *)
(* every induction is over the least element of a set of numbers.             *)
EXTENDS KvCache, NumberLemmas, TLAPS

-----------------------------------------------------------------------------
(* The search for a slot                                                      *)

\* A remainder below twice the divisor.
LEMMA AroundTheEnd ==
  ASSUME NEW a \in 0..(2 * Size - 1)
  PROVE  a % Size = IF a < Size THEN a ELSE a - Size
<1>. PICK s \in Nat \ {0} : s = Size
  BY SizeAssumption
<1>1. a % s = IF a < s THEN a ELSE a - s
  OBVIOUS
<1>. QED BY <1>1

\* A run that is not free has a first used cell.
LEMMA FirstUsedIsUsed ==
  ASSUME NEW cells, NEW h \in Nat, NEW n \in Nat, h + n <= Size,
         ~FreeRun(cells, h, n)
  PROVE  LET first == FirstUsed(cells, h, n)
         IN  first \in 0..(n - 1) /\ InUse(cells, h + first)
<1>. DEFINE Used == {i \in 0..(n - 1) : InUse(cells, h + i)}
<1>1. PICK c \in h..(h + n - 1) : InUse(cells, c)
  BY SizeAssumption DEF FreeRun
<1>2. c - h \in Used
  <2>1. h + (c - h) = c /\ c - h \in 0..(n - 1)
    BY <1>1
  <2>. QED BY <1>1, <2>1
<1>3. PICK x \in Used : \A y \in Used : x <= y
  <2>1. Used \subseteq 0..(n - 1)
    OBVIOUS
  <2>. HIDE DEF Used
  <2>2. Used \in SUBSET Nat /\ Used # {}
    BY <1>2, <2>1
  <2>. QED BY <2>2, LeastNumber
<1>4. \A k \in 0..(x - 1) : ~InUse(cells, h + k)
  BY <1>3
<1>. QED BY <1>3, <1>4 DEF FirstUsed

\* The start that lies u cells behind head, around the end.
StartAt(head, u) == (head + u) % Size

LEMMA StartIsInRow ==
  ASSUME NEW head \in 0..Size, NEW u \in Slots
  PROVE  /\ StartAt(head, u) \in Slots
         /\ StartAt(head, u) = IF head + u < Size THEN head + u ELSE head + u - Size
<1>. PICK s \in Nat \ {0} : s = Size
  BY SizeAssumption
<1>1. head + u \in 0..(2 * Size - 1)
  BY DEF Slots
<1>2. StartAt(head, u) = IF head + u < Size THEN head + u ELSE head + u - Size
  BY <1>1, AroundTheEnd DEF StartAt, Slots
<1>. QED BY <1>2 DEF Slots

\* No start from t cells behind head to before m cells behind it fits.
NoneFits(cells, head, n, t, m) ==
  \A u \in t..(m - 1) : u < Size => ~FreeRun(cells, StartAt(head, u), n)

\* A try lies within the row, and the starts passed over to get there do not
\* fit before the end.
LEMMA TryIsNext ==
  ASSUME NEW cells, NEW head \in 0..Size, NEW n \in 1..Size, NEW t \in Slots
  PROVE  LET try == Try(head, n, t)
         IN  /\ try.at \in Nat /\ try.at + n <= Size
             /\ try.tested \in Nat /\ t <= try.tested
             /\ try.tested < Size => StartAt(head, try.tested) = try.at
             /\ NoneFits(cells, head, n, t, try.tested)
<1>. PICK s \in Nat \ {0} : s = Size
  BY SizeAssumption
<1>. DEFINE at == (head + t) % Size
<1>1. at = (IF head + t < s THEN head + t ELSE head + t - s) /\ at \in 0..(s - 1)
  BY AroundTheEnd DEF Slots
<1>2. CASE at + n > Size
  <2>1. Try(head, n, t) = [at |-> 0, tested |-> t + s - at]
    BY <1>2 DEF Try
  <2>2. t + s - at < s => StartAt(head, t + s - at) = 0
    <3>. HAVE t + s - at < s
    <3>1. head + (t + s - at) = s
      BY <1>1 DEF Slots
    <3>2. s % Size = 0
      BY AroundTheEnd, s \in 0..(2 * Size - 1)
    <3>. QED BY <3>1, <3>2 DEF StartAt
  <2>3. ASSUME NEW u \in t..(t + s - at - 1), u < Size
        PROVE  ~FreeRun(cells, StartAt(head, u), n)
    <3>1. head + u \in 0..(2 * Size - 1)
      BY <2>3, <1>1 DEF Slots
    <3>2. StartAt(head, u) = at + (u - t)
      BY <3>1, <2>3, <1>1, AroundTheEnd DEF StartAt, Slots
    <3>. QED BY <3>2, <1>1, <1>2 DEF FreeRun, Slots
  <2>. QED BY <2>1, <2>2, <2>3, <1>1, <1>2 DEF Slots, NoneFits
<1>3. CASE ~(at + n > Size)
  <2>1. Try(head, n, t) = [at |-> at, tested |-> t]
    BY <1>3 DEF Try
  <2>. QED BY <2>1, <1>1, <1>3 DEF StartAt, Slots, NoneFits
<1>. QED BY <1>2, <1>3

\* The tested count behind a try that failed, and what is known by then: no
\* start between the two fits.
LEMMA SkipIsSafe ==
  ASSUME NEW cells, NEW head \in 0..Size, NEW n \in 1..Size, NEW t \in Slots,
         ~FreeRun(cells, Try(head, n, t).at, n)
  PROVE  LET try  == Try(head, n, t)
             skip == FirstUsed(cells, try.at, n) + 1
         IN  /\ skip \in 1..n /\ try.at + skip \in 0..Size
             /\ try.tested + skip \in Nat /\ t < try.tested + skip
             /\ NoneFits(cells, head, n, t, try.tested + skip)
<1>. PICK s \in Nat \ {0} : s = Size
  BY SizeAssumption
<1>. DEFINE try == Try(head, n, t)
            first == FirstUsed(cells, try.at, n)
<1>1. /\ try.at \in Nat /\ try.at + n <= s
      /\ try.tested \in Nat /\ t <= try.tested
      /\ try.tested < s => StartAt(head, try.tested) = try.at
      /\ \A u \in t..(try.tested - 1) :
           u < Size => ~FreeRun(cells, StartAt(head, u), n)
  BY TryIsNext DEF NoneFits
<1>2. first \in 0..(n - 1) /\ InUse(cells, try.at + first)
  BY <1>1, FirstUsedIsUsed
<1>. HIDE DEF try, first
<1>3. ASSUME NEW u \in try.tested..(try.tested + first), u < Size
      PROVE  ~FreeRun(cells, StartAt(head, u), n)
  <2>1. StartAt(head, try.tested) = try.at /\ try.tested \in Slots
    BY <1>1, <1>3 DEF Slots
  <2>3. StartAt(head, u) = try.at + (u - try.tested)
    <3>1. u \in Slots
      BY <1>1, <1>2, <1>3 DEF Slots
    <3>2. /\ StartAt(head, try.tested) = IF head + try.tested < s THEN head + try.tested
                                        ELSE head + try.tested - s
          /\ StartAt(head, u) = IF head + u < s THEN head + u ELSE head + u - s
      BY <3>1, <2>1, StartIsInRow
    <3>. QED BY <3>2, <2>1, <1>1, <1>2, <1>3
  <2>4. try.at + first \in StartAt(head, u)..(StartAt(head, u) + n - 1)
    BY <1>1, <1>2, <1>3, <2>3
  <2>. QED BY <2>4, <1>2 DEF FreeRun
<1>4. ASSUME NEW u \in t..(try.tested + first), u < Size
      PROVE  ~FreeRun(cells, StartAt(head, u), n)
  BY <1>1, <1>2, <1>3, <1>4 DEF Slots
<1>5. NoneFits(cells, head, n, t, try.tested + (first + 1))
  BY <1>1, <1>2, <1>4 DEF NoneFits
<1>. QED BY <1>1, <1>2, <1>5 DEF try, first, Slots

\* What a try answers, when the search that goes on behind it is the function g.
Answer(cells, head, n, g, t) ==
  LET try  == Try(head, n, t)
      skip == FirstUsed(cells, try.at, n) + 1
  IN  IF FreeRun(cells, try.at, n) THEN [head |-> try.at, found |-> TRUE]
      ELSE IF try.tested + skip >= Size
           THEN [head |-> try.at + skip, found |-> FALSE]
      ELSE g[try.tested + skip]

\* A try asks only for what lies behind it.
LEMMA AnswerLooksAhead ==
  ASSUME NEW cells, NEW head \in 0..Size, NEW n \in 1..Size, NEW t \in Slots,
         NEW f, NEW g, \A u \in (t + 1)..(Size - 1) : f[u] = g[u]
  PROVE  Answer(cells, head, n, f, t) = Answer(cells, head, n, g, t)
<1>. DEFINE try  == Try(head, n, t)
            next == try.tested + (FirstUsed(cells, try.at, n) + 1)
<1>1. CASE FreeRun(cells, try.at, n)
  BY <1>1 DEF Answer
<1>2. CASE ~FreeRun(cells, try.at, n) /\ next >= Size
  BY <1>2 DEF Answer
<1>3. CASE ~FreeRun(cells, try.at, n) /\ ~(next >= Size)
  <2>1. next \in Nat /\ t < next
    BY <1>3, SkipIsSafe
  <2>2. next \in (t + 1)..(Size - 1)
    <3>. HIDE DEF next
    <3>. QED BY <2>1, <1>3, SizeAssumption DEF Slots
  <2>3. f[next] = g[next]
    BY <2>2
  <2>. QED BY <1>3, <2>3 DEF Answer
<1>. QED BY <1>1, <1>2, <1>3

\* There is a function that satisfies the search's equation: one for the tries
\* from m on makes one for the tries from m - 1 on.
LEMMA SearchExists ==
  ASSUME NEW cells, NEW head \in 0..Size, NEW n \in 1..Size
  PROVE  \E f : f = [t \in Slots |-> Answer(cells, head, n, f, t)]
<1>. PICK s \in Nat \ {0} : s = Size
  BY SizeAssumption
<1>. DEFINE Solves(f, m) == f = [t \in m..(s - 1) |-> Answer(cells, head, n, f, t)]
            Solved == {m \in 0..s : \E f : Solves(f, m)}
<1>1. s \in Solved
  <2>1. Solves([t \in s..(s - 1) |-> 0], s)
    OBVIOUS
  <2>. QED BY <2>1
<1>2. ASSUME NEW m \in Solved, m # 0 PROVE m - 1 \in Solved
  <2>1. PICK f : Solves(f, m)
    OBVIOUS
  <2>. DEFINE g == [t \in (m - 1)..(s - 1) |->
                      IF t = m - 1 THEN Answer(cells, head, n, f, t) ELSE f[t]]
  <2>2. ASSUME NEW t \in (m - 1)..(s - 1)
        PROVE  g[t] = Answer(cells, head, n, g, t)
    <3>1. t \in Slots /\ \A u \in (t + 1)..(Size - 1) : g[u] = f[u]
      BY <1>2 DEF Slots
    <3>2. Answer(cells, head, n, g, t) = Answer(cells, head, n, f, t)
      <4>. HIDE DEF g
      <4>. QED BY <3>1, AnswerLooksAhead
    <3>3. g[t] = Answer(cells, head, n, f, t)
      <4>1. CASE t = m - 1
        BY <4>1
      <4>2. CASE t # m - 1
        <5>1. t \in m..(s - 1)
          BY <4>2, <1>2
        <5>2. f[t] = Answer(cells, head, n, f, t)
          BY <2>1, <5>1
        <5>. QED BY <4>2, <5>2
      <4>. QED BY <4>1, <4>2
    <3>. QED BY <3>2, <3>3
  <2>3. Solves(g, m - 1)
    BY <2>2
  <2>4. m - 1 \in 0..s
    BY <1>2
  <2>. HIDE DEF Solves
  <2>. QED BY <2>3, <2>4
<1>3. 0 \in Solved
  <2>. HIDE DEF Solved
  <2>1. Solved \in SUBSET Nat /\ Solved # {}
    BY <1>1 DEF Solved
  <2>2. PICK m \in Solved : \A y \in Solved : m <= y
    BY <2>1, LeastNumber
  <2>. QED BY <1>2, <2>1, <2>2
<1>. QED BY <1>3 DEF Slots

\* What FindSlot returns: the value at 0 of a function that satisfies the
\* equation of the search.
LEMMA FindSlotSearches ==
  ASSUME NEW cells, NEW head \in 0..Size, NEW n \in 1..Size
  PROVE  \E f : /\ \A t \in Slots : f[t] = Answer(cells, head, n, f, t)
               /\ FindSlot(cells, head, n) = f[0]
<1>. DEFINE f == CHOOSE f : f = [t \in Slots |-> Answer(cells, head, n, f, t)]
<1>1. f = [t \in Slots |-> Answer(cells, head, n, f, t)]
  BY SearchExists
<1>2. FindSlot(cells, head, n) = f[0]
  BY SizeAssumption DEF FindSlot, Answer
<1>. HIDE DEF f
<1>3. \A t \in Slots : f[t] = Answer(cells, head, n, f, t)
  BY <1>1
<1>. QED BY <1>2, <1>3

\* What the rest of the search finds once t cells are tested: a run that fits,
\* within the row; and if any start from there on fits, then the nearest that
\* does.
Finds(cells, head, n, t, slot) ==
  /\ slot.head \in 0..Size /\ slot.found \in BOOLEAN
  /\ slot.found => slot.head \in Slots /\ FreeRun(cells, slot.head, n)
  /\ \A u \in t..(Size - 1) :
       /\ FreeRun(cells, StartAt(head, u), n)
       /\ \A w \in t..(u - 1) : ~FreeRun(cells, StartAt(head, w), n)
       => slot = [head |-> StartAt(head, u), found |-> TRUE]

LEMMA SearchFinds ==
  ASSUME NEW cells, NEW head \in 0..Size, NEW n \in 1..Size, NEW f,
         \A t \in Slots : f[t] = Answer(cells, head, n, f, t)
  PROVE  \A t \in Slots : Finds(cells, head, n, t, f[t])
<1>. PICK s \in Nat \ {0} : s = Size
  BY SizeAssumption
<1>. DEFINE Wrong == {t \in Slots : ~Finds(cells, head, n, t, f[t])}
<1>1. ASSUME NEW t \in Slots,
             \A u \in Slots : t < u => Finds(cells, head, n, u, f[u])
      PROVE  Finds(cells, head, n, t, f[t])
  <2>. DEFINE try  == Try(head, n, t)
              skip == FirstUsed(cells, try.at, n) + 1
              next == try.tested + skip
  <2>1. /\ try.at \in Nat /\ try.at + n <= Size
        /\ try.tested \in Nat /\ t <= try.tested
        /\ try.tested < Size => StartAt(head, try.tested) = try.at
        /\ \A u \in t..(try.tested - 1) :
             u < Size => ~FreeRun(cells, StartAt(head, u), n)
    BY TryIsNext DEF NoneFits
  <2>2. f[t] = Answer(cells, head, n, f, t)
    OBVIOUS
  <2>3. CASE FreeRun(cells, try.at, n)
    <3>1. f[t] = [head |-> try.at, found |-> TRUE]
      BY <2>2, <2>3 DEF Answer
    <3>2. ASSUME NEW u \in t..(Size - 1), FreeRun(cells, StartAt(head, u), n),
                 \A w \in t..(u - 1) : ~FreeRun(cells, StartAt(head, w), n)
          PROVE  u = try.tested /\ StartAt(head, u) = try.at
      <4>. HIDE DEF try
      <4>1. ~(u < try.tested)
        BY <2>1, <3>2 DEF Slots
      <4>2. ~(try.tested < u)
        BY <2>1, <2>3, <3>2 DEF Slots
      <4>. QED BY <4>1, <4>2, <2>1, <3>2 DEF Slots
    <3>3. try.at \in Slots
      <4>. HIDE DEF try
      <4>. QED BY <2>1 DEF Slots
    <3>. HIDE DEF try
    <3>4. \A u \in t..(Size - 1) :
            /\ FreeRun(cells, StartAt(head, u), n)
            /\ \A w \in t..(u - 1) : ~FreeRun(cells, StartAt(head, w), n)
            => f[t] = [head |-> StartAt(head, u), found |-> TRUE]
      BY <3>1, <3>2
    <3>5. try.at \in 0..Size
      BY <3>3 DEF Slots
    <3>. QED BY <3>1, <3>3, <3>4, <3>5, <2>3 DEF Finds
  <2>4. CASE ~FreeRun(cells, try.at, n)
    <3>1. /\ skip \in 1..n /\ try.at + skip \in 0..Size
          /\ next \in Nat /\ t < next
          /\ \A u \in t..(next - 1) :
               u < Size => ~FreeRun(cells, StartAt(head, u), n)
      <4>1. /\ skip \in 1..n /\ try.at + skip \in 0..Size
            /\ next \in Nat /\ t < next
            /\ NoneFits(cells, head, n, t, next)
        BY <2>4, SkipIsSafe
      <4>. HIDE DEF try, skip, next
      <4>. QED BY <4>1 DEF NoneFits
    <3>2. CASE next >= Size
      <4>1. f[t] = [head |-> try.at + skip, found |-> FALSE]
        BY <2>2, <2>4, <3>2 DEF Answer
      <4>. HIDE DEF try, skip, next
      <4>2. \A u \in t..(Size - 1) : ~FreeRun(cells, StartAt(head, u), n)
        BY <3>1, <3>2 DEF Slots
      <4>. QED BY <4>1, <4>2, <3>1 DEF Finds
    <3>3. CASE ~(next >= Size)
      <4>1. f[t] = f[next]
        BY <2>2, <2>4, <3>3 DEF Answer
      <4>. HIDE DEF try, skip, next
      <4>2. next \in Slots
        BY <3>1, <3>3 DEF Slots
      <4>3. Finds(cells, head, n, next, f[next])
        BY <4>2, <3>1, <1>1
      <4>4. ASSUME NEW u \in t..(Size - 1), FreeRun(cells, StartAt(head, u), n),
                   \A w \in t..(u - 1) : ~FreeRun(cells, StartAt(head, w), n)
            PROVE  f[next] = [head |-> StartAt(head, u), found |-> TRUE]
        <5>1. u \in next..(Size - 1)
          BY <3>1, <4>4 DEF Slots
        <5>2. \A w \in next..(u - 1) : w \in t..(u - 1)
          BY <3>1 DEF Slots
        <5>. QED BY <5>1, <5>2, <4>3, <4>4 DEF Finds
      <4>. QED BY <4>1, <4>3, <4>4 DEF Finds
    <3>. QED BY <3>2, <3>3
  <2>. QED BY <2>3, <2>4
<1>2. Wrong = {}
  <2>. SUFFICES ASSUME Wrong # {} PROVE FALSE
    OBVIOUS
  <2>1. Wrong \in SUBSET (0..(s - 1)) /\ s - 1 \in Nat
    BY DEF Slots
  <2>2. PICK t \in Wrong : \A y \in Wrong : y <= t
    <3>. HIDE DEF Wrong
    <3>. QED BY <2>1, GreatestNumber
  <2>3. \A u \in Slots : t < u => Finds(cells, head, n, u, f[u])
    BY <2>2 DEF Slots
  <2>. QED BY <1>1, <2>2, <2>3
<1>. QED BY <1>2

(* The slot that whisper_kv_cache_find_slot comes back with lies in the row   *)
(* and is free; it finds one exactly if there is one, and never one behind a  *)
(* run at or after its head.                                                  *)
THEOREM SlotSearchIsFirstFit ==
  ASSUME NEW cells, NEW head \in 0..Size, NEW n \in Nat \ {0}
  PROVE  LET slot == FindSlot(cells, head, n)
         IN  /\ slot.head \in 0..Size /\ slot.found \in BOOLEAN
             /\ slot.found => slot.head \in Slots /\ FreeRun(cells, slot.head, n)
             /\ slot.found <=> \E h \in Slots : FreeRun(cells, h, n)
             /\ \A h \in Slots : head <= h /\ FreeRun(cells, h, n) => slot.head <= h
<1>. PICK s \in Nat \ {0} : s = Size
  BY SizeAssumption
<1>. DEFINE slot == FindSlot(cells, head, n)
<1>1. CASE n > Size
  <2>1. slot = [head |-> head, found |-> FALSE]
    BY <1>1 DEF FindSlot
  <2>2. \A h \in Slots : ~FreeRun(cells, h, n)
    BY <1>1 DEF FreeRun, Slots
  <2>. QED BY <2>1, <2>2
<1>2. CASE ~(n > Size)
  <2>1. n \in 1..Size
    BY <1>2
  <2>2. PICK f : /\ \A t \in Slots : f[t] = Answer(cells, head, n, f, t)
                 /\ slot = f[0]
    BY <2>1, FindSlotSearches
  <2>. HIDE DEF slot
  <2>3. Finds(cells, head, n, 0, slot)
    <3>1. \A t \in Slots : Finds(cells, head, n, t, f[t])
      BY <2>1, <2>2, SearchFinds
    <3>2. 0 \in Slots
      BY DEF Slots
    <3>. QED BY <3>1, <3>2, <2>2
  <2>4. ASSUME NEW h \in Slots, FreeRun(cells, h, n)
        PROVE  slot.found /\ (head <= h => slot.head <= h)
    <3>. DEFINE Fit == {u \in Slots : FreeRun(cells, StartAt(head, u), n)}
    <3>1. PICK v \in Slots : /\ StartAt(head, v) = h
                             /\ head <= h => v = h - head
      <4>1. CASE head <= h
        <5>1. h - head \in Slots
          BY <4>1 DEF Slots
        <5>2. StartAt(head, h - head) = IF head + (h - head) < Size THEN head + (h - head)
                                        ELSE head + (h - head) - Size
          BY <5>1, StartIsInRow
        <5>3. StartAt(head, h - head) = h
          BY <5>2 DEF Slots
        <5>. QED BY <5>1, <5>3
      <4>2. CASE ~(head <= h)
        <5>1. h - head + s \in Slots
          BY <4>2 DEF Slots
        <5>2. StartAt(head, h - head + s) =
                IF head + (h - head + s) < Size THEN head + (h - head + s)
                ELSE head + (h - head + s) - Size
          BY <5>1, StartIsInRow
        <5>3. StartAt(head, h - head + s) = h
          BY <5>2 DEF Slots
        <5>. QED BY <5>1, <5>3, <4>2
      <4>. QED BY <4>1, <4>2
    <3>2. v \in Fit
      BY <3>1, <2>4
    <3>3. PICK u \in Fit : \A w \in Fit : u <= w
      <4>1. Fit \in SUBSET Nat /\ Fit # {}
        BY <3>2 DEF Slots
      <4>. HIDE DEF Fit
      <4>. QED BY <4>1, LeastNumber
    <3>4. slot = [head |-> StartAt(head, u), found |-> TRUE]
      <4>1. u \in 0..(Size - 1) /\ FreeRun(cells, StartAt(head, u), n)
        BY <3>3 DEF Slots
      <4>2. \A w \in 0..(u - 1) : ~FreeRun(cells, StartAt(head, w), n)
        BY <3>3 DEF Slots
      <4>. QED BY <4>1, <4>2, <2>3 DEF Finds
    <3>5. u <= v /\ u \in Slots
      BY <3>2, <3>3
    <3>6. head <= h => StartAt(head, u) <= h
      <4>1. StartAt(head, u) = IF head + u < Size THEN head + u ELSE head + u - Size
        BY <3>5, StartIsInRow
      <4>. QED BY <4>1, <3>1, <3>5 DEF Slots
    <3>. QED BY <3>4, <3>6
  <2>5. /\ slot.head \in 0..Size /\ slot.found \in BOOLEAN
        /\ slot.found => slot.head \in Slots /\ FreeRun(cells, slot.head, n)
    BY <2>3 DEF Finds
  <2>. QED BY <2>4, <2>5 DEF slot
<1>. QED BY <1>1, <1>2

-----------------------------------------------------------------------------
(* The other operators                                                        *)

\* A row of cells for the sequences S, with data from D.
Cells(S, D) == [Slots -> [pos : Int, seqs : SUBSET S, data : D]]

\* Sequence s attends to cell k.
Attends(cells, s, k) == InUse(cells, k) /\ s \in cells[k].seqs

\* A cell is in use exactly while a sequence attends to it.
Owned(cells) == \A k \in Slots : InUse(cells, k) <=> cells[k].seqs # {}

SameToken(c, d, k) == c[k].pos = d[k].pos /\ c[k].data = d[k].data

\* Copying a sequence: dst attends to what src attends to as well.
LEMMA SeqCpShares ==
  ASSUME NEW S, NEW D, NEW c \in Cells(S, D), NEW src, NEW dst \in S
  PROVE  /\ SeqCp(c, src, dst) \in Cells(S, D)
         /\ \A k \in Slots :
              /\ SameToken(c, SeqCp(c, src, dst), k)
              /\ InUse(SeqCp(c, src, dst), k) <=> InUse(c, k)
              /\ \A s : Attends(SeqCp(c, src, dst), s, k)
                        <=> Attends(c, s, k) \/ (s = dst /\ Attends(c, src, k))
         /\ Owned(c) => Owned(SeqCp(c, src, dst))
<1>. DEFINE d == SeqCp(c, src, dst)
<1>1. ASSUME NEW k \in Slots
      PROVE  /\ d[k] \in [pos : Int, seqs : SUBSET S, data : D]
             /\ d[k].pos = c[k].pos /\ d[k].data = c[k].data
             /\ d[k].seqs = IF InUse(c, k) /\ src \in c[k].seqs
                            THEN c[k].seqs \cup {dst} ELSE c[k].seqs
  <2>1. c[k] \in [pos : Int, seqs : SUBSET S, data : D]
    BY DEF Cells
  <2>3. CASE InUse(c, k) /\ src \in c[k].seqs
    <3>1. d[k] = [c[k] EXCEPT !.seqs = @ \cup {dst}]
      BY <2>3 DEF SeqCp
    <3>2. c[k].seqs \cup {dst} \in SUBSET S
      BY <2>1
    <3>. HIDE DEF d
    <3>. QED BY <3>1, <3>2, <2>1, <2>3
  <2>4. CASE ~(InUse(c, k) /\ src \in c[k].seqs)
    <3>1. d[k] = c[k]
      BY <2>4 DEF SeqCp
    <3>. HIDE DEF d
    <3>. QED BY <3>1, <2>1, <2>4
  <2>. QED BY <2>3, <2>4
<1>3. d \in Cells(S, D)
  <2>1. \A k \in Slots : d[k] \in [pos : Int, seqs : SUBSET S, data : D]
    <3>. HIDE DEF d
    <3>. QED BY <1>1
  <2>. QED BY <2>1 DEF SeqCp, Cells
<1>. HIDE DEF d
<1>2. ASSUME NEW k \in Slots
      PROVE  /\ SameToken(c, d, k) /\ (InUse(d, k) <=> InUse(c, k))
             /\ \A s : Attends(d, s, k)
                       <=> Attends(c, s, k) \/ (s = dst /\ Attends(c, src, k))
             /\ (InUse(c, k) <=> c[k].seqs # {}) => (InUse(d, k) <=> d[k].seqs # {})
  <2>1. SameToken(c, d, k) /\ (InUse(d, k) <=> InUse(c, k))
    BY <1>1 DEF SameToken, InUse
  <2>2. d[k].seqs = IF InUse(c, k) /\ src \in c[k].seqs
                    THEN c[k].seqs \cup {dst} ELSE c[k].seqs
    BY <1>1
  <2>. QED BY <2>1, <2>2 DEF Attends
<1>. QED BY <1>2, <1>3 DEF Owned, d

\* Removing a sequence: it attends to nothing any more, and a cell that loses
\* its last sequence is free.
LEMMA SeqRmTakes ==
  ASSUME NEW S, NEW D, NEW c \in Cells(S, D), NEW seq
  PROVE  /\ SeqRm(c, seq) \in Cells(S, D)
         /\ \A k \in Slots :
              /\ InUse(SeqRm(c, seq), k) => InUse(c, k) /\ SameToken(c, SeqRm(c, seq), k)
              /\ \A s : Attends(SeqRm(c, seq), s, k) <=> Attends(c, s, k) /\ s # seq
         /\ Owned(c) => Owned(SeqRm(c, seq))
<1>. DEFINE d == SeqRm(c, seq)
<1>1. ASSUME NEW k \in Slots
      PROVE  /\ d[k] \in [pos : Int, seqs : SUBSET S, data : D]
             /\ d[k].pos = IF InUse(c, k) /\ c[k].seqs = {seq} THEN -1 ELSE c[k].pos
             /\ d[k].seqs = IF InUse(c, k) THEN c[k].seqs \ {seq} ELSE c[k].seqs
             /\ d[k].data = c[k].data
  <2>1. c[k] \in [pos : Int, seqs : SUBSET S, data : D]
    BY DEF Cells
  <2>3. CASE InUse(c, k) /\ c[k].seqs = {seq}
    <3>1. d[k] = FreeCell(c[k].data)
      BY <2>3 DEF SeqRm
    <3>2. c[k].seqs \ {seq} = {}
      BY <2>3
    <3>. HIDE DEF d
    <3>. QED BY <3>1, <3>2, <2>1, <2>3 DEF FreeCell
  <2>4. CASE InUse(c, k) /\ seq \in c[k].seqs /\ c[k].seqs # {seq}
    <3>1. d[k] = [c[k] EXCEPT !.seqs = @ \ {seq}]
      BY <2>4 DEF SeqRm
    <3>. HIDE DEF d
    <3>2. c[k].seqs \ {seq} \in SUBSET S
      BY <2>1
    <3>. QED BY <3>1, <3>2, <2>1, <2>4
  <2>5. CASE ~(InUse(c, k) /\ seq \in c[k].seqs)
    <3>1. d[k] = c[k]
      BY <2>5 DEF SeqRm
    <3>2. InUse(c, k) => c[k].seqs \ {seq} = c[k].seqs
      BY <2>5
    <3>. HIDE DEF d
    <3>. QED BY <3>1, <3>2, <2>1, <2>5
  <2>. QED BY <2>3, <2>4, <2>5
<1>3. d \in Cells(S, D)
  <2>1. \A k \in Slots : d[k] \in [pos : Int, seqs : SUBSET S, data : D]
    <3>. HIDE DEF d
    <3>. QED BY <1>1
  <2>. QED BY <2>1 DEF SeqRm, Cells
<1>. HIDE DEF d
<1>2. ASSUME NEW k \in Slots
      PROVE  /\ InUse(d, k) => (InUse(c, k) /\ SameToken(c, d, k))
             /\ \A s : Attends(d, s, k) <=> Attends(c, s, k) /\ s # seq
             /\ (InUse(c, k) <=> c[k].seqs # {}) => (InUse(d, k) <=> d[k].seqs # {})
  <2>1. CASE InUse(c, k) /\ c[k].seqs = {seq}
    <3>1. d[k].pos = -1 /\ d[k].seqs = {}
      BY <2>1, <1>1
    <3>. QED BY <3>1, <2>1 DEF InUse, Attends
  <2>2. CASE ~(InUse(c, k) /\ c[k].seqs = {seq})
    <3>1. /\ d[k].pos = c[k].pos /\ d[k].data = c[k].data
          /\ d[k].seqs = IF InUse(c, k) THEN c[k].seqs \ {seq} ELSE c[k].seqs
      BY <2>2, <1>1
    <3>2. SameToken(c, d, k) /\ (InUse(d, k) <=> InUse(c, k))
      BY <3>1 DEF SameToken, InUse
    <3>. QED BY <3>1, <3>2, <2>2 DEF Attends
  <2>. QED BY <2>1, <2>2
<1>. QED BY <1>2, <1>3 DEF Owned, d

\* Cells d hold the batch in the run of n from h on, free in c, and otherwise
\* what c holds.
HoldsBatch(c, d, h, n, batch) ==
  \A k \in Slots : IF k - h \in 0..(n - 1)
                   THEN ~InUse(c, k) /\ d[k] = batch[k - h]
                   ELSE d[k] = c[k]

\* Writing a batch into a free run: its cells hold the batch, the others what
\* they held.
LEMMA WrittenHoldsBatch ==
  ASSUME NEW S, NEW D, NEW c \in Cells(S, D), Owned(c),
         NEW n \in Nat, NEW h \in Slots, FreeRun(c, h, n),
         NEW batch \in [0..(n - 1) -> [pos : Nat, seqs : (SUBSET S) \ {{}}, data : D]]
  PROVE  /\ Written(c, h, batch) \in Cells(S, D)
         /\ Owned(Written(c, h, batch))
         /\ HoldsBatch(c, Written(c, h, batch), h, n, batch)
         /\ \A b \in 0..(n - 1) : h + b \in Slots
<1>. DEFINE d == Written(c, h, batch)
<1>. PICK s \in Nat \ {0} : s = Size
  BY SizeAssumption
<1>1. ASSUME NEW k \in Slots
      PROVE  IF k - h \in 0..(n - 1)
             THEN ~InUse(c, k) /\ d[k] = batch[k - h] /\ d[k].seqs # {} /\ d[k].pos >= 0
             ELSE d[k] = c[k]
  <2>1. DOMAIN batch = 0..(n - 1)
    OBVIOUS
  <2>2. CASE k - h \in 0..(n - 1)
    <3>1. ~InUse(c, k) /\ c[k].seqs = {}
      <4>1. k \in h..(h + n - 1)
        BY <2>2 DEF Slots
      <4>. QED BY <4>1 DEF FreeRun, Owned
    <3>2. d[k] = [batch[k - h] EXCEPT !.seqs = @ \cup c[k].seqs]
      BY <2>1, <2>2 DEF Written
    <3>3. batch[k - h] \in [pos : Nat, seqs : (SUBSET S) \ {{}}, data : D]
      BY <2>2
    <3>4. d[k] = batch[k - h]
      <4>1. batch[k - h].seqs \cup c[k].seqs = batch[k - h].seqs
        BY <3>1, <3>3
      <4>. QED BY <3>2, <3>3, <4>1
    <3>. HIDE DEF d
    <3>. QED BY <2>2, <3>1, <3>3, <3>4
  <2>3. CASE ~(k - h \in 0..(n - 1))
    BY <2>1, <2>3 DEF Written
  <2>. QED BY <2>2, <2>3
<1>2. d \in Cells(S, D)
  <2>1. ASSUME NEW k \in Slots PROVE d[k] \in [pos : Int, seqs : SUBSET S, data : D]
    <3>1. c[k] \in [pos : Int, seqs : SUBSET S, data : D]
      BY DEF Cells
    <3>2. k - h \in 0..(n - 1) =>
            batch[k - h] \in [pos : Int, seqs : SUBSET S, data : D]
      OBVIOUS
    <3>. HIDE DEF d
    <3>. QED BY <3>1, <3>2, <1>1
  <2>. QED BY <2>1 DEF Written, Cells
<1>3. Owned(d)
  <2>1. ASSUME NEW k \in Slots PROVE InUse(d, k) <=> d[k].seqs # {}
    <3>. HIDE DEF d
    <3>1. CASE k - h \in 0..(n - 1)
      BY <3>1, <1>1 DEF InUse
    <3>2. CASE ~(k - h \in 0..(n - 1))
      BY <3>2, <1>1 DEF InUse, Owned
    <3>. QED BY <3>1, <3>2
  <2>. QED BY <2>1 DEF Owned
<1>4. \A b \in 0..(n - 1) : h + b \in Slots
  BY DEF FreeRun, Slots
<1>5. HoldsBatch(c, d, h, n, batch)
  BY <1>1 DEF HoldsBatch
<1>. QED BY <1>2, <1>3, <1>4, <1>5

\* The cells looked at include every used one.
LEMMA CellMaxCovers ==
  ASSUME NEW cells
  PROVE  /\ CellMax(cells) \in 1..Size
         /\ \A k \in Slots : InUse(cells, k) /\ cells[k].seqs # {} => k < CellMax(cells)
<1>. PICK s \in Nat \ {0} : s = Size
  BY SizeAssumption
<1>. DEFINE used == {k \in Slots \ {0} : InUse(cells, k) /\ cells[k].seqs # {}}
<1>1. CASE used = {}
  <2>1. CellMax(cells) = 1
    BY <1>1 DEF CellMax
  <2>. QED BY <2>1, <1>1 DEF Slots
<1>2. CASE used # {}
  <2>. DEFINE top == CHOOSE k \in used : \A l \in used : l <= k
  <2>1. CellMax(cells) = 1 + top
    BY <1>2 DEF CellMax
  <2>2. used \in SUBSET (0..(s - 1)) /\ s - 1 \in Nat
    BY DEF Slots
  <2>. HIDE DEF used
  <2>3. \E k \in used : \A l \in used : l <= k
    BY <1>2, <2>2, GreatestNumber
  <2>4. top \in used /\ \A l \in used : l <= top
    BY <2>3
  <2>. HIDE DEF top
  <2>5. \A k \in Slots : InUse(cells, k) /\ cells[k].seqs # {} => k < 1 + top
    BY <2>2, <2>4 DEF used, Slots
  <2>. QED BY <2>1, <2>2, <2>4, <2>5
<1>. QED BY <1>1, <1>2

\* The head moves to a used cell, or not at all.
LEMMA HeadAfterRmIsNear ==
  ASSUME NEW cells, NEW head, NEW seq
  PROVE  \/ HeadAfterRm(cells, head, seq) = head
         \/ /\ HeadAfterRm(cells, head, seq) \in Slots
            /\ InUse(cells, HeadAfterRm(cells, head, seq))
<1>. DEFINE freed == {k \in Slots : InUse(cells, k) /\ cells[k].seqs = {seq}}
<1>1. CASE freed = {}
  BY <1>1 DEF HeadAfterRm
<1>2. CASE freed # {}
  <2>1. freed \in SUBSET Nat
    BY SizeAssumption DEF Slots
  <2>2. \E k \in freed : \A l \in freed : k <= l
    <3>. HIDE DEF freed
    <3>. QED BY <1>2, <2>1, LeastNumber
  <2>3. HeadAfterRm(cells, head, seq) \in freed
    BY <1>2, <2>2 DEF HeadAfterRm
  <2>. QED BY <2>3
<1>. QED BY <1>1, <1>2
=============================================================================
