------------------------------- MODULE KvCache -------------------------------
(* The self-attention cache of whisper.cpp, whisper_kv_cache: a fixed row of  *)
(* cells, each holding one token's keys and values (`data`), its position     *)
(* (-1: free) and the sequences that may attend to it.  Every operator maps   *)
(* the old row and head to the new ones.                                      *)
EXTENDS Integers, FiniteSets

CONSTANT Size                \* kv_self.size

ASSUME SizeAssumption == Size \in Nat \ {0}

Slots == 0..(Size - 1)
FreeCell(data) == [pos |-> -1, seqs |-> {}, data |-> data]
InUse(cells, i) == cells[i].pos >= 0

\* The keys and values of a freed cell stay until they are written over.
Cleared_Faulty(cells) == cells
Cleared(cells) == [i \in Slots |-> FreeCell(cells[i].data)]

\* n free cells in a row, from h on.
FreeRun(cells, h, n) ==
  h + n <= Size /\ \A i \in h..(h + n - 1) : ~InUse(cells, i)

\* The first used cell of the n from h on, counted from h.
FirstUsed(cells, h, n) ==
  CHOOSE i \in 0..(n - 1) :
    InUse(cells, h + i) /\ \A k \in 0..(i - 1) : ~InUse(cells, h + k)

\* The try of the search for n cells when `tested` cells lie behind it: it is
\* that far from head, around the end, and at cell 0 if n cells do not fit
\* before the end, the cells skipped counted as tested.
Try_Faulty(head, n, tested) ==
  LET at == (head + tested) % Size IN
  IF at + n >= Size THEN [at |-> 0, tested |-> tested + Size - at]
  ELSE [at |-> at, tested |-> tested]
Try(head, n, tested) ==
  LET at == (head + tested) % Size IN
  IF at + n > Size THEN [at |-> 0, tested |-> tested + Size - at]
  ELSE [at |-> at, tested |-> tested]

\* The search for n cells in a row from head on: where it ends, and whether
\* with success.  A failed try moves it behind the used cell it met.
FindSlot(cells, head, n) ==
  LET Search[tested \in Slots] ==
        LET try  == Try(head, n, tested)
            skip == FirstUsed(cells, try.at, n) + 1
        IN  IF FreeRun(cells, try.at, n) THEN [head |-> try.at, found |-> TRUE]
            ELSE IF try.tested + skip >= Size
                 THEN [head |-> try.at + skip, found |-> FALSE]
            ELSE Search[try.tested + skip]
  IN  IF n > Size THEN [head |-> head, found |-> FALSE] ELSE Search[0]

\* batch, a function on 0..n-1, written into the cells from h on.
Written(cells, h, batch) ==
  [i \in Slots |-> IF i - h \in DOMAIN batch
                   THEN [batch[i - h] EXCEPT !.seqs = @ \cup cells[i].seqs]
                   ELSE cells[i]]

\* How many cells from the first on are looked at: the last used one counts.
CellMax_Faulty(cells) ==
  LET used == {i \in Slots : InUse(cells, i) /\ cells[i].seqs # {}}
  IN  IF used = {} THEN 1 ELSE CHOOSE i \in used : \A k \in used : k <= i
CellMax(cells) ==
  LET used == {i \in Slots \ {0} : InUse(cells, i) /\ cells[i].seqs # {}}
  IN  IF used = {} THEN 1 ELSE 1 + CHOOSE i \in used : \A k \in used : k <= i

\* Every cell sequence seq attends to loses it, at any position (p0 and p1 are -1
\* and seq is not negative in the decoder's calls); a cell nobody attends to any
\* more is free.
SeqRm_Faulty(cells, seq) ==
  [i \in Slots |-> IF InUse(cells, i) /\ seq \in cells[i].seqs
                   THEN [cells[i] EXCEPT !.seqs = @ \ {seq}]
                   ELSE cells[i]]
SeqRm(cells, seq) ==
  [i \in Slots |-> IF InUse(cells, i) /\ seq \in cells[i].seqs
                   THEN IF cells[i].seqs = {seq} THEN FreeCell(cells[i].data)
                        ELSE [cells[i] EXCEPT !.seqs = @ \ {seq}]
                   ELSE cells[i]]

\* The head moves to the first cell that was freed.
HeadAfterRm(cells, head, seq) ==
  LET freed == {i \in Slots : InUse(cells, i) /\ cells[i].seqs = {seq}}
  IN  IF freed = {} THEN head ELSE CHOOSE i \in freed : \A k \in freed : i <= k

\* Everything sequence src attends to, dst attends to as well; the head moves
\* to the start.
SeqCp(cells, src, dst) ==
  [i \in Slots |-> IF InUse(cells, i) /\ src \in cells[i].seqs
                   THEN [cells[i] EXCEPT !.seqs = @ \cup {dst}]
                   ELSE cells[i]]
=============================================================================
