----------------------------- MODULE BeamDecoder -----------------------------
(* The decoding of one window in whisper_full_with_state: the prompt fills    *)
(* the cache for decoder 0, every decoder gets a copy, and then each step     *)
(* samples a token per live decoder, gives each the hypothesis it goes on     *)
(* with (beam search), and runs the batch of new tokens through the cache.    *)
(* Keys and values of a token depend on all the tokens before it, so a cell's *)
(* `data` is the sampled prefix that ends in its token; <<>> for the prompt.  *)
EXTENDS KvCache, Sequences

CONSTANTS
  NDecoders,     \* n_decoders_cur
  MaxDecoders,   \* WHISPER_MAX_DECODERS: MaxDecoders + j is decoder j's scratch
  PromptLen,
  MaxTokens,     \* n_max: tokens of a window
  Tokens,
  Strategies,    \* params.strategy: whether it is beam search
  MaxRounds      \* temperatures a window may be decoded at

ASSUME DecoderAssumption ==
  /\ NDecoders \in Nat \ {0} /\ MaxDecoders \in Nat /\ NDecoders <= MaxDecoders
  /\ PromptLen \in Nat \ {0} /\ MaxTokens \in Nat /\ MaxRounds \in Nat
  /\ Strategies \subseteq BOOLEAN
  /\ Size >= PromptLen + NDecoders * MaxTokens

Decoders == 0..(NDecoders - 1)
Scratch_Faulty(j) == MaxDecoders + j + 1
Scratch(j) == MaxDecoders + j

VARIABLES
  cells, head, n,   \* kv_self
  hist,             \* decoder.sequence.tokens
  status,           \* "live", "completed", "failed"
  cand,             \* beam_candidates: the sequences sampled from
  step,             \* program point
  turn,             \* j of the loop over the decoders
  i,                \* tokens decoded
  round,            \* temperatures tried
  beamSearch        \* params.strategy

decVars == <<cells, head, n, hist, status, cand, step, turn, i, round,
             beamSearch>>

Histories == UNION {[1..k -> Tokens] : k \in 0..(MaxTokens + 1)}
Live == {j \in Decoders : status[j] = "live"}

DecInit ==
  /\ cells = [k \in Slots |-> FreeCell(<<>>)] /\ head = 0 /\ n = 0
  /\ hist = [j \in Decoders |-> <<>>] /\ status = [j \in Decoders |-> "live"]
  /\ cand = hist /\ step = "prompt" /\ turn = 0 /\ i = 0 /\ round = 0
  /\ beamSearch \in Strategies

\* whisper_decode_internal: find a slot for the batch, write it, set kv_self.n.
Decode(batch, size, next) ==
  LET slot == FindSlot(cells, head, size)
  IN  /\ head' = slot.head
      /\ IF slot.found
         THEN /\ cells' = Written(cells, slot.head, batch)
              /\ n' = CellMax(cells') /\ step' = next
         ELSE /\ step' = "error" /\ UNCHANGED <<cells, n>>

\* A temperature: decoders reset, cache cleared, prompt decoded as sequence 0.
Prompt ==
  /\ step = "prompt"
  /\ hist' = [j \in Decoders |-> <<>>] /\ status' = [j \in Decoders |-> "live"]
  /\ LET slot  == FindSlot(Cleared(cells), 0, PromptLen)
         batch == [k \in 0..(PromptLen - 1) |->
                     [pos |-> k, seqs |-> {0}, data |-> <<>>]]
     IN  /\ head' = slot.head
         /\ IF slot.found
            THEN /\ cells' = Written(Cleared(cells), slot.head, batch)
                 /\ n' = CellMax(cells') /\ step' = "share"
            ELSE cells' = Cleared(cells) /\ step' = "error" /\ UNCHANGED n
  /\ turn' = 1 /\ i' = 0
  /\ UNCHANGED <<cand, round, beamSearch>>

\* Decoder `turn` gets a copy of the prompt.
Share ==
  /\ step = "share" /\ turn \in Decoders
  /\ cells' = SeqCp(cells, 0, turn) /\ head' = 0
  /\ turn' = turn + 1
  /\ UNCHANGED <<n, hist, status, cand, step, i, round, beamSearch>>

Shared ==
  /\ step = "share" /\ turn \notin Decoders
  /\ step' = "sample"
  /\ UNCHANGED <<cells, head, n, hist, status, cand, turn, i, round, beamSearch>>

\* Greedy: every live decoder goes on with a token of its own.  Beam search:
\* the candidates go on from copies of the sequences as they are now.
Sample ==
  /\ step = "sample" /\ i < MaxTokens
  /\ IF beamSearch
     THEN cand' = hist /\ step' = "copy" /\ UNCHANGED hist
     ELSE /\ \E token \in [Live -> Tokens] :
               hist' = [j \in Decoders |-> IF j \in Live THEN Append(hist[j], token[j])
                                           ELSE hist[j]]
          /\ step' = "update" /\ UNCHANGED cand
  /\ turn' = 0
  /\ UNCHANGED <<cells, head, n, status, i, round, beamSearch>>

Skip(j, then) ==
  IF j \in Decoders
  THEN j \notin Live /\ turn' = j + 1 /\ UNCHANGED step
  ELSE turn' = 0 /\ step' = then

\* Decoder `turn` takes a candidate, made by live decoder `source`, and keeps
\* the source's cells in its scratch sequence.
Copy_Faulty ==
  /\ step = "copy" /\ turn \in Live
  /\ \E source \in Live, token \in Tokens :
       /\ hist' = [hist EXCEPT ![turn] = Append(cand[source], token)]
       /\ cells' = SeqCp(SeqRm(cells, turn), source, turn)
  /\ head' = 0 /\ turn' = turn + 1
  /\ UNCHANGED <<n, status, cand, step, i, round, beamSearch>>
Copy ==
  /\ step = "copy" /\ turn \in Live
  /\ \E source \in Live, token \in Tokens :
       /\ hist' = [hist EXCEPT ![turn] = Append(cand[source], token)]
       /\ cells' = SeqCp(cells, source, Scratch(turn))
  /\ head' = 0 /\ turn' = turn + 1
  /\ UNCHANGED <<n, status, cand, step, i, round, beamSearch>>

CopyOn ==
  /\ step = "copy" /\ Skip(turn, "swap")
  /\ UNCHANGED <<cells, head, n, hist, status, cand, i, round, beamSearch>>

\* Decoder `turn` drops its old cells, takes those of its scratch sequence and
\* empties that.
Swap_KeepsScratch_Faulty ==
  /\ step = "swap" /\ turn \in Live
  /\ cells' = SeqCp(SeqRm(cells, turn), Scratch(turn), turn)
  /\ head' = 0 /\ turn' = turn + 1
  /\ UNCHANGED <<n, hist, status, cand, step, i, round, beamSearch>>
Swap ==
  /\ step = "swap" /\ turn \in Live
  /\ LET swapped == SeqCp(SeqRm(cells, turn), Scratch(turn), turn)
     IN  /\ cells' = SeqRm(swapped, Scratch(turn))
         /\ head' = HeadAfterRm(swapped, 0, Scratch(turn))
  /\ turn' = turn + 1
  /\ UNCHANGED <<n, hist, status, cand, step, i, round, beamSearch>>

SwapOn ==
  /\ step = "swap" /\ Skip(turn, "update")
  /\ UNCHANGED <<cells, head, n, hist, status, cand, i, round, beamSearch>>

\* Live decoders may complete or fail; with none left the window is decoded.
Update ==
  /\ step = "update"
  /\ \E now \in [Live -> {"live", "completed", "failed"}] :
       /\ status' = [j \in Decoders |-> IF j \in Live THEN now[j] ELSE status[j]]
       /\ step' = IF \E j \in Live : now[j] = "live" THEN "decode" ELSE "decoded"
  /\ UNCHANGED <<cells, head, n, hist, cand, turn, i, round, beamSearch>>

\* The k-th live decoder.
NthLive(k) ==
  CHOOSE j \in Live : Cardinality({l \in Live : l < j}) = k

\* The last token of every live decoder, at position n_past = PromptLen + i.
DecodeBatch ==
  /\ step = "decode"
  /\ Decode([k \in 0..(Cardinality(Live) - 1) |->
               [pos |-> PromptLen + i, seqs |-> {NthLive(k)}, data |-> hist[NthLive(k)]]],
            Cardinality(Live), "sample")
  /\ i' = i + 1
  /\ UNCHANGED <<hist, status, cand, turn, round, beamSearch>>

\* The loop ends at n_max tokens; another temperature may be tried.
Fallback ==
  /\ \/ step = "decoded"
     \/ step = "sample" /\ i = MaxTokens
  /\ round < MaxRounds
  /\ round' = round + 1 /\ step' = "prompt"
  /\ UNCHANGED <<cells, head, n, hist, status, cand, turn, i, beamSearch>>

DecNext ==
  \/ Prompt \/ Share \/ Shared \/ Sample \/ Copy \/ CopyOn \/ Swap \/ SwapOn
  \/ Update \/ DecodeBatch \/ Fallback

DecSpec == DecInit /\ [][DecNext]_decVars

-----------------------------------------------------------------------------
(* Properties                                                                 *)

Attended(j) == {k \in Slots : InUse(cells, k) /\ j \in cells[k].seqs}

\* The prefix a decoder with history h must find at a position.
PrefixAt(h, pos) == IF pos < PromptLen THEN <<>> ELSE SubSeq(h, 1, pos - PromptLen + 1)

\* Type invariant.
DecTypeOK ==
  /\ cells \in [Slots -> [pos : Int, seqs : SUBSET (0..(2 * MaxDecoders - 1)),
                          data : Histories]]
  /\ head \in 0..Size /\ n \in 0..Size
  /\ hist \in [Decoders -> Histories] /\ cand \in [Decoders -> Histories]
  /\ status \in [Decoders -> {"live", "completed", "failed"}]
  /\ step \in {"prompt", "share", "sample", "copy", "swap", "update", "decode",
               "decoded", "error"}
  /\ turn \in 0..NDecoders /\ i \in 0..MaxTokens /\ round \in 0..MaxRounds
  /\ beamSearch \in BOOLEAN

\* Whenever it samples, a live decoder attends to its own hypothesis: one cell
\* per position, computed from exactly the tokens it has, however the beams
\* were exchanged and cells were shared.
CacheIsHistory ==
  step = "sample" => \A j \in Live :
    /\ \A k \in Attended(j) :
         /\ cells[k].pos < PromptLen + i
         /\ cells[k].data = PrefixAt(hist[j], cells[k].pos)
    /\ \A pos \in 0..(PromptLen + i - 1) :
         \E k \in Attended(j) : \A l \in Attended(j) : cells[l].pos = pos <=> l = k

\* A cell is in use exactly while a sequence attends to it, and between two
\* steps only decoders do: nothing leaks into the scratch sequences.
CellsAreOwned ==
  /\ \A k \in Slots : InUse(cells, k) <=> cells[k].seqs # {}
  /\ step \in {"sample", "update", "decode"} =>
       \A k \in Slots : cells[k].seqs \subseteq Decoders

\* The attention looks at no fewer cells than hold a token.
MaskCoversCells ==
  step = "sample" => \A k \in Slots : InUse(cells, k) => k < n

\* A cache with cells for the prompt and for one token per decoder and step is
\* enough, fragmented as it gets by the exchange of beams: decoding never fails
\* for want of a slot (whisper.cpp overallocates against that).
SlotIsFound == step # "error"
=============================================================================
