------------------------------ MODULE FullDecode ------------------------------
(* A transcription from whisper_full_parallel to the last window: detection   *)
(* of speech, chunks for several processors, the windows of each chunk, the   *)
(* temperatures a window is decoded at, the tokens a decoder may sample, the   *)
(* segments and the rolling prompt they leave, and the merge of the chunks.    *)
(* What the context's default state keeps (mel, results, prompts, mapping)     *)
(* outlives a call.  A timestamp token is its number, two frames each; a frame *)
(* is a centisecond.  BeamDecoder models the decoders' exchange of beams and   *)
(* their cache; here one step is all of a temperature.  Left out: grammars,     *)
(* token-level timestamps, and the larger cache that cannot be allocated (-7),  *)
(* after which the context holds a freed state.                                *)
EXTENDS VadMapping

CONSTANTS
  Calls,          \* Calls[k]: the parameters and audio the k-th call may have
  MaxDecoders,    \* WHISPER_MAX_DECODERS
  MaxProcessors,
  ChunkFrames,    \* 100 * WHISPER_CHUNK_SIZE
  DeltaMin,       \* delta_min
  ShortTail,      \* the 500 frames before the end without past prompts
  MaxTokens,      \* n_max: tokens of a window
  TextCtx,        \* whisper_n_text_ctx / 2
  AudioCtx,       \* whisper_n_audio_ctx: half a frame's count
  EntropyLen,     \* the 32 tokens from which the entropy counts
  IntSpan,        \* the 2^32 values of an int, for the time of a chunk
  Beg             \* the id of the first timestamp token

ASSUME FullAssumption ==
  /\ MaxProcessors \in Nat \ {0} /\ MaxTokens \in Nat \ {0}
  /\ ChunkFrames \in Nat \ {0} /\ DeltaMin \in Nat /\ ShortTail \in Nat
  /\ TextCtx \in Nat \ {0} /\ Beg \in Nat
  /\ AudioCtx \in Nat /\ ChunkFrames <= 2 * AudioCtx
  /\ Calls # <<>> /\ Calls \in Seq(SUBSET UNION Range(Calls))
  /\ \A k \in DOMAIN Calls : \A p \in Calls[k] :
       /\ p.processors \in 1..MaxProcessors
       /\ p.prompt \in Nat /\ p.n_max_text_ctx \in Int
       /\ p.samples \in Nat /\ p.offset \in Nat /\ p.duration \in Int
       /\ p.max_speech \in Int
       /\ p.vads \subseteq Seq({"speech", "between", "silence"})
       /\ \A probs \in p.vads : Len(probs) = NumChunks(p.samples)
ASSUME IntAssumption == IntSpan \in Nat \ {0}

VARIABLES
  call,    \* how many calls were made: names what a call leaves behind
  par,     \* the parameters of this one
  audio,   \* its samples, without silence if speech was detected
  main,    \* program point of whisper_full_parallel
  st,      \* st[c]: whisper_state; 0 is the default state of the context
  th       \* th[c]: the variables of whisper_full_with_state for chunk c; its
           \* heard and aborted are history

fullVars == <<call, par, audio, main, st, th>>

Chunks == 0..(MaxProcessors - 1)

Trunc(a, b) == IF a < 0 THEN -((-a) \div b) ELSE a \div b
\* mel.n_len_org: a frame is two and a half hops, padded by half of it.
MelFrames(samples) ==
  1 + Trunc(samples + (5 * SamplesPerCs) \div 4 - (5 * SamplesPerCs) \div 2, SamplesPerCs)

-------------------------------------------------------------------------------
(* The tokens of a window.                                                    *)

Text == -1
Eot  == -2
Stamps == 0..(ChunkFrames \div 2)
IsStamp(token) == token >= 0

Fresh == [tokens |-> <<>>, tid |-> 0, delta |-> ChunkFrames, has_ts |-> FALSE,
          len |-> 0, status |-> "live"]

\* whisper_process_logits: the timestamps a decoder may sample next.
StampsLeft_Faulty(p, r) ==
  {t \in Stamps : /\ ~p.no_timestamps
                  /\ r.tokens = <<>> /\ p.max_initial_ts > 0 => t <= p.max_initial_ts}
StampsLeft(p, r) ==
  {t \in Stamps : /\ ~p.no_timestamps
                  /\ r.tokens = <<>> /\ p.max_initial_ts > 0 => t <= p.max_initial_ts
                  /\ r.has_ts => t >= r.delta \div 2}

\* Timestamps appear in pairs, except directly before the end.
Allowed(p, r) ==
  LET k == Len(r.tokens)
      lastWas == k > 0 /\ IsStamp(r.tokens[k])
      lastTwo == lastWas /\ (k < 2 \/ IsStamp(r.tokens[k - 1]))
  IN  (IF lastTwo THEN {} ELSE StampsLeft(p, r))
      \cup (IF lastWas /\ ~lastTwo THEN {} ELSE {Text})
      \cup (IF k = 0 /\ p.suppress_blank THEN {} ELSE {Eot})

\* tid: the likeliest timestamp; that of the first token starts the window.
Tids(p, r, token) ==
  IF r.tokens # <<>> THEN {r.tid}
  ELSE IF IsStamp(token) THEN {token}
  ELSE IF StampsLeft(p, r) = {} THEN {IF p.beam_size > 0 THEN 0 ELSE -Beg}
  ELSE StampsLeft(p, r)

\* Every timestamp but the one of the window's begin moves the window.
MovesWindow_Faulty(token) == token >= 0
MovesWindow(token) == token > 0

\* The update of a decoder with its newest token; left: frames to seek_end.
Updated(p, r, left) ==
  LET token == Last(r.tokens)
      i     == Len(r.tokens) - 1
      back  == MovesWindow(token) /\ r.has_ts /\ r.delta > 2 * token /\ r.len < i
      moved == IF MovesWindow(token)
               THEN [r EXCEPT !.delta = 2 * token, !.len = i + 1, !.has_ts = TRUE]
               ELSE r
      atEnd == moved.delta + DeltaMin >= left
      ends  == \/ token = Eot
               \/ p.max_tokens > 0 /\ i >= p.max_tokens
               \/ moved.has_ts /\ atEnd
      unstamped == moved.len = 0 /\ ~p.no_timestamps
      whole == p.single_segment \/ p.no_timestamps
  IN  IF back THEN [r EXCEPT !.status = "failed"]
      ELSE IF ends /\ unstamped /\ ~atEnd THEN [moved EXCEPT !.status = "failed"]
      ELSE IF ends
      THEN [moved EXCEPT !.status = "completed",
                         !.len = IF unstamped \/ whole THEN i + 1 ELSE @,
                         !.delta = IF whole THEN ChunkFrames ELSE @]
      ELSE IF i = MaxTokens - 1 /\ (moved.len = 0 \/ moved.delta < ChunkFrames \div 2)
      THEN [moved EXCEPT !.status = "failed"]
      ELSE moved

Grown(p, r, left) ==
  IF r.status # "live" THEN {r}
  ELSE UNION {{Updated(p, [r EXCEPT !.tokens = Append(@, token), !.tid = tid], left) :
                 tid \in Tids(p, r, token)} : token \in Allowed(p, r)}

\* What a decoder may come to, by the number of its steps.
Run == [tokens : Seq(Stamps \cup {Text, Eot}), tid : Int, delta : 0..ChunkFrames,
        has_ts : BOOLEAN, len : Nat, status : {"live", "completed", "failed"}]
Runs(p, left) ==
  LET after[k \in 0..MaxTokens] ==
        IF k = 0 THEN {Fresh} ELSE UNION {Grown(p, r, left) : r \in after[k - 1]}
  IN  after[MaxTokens]

\* The outcomes of a decoder once it is ranked, by the frames to the end: more
\* than a window can reach are alike.  low: its average probability is below
\* the threshold, always so for one that failed before it was ranked.
Params == UNION Range(Calls)
Far    == ChunkFrames + DeltaMin + 1
Lefts  == 0..Far
Outcomes == [p \in Params |-> [left \in Lefts |->
  LET runs   == Runs(p, left)
      ended  == {[r EXCEPT !.tokens = SubSeq(@, 1, r.len)] :
                   r \in {q \in runs : q.status # "failed"}}
      loops  == {[r EXCEPT !.status = "failed"] : r \in {q \in ended : q.len > EntropyLen}}
      failed == {q \in runs : q.status = "failed"}
  IN  [run : ended \cup loops, low : BOOLEAN] \cup [run : failed, low : {TRUE}]]]
Failed(o) == o.run.status = "failed"

-------------------------------------------------------------------------------
(* The state of a chunk.                                                      *)

NoMel == [by |-> 0, lo |-> 0, frames |-> 0]
FreeState == [results |-> <<>>, mel |-> NoMel, past0 |-> <<>>, past1 |-> <<>>]

NoBest == [id |-> 0, low |-> TRUE, run |-> Fresh]
Idle == [at |-> "idle", lo |-> 0, hi |-> 0, offset |-> 0, seek |-> 0, seek_end |-> 0,
         it |-> 1, best |-> NoBest, quiet |-> FALSE, prompt |-> <<>>, ret |-> 0,
         heard |-> {}, aborted |-> FALSE]

MaxPromptCtx(p) == AtMost(p.n_max_text_ctx, TextCtx)
NumDecoders(p) == AtLeast(1, AtLeast(p.best_of, p.beam_size))
DecodersAt(p, temperature) ==
  AtLeast(1, IF temperature > 0 THEN p.best_of
             ELSE IF p.beam_size > 0 THEN p.beam_size ELSE 1)

Tokens(n) == [k \in 1..n |-> call]
LastOf(s, n) == SubSeq(s, Len(s) - n + 1, Len(s))

\* The past prompts a call starts with.
Forgotten_Faulty(p, s) == IF p.no_context THEN [s EXCEPT !.past0 = <<>>] ELSE s
Forgotten(p, s) ==
  IF p.no_context THEN [s EXCEPT !.past0 = <<>>, !.past1 = <<>>] ELSE s
WithPrompt(p, s) ==
  IF p.prompt = 0 THEN s
  ELSE IF ~p.carry_initial_prompt THEN [s EXCEPT !.past1 = Tokens(p.prompt) \o @]
  ELSE IF s.past0 # <<>> THEN s
  ELSE [s EXCEPT !.past0 = Tokens(AtMost(p.prompt, AtLeast(1, MaxPromptCtx(p) - 1)))]

Finish(c, ret) == [th[c] EXCEPT !.at = "done", !.ret = ret]
SetThread(c, t) == th' = [th EXCEPT ![c] = t]

\* whisper_full_with_state up to the loop.
Begin(c) ==
  LET t     == th[c]
      clear == [st[c] EXCEPT !.results = <<>>]
      mel   == IF t.hi - t.lo > 0
               THEN [by |-> call, lo |-> t.lo, frames |-> MelFrames(t.hi - t.lo)]
               ELSE st[c].mel
      ready == [clear EXCEPT !.mel = mel]
      s     == WithPrompt(par, Forgotten(par, ready))
      start == t.offset
      end   == IF par.duration = 0 THEN mel.frames ELSE start + par.duration
  IN  /\ t.at = "begin"
      /\ \/ /\ t.hi - t.lo > 0
            /\ st' = [st EXCEPT ![c] = clear] /\ SetThread(c, Finish(c, -2))
         \/ /\ par.language # "given"
            /\ st' = [st EXCEPT ![c] = ready] /\ SetThread(c, Finish(c, -3))
         \/ /\ par.language = "detect" /\ mel.frames > 0
            /\ st' = [st EXCEPT ![c] = ready] /\ SetThread(c, Finish(c, 0))
         \/ /\ par.language = "given" \/ (par.language = "auto" /\ mel.frames > 0)
            /\ IF end < start + DeltaMin
               THEN st' = [st EXCEPT ![c] = ready] /\ SetThread(c, Finish(c, 0))
               ELSE IF NumDecoders(par) > MaxDecoders
               THEN st' = [st EXCEPT ![c] = ready] /\ SetThread(c, Finish(c, -4))
               ELSE /\ st' = [st EXCEPT ![c] = s]
                    /\ IF par.audio_ctx > AudioCtx THEN SetThread(c, Finish(c, -5))
                       ELSE SetThread(c, [t EXCEPT !.at = "window", !.seek = start,
                                                   !.seek_end = end])
      /\ UNCHANGED <<call, par, audio, main>>

\* The head of the loop, and the encoder.
WindowFrames(p) == 2 * (IF p.audio_ctx > 0 THEN p.audio_ctx ELSE AudioCtx)
Window(c) ==
  LET t    == th[c]
      tail == t.seek > t.offset /\ t.seek + ShortTail >= t.seek_end
  IN  /\ t.at = "window"
      /\ IF t.seek + DeltaMin >= t.seek_end
         THEN SetThread(c, Finish(c, 0)) /\ UNCHANGED st
         ELSE \/ /\ par.may_abort
                 /\ SetThread(c, [Finish(c, 0) EXCEPT !.aborted = TRUE]) /\ UNCHANGED st
              \/ SetThread(c, Finish(c, -6)) /\ UNCHANGED st
              \/ /\ SetThread(c, [t EXCEPT !.at = "pass", !.it = 1, !.best = NoBest,
                       !.heard = @ \cup t.seek..(t.seek + WindowFrames(par) - 1)])
                 /\ st' = IF tail THEN [st EXCEPT ![c].past0 = <<>>, ![c].past1 = <<>>]
                          ELSE st
      /\ UNCHANGED <<call, par, audio, main>>

\* The part of the prompt that comes from the past; temperatures in tenths.
Context_Faulty(p, s, temperature) ==
  LET take0 == p.carry_initial_prompt /\ s.past0 # <<>>
      n0    == IF take0 THEN Len(s.past0) ELSE 0
      n1    == AtMost(MaxPromptCtx(p) - n0, Len(s.past1))
  IN  IF p.n_max_text_ctx > 0 /\ temperature < 5 /\ (take0 \/ s.past1 # <<>>)
      THEN LastOf(s.past0, n0) \o LastOf(s.past1, n1) ELSE <<>>
Context(p, s, temperature) ==
  LET take0 == p.carry_initial_prompt /\ s.past0 # <<>>
      n0    == IF take0 THEN Len(s.past0) ELSE 0
      n1    == AtMost(MaxPromptCtx(p) - n0 - 1, Len(s.past1))
  IN  IF p.n_max_text_ctx > 0 /\ temperature < 5 /\ (take0 \/ s.past1 # <<>>)
      THEN LastOf(s.past0, n0) \o LastOf(s.past1, n1) ELSE <<>>

\* The best decoder after a temperature: any that did not fail; if all of them
\* did, the one that was best before, with what it holds now.
WithId(o, id) == [id |-> id, low |-> o.low, run |-> o.run]
Left(t) == IF t.seek_end - t.seek \in Lefts THEN t.seek_end - t.seek ELSE Far
Best(p, left, temperature, old) ==
  LET n   == DecodersAt(p, temperature)
      all == Outcomes[p][left]
  IN  {WithId(o, id) : o \in {q \in all : ~Failed(q)}, id \in 0..(n - 1)}
      \cup IF \A o \in all : ~Failed(o) THEN {}
           ELSE IF old.id < n THEN {WithId(o, old.id) : o \in {q \in all : Failed(q)}}
           ELSE {old}

Pass(c) ==
  LET t == th[c]
      temperature == par.temperatures[t.it]
  IN  /\ t.at = "pass"
      /\ \/ \E ret \in {-8, -9} : SetThread(c, Finish(c, ret))
         \/ \E best \in Best(par, Left(t), temperature, t.best),
               quiet \in BOOLEAN :
              LET again == /\ t.it # Len(par.temperatures)
                           /\ Failed(best) \/ (best.low /\ ~quiet)
              IN  SetThread(c, [t EXCEPT !.best = best, !.quiet = quiet,
                     !.prompt = Context(par, st[c], temperature),
                     !.at = IF again THEN "pass" ELSE "output",
                     !.it = IF again THEN @ + 1 ELSE @])
      /\ UNCHANGED <<call, par, audio, main, st>>

\* The segments of a window: text up to a timestamp, or to the window's end.
Segments(p, r, seek) ==
  LET seg(from, to, n) == [t0 |-> from, t1 |-> to, by |-> call,
                           guess |-> n = 0 /\ ~IsStamp(r.tokens[1]),
                           unset |-> n = 0 /\ r.tid < 0]
      step(a, token) ==
        IF token = Text THEN [a EXCEPT !.text = TRUE]
        ELSE IF token > 0 /\ ~p.single_segment
        THEN [text |-> FALSE, t0 |-> seek + 2 * token,
              segs |-> IF a.text
                       THEN Append(a.segs, seg(a.t0, seek + 2 * token, Len(a.segs)))
                       ELSE a.segs]
        ELSE a
      after[k \in 0..Len(r.tokens)] ==
        IF k = 0 THEN [text |-> FALSE, t0 |-> seek + 2 * r.tid, segs |-> <<>>]
        ELSE step(after[k - 1], r.tokens[k])
      all == after[Len(r.tokens)]
  IN  IF all.text THEN Append(all.segs, seg(all.t0, seek + r.delta, Len(all.segs)))
      ELSE all.segs

SingleTimestampEnding(tokens) ==
  LET n == Len(tokens)
  IN  n > 1 /\ ~IsStamp(tokens[n - 1]) /\ tokens[n] > 0

Output(c) ==
  LET t    == th[c]
      r    == t.best.run
      said == ~(t.quiet /\ t.best.low)
      past1 == (IF par.carry_initial_prompt THEN <<>> ELSE t.prompt)
               \o (IF said THEN Tokens(r.len) ELSE <<>>)
      delta == IF SingleTimestampEnding(r.tokens)
               THEN AtMost(t.seek_end - t.seek, ChunkFrames) ELSE r.delta
  IN  /\ t.at = "output"
      /\ st' = [st EXCEPT ![c].past1 = past1,
                          ![c].results = @ \o (IF r.tokens # <<>> /\ said
                                               THEN Segments(par, r, t.seek) ELSE <<>>)]
      /\ SetThread(c, [t EXCEPT !.at = "window", !.seek = @ + delta,
                                !.best = NoBest, !.prompt = <<>>, !.quiet = FALSE])
      /\ UNCHANGED <<call, par, audio, main>>

-------------------------------------------------------------------------------
(* The call.                                                                  *)

\* Chunk 0 is heard by the calling thread, from the beginning of the audio.
PerProcessor(p, n) == Trunc(n - p.offset * SamplesPerCs, p.processors)
ChunkStart(p, n, c) == p.offset * SamplesPerCs + c * PerProcessor(p, n)
ChunkEnd_Faulty(p, n, c) == ChunkStart(p, n, c + 1)
ChunkEnd(p, n, c) == IF c = p.processors - 1 THEN n ELSE ChunkStart(p, n, c + 1)

Threads(p, n) ==
  [c \in Chunks |->
     IF c >= p.processors THEN Idle
     ELSE [Idle EXCEPT !.at = "begin", !.hi = ChunkEnd(p, n, c),
                       !.lo = IF c = 0 THEN 0 ELSE ChunkStart(p, n, c),
                       !.offset = IF c = 0 THEN p.offset ELSE 0]]

\* whisper_full_get_segment_t0
SegmentT0(segment) == OriginalTime(segment.t0, audio.points)

FullInit ==
  /\ call = 0 /\ par \in Calls[1] /\ main = "idle"
  /\ audio = NoAudio
  /\ st = [c \in Chunks |-> FreeState] /\ th = [c \in Chunks |-> Idle]

\* whisper_full or, with several processors, whisper_full_parallel: detection
\* of speech, then the chunks, each with a state of its own but for the first.
Start ==
  /\ main = "idle" /\ call < Len(Calls)
  /\ call' = call + 1
  /\ \E p \in Calls[call + 1] :
       /\ par' = p
       /\ \/ /\ p.vads # {} /\ main' = "done"
             /\ audio' = NoAudio
             /\ UNCHANGED <<st, th>>
          \/ \E probs \in p.vads :
               LET f == Filtered(VadSegments(probs, p.max_speech), p.samples)
               IN  /\ audio' = f
                   /\ IF f.len = 0
                      THEN /\ main' = "done" /\ UNCHANGED th
                           /\ st' = IF p.processors = 1
                                    THEN [st EXCEPT ![0].results = <<>>] ELSE st
                      ELSE main' = "run" /\ th' = Threads(p, f.len) /\ UNCHANGED st
          \/ /\ p.vads = {} /\ main' = "run" /\ UNCHANGED st
             /\ audio' = [audio EXCEPT !.len = p.samples]
             /\ th' = Threads(p, p.samples)

\* 100 * samples / WHISPER_SAMPLE_RATE in ints: should the product overflow, it
\* wraps around, unless the compiler cancelled the 100.
AsInt(x) == ((x + IntSpan \div 2) % IntSpan) - IntSpan \div 2
TimeOf(samples, wraps) ==
  IF wraps THEN Trunc(AsInt(100 * samples), 100 * SamplesPerCs)
  ELSE Trunc(samples, SamplesPerCs)

\* The results of the workers' states, moved to the time their chunk begins.
Moved(p, n, c, segs, wraps) ==
  LET by == TimeOf(c * PerProcessor(p, n), wraps) + p.offset
  IN  [k \in DOMAIN segs |-> [segs[k] EXCEPT !.t0 = @ + by, !.t1 = @ + by, !.guess = TRUE]]
Merge(all, s) ==
  Append(all, IF all = <<>> THEN s ELSE [s EXCEPT !.t0 = AtLeast(@, Last(all).t1)])
MergeAll(own, rest) ==
  LET after[k \in 0..Len(rest)] == IF k = 0 THEN own ELSE Merge(after[k - 1], rest[k])
  IN  after[Len(rest)]

Joined(wraps) ==
  LET after[c \in Chunks] ==
        IF c = 0 THEN st[0].results
        ELSE IF c < par.processors
        THEN MergeAll(after[c - 1], Moved(par, audio.len, c, st[c].results, wraps))
        ELSE after[c - 1]
  IN  after[MaxProcessors - 1]

Join ==
  /\ main = "run" /\ \A c \in Chunks : th[c].at \in {"idle", "done"}
  /\ \E wraps \in BOOLEAN :
       st' = [c \in Chunks |-> IF c = 0 THEN [st[0] EXCEPT !.results = Joined(wraps)]
                               ELSE FreeState]
  /\ main' = "done"
  /\ UNCHANGED <<call, par, audio, th>>

\* The caller reads the results and goes on.
Return ==
  /\ main = "done"
  /\ main' = "idle" /\ th' = [c \in Chunks |-> Idle]
  /\ UNCHANGED <<call, par, audio, st>>

Decode(c) == Begin(c) \/ Window(c) \/ Pass(c) \/ Output(c)
FullNext == Start \/ Join \/ Return \/ \E c \in Chunks : Decode(c)

FullSpec == FullInit /\ [][FullNext]_fullVars
\* Threads are scheduled; the caller reads what it asked for.
FairFullSpec ==
  /\ FullSpec
  /\ WF_fullVars(Join) /\ WF_fullVars(Return)
  /\ \A c \in Chunks : WF_fullVars(Decode(c))

-------------------------------------------------------------------------------
(* Properties.                                                                *)

Origins == 1..Len(Calls)

\* Types; and a prompt leaves room for the marker in front of it, so that prompt
\* and task tokens fit the text context whatever past prompts there are.
FullTypeOK ==
  /\ call \in 0..Len(Calls) /\ par \in Params /\ main \in {"idle", "run", "done"}
  /\ audio.len \in Nat
  /\ \A c \in Chunks :
       /\ \A s \in Range(st[c].results) : s.t0 \in Int /\ s.t1 \in Int /\ s.by \in Origins
       /\ Range(st[c].past0) \cup Range(st[c].past1) \subseteq Origins
       /\ Len(th[c].prompt) <= AtLeast(0, MaxPromptCtx(par) - 1)
       /\ th[c].at \in {"idle", "begin", "window", "pass", "output", "done"}

\* A segment begins when the one before it has ended, across windows, fallbacks
\* and chunks, and ends after it began if it began at a timestamp; and so they
\* are read, through the mapping of times.  (Without timestamps a greedy decoder
\* has no tid: the begin is unset, far below zero, unless the merge delays it.
\* A merged segment of a later chunk may end before the begin the merge gave it.)
Ordered(segs) ==
  /\ \A k \in 1..(Len(segs) - 1) :
       \/ segs[k + 1].unset
       \/ /\ segs[k].t1 <= segs[k + 1].t0
          /\ ~segs[k].guess => SegmentT0(segs[k]) <= SegmentT0(segs[k + 1])
  /\ \A k \in DOMAIN segs : segs[k].guess \/ segs[k].t0 <= segs[k].t1
TranscriptIsOrdered == \A c \in Chunks : Ordered(st[c].results)

\* When all of a call's threads succeeded, the encoder has seen every sample of
\* its audio, whatever it was split into and wherever the windows moved; except
\* for the last frames of a chunk, too few for a window.
HeardBy(c, x) ==
  LET f == (x - th[c].lo) \div SamplesPerCs
  IN  /\ th[c].at = "done" /\ x \in th[c].lo..(th[c].hi - 1)
      /\ f \in th[c].heard \/ f >= st[c].mel.frames - DeltaMin
AudioIsHeard ==
  /\ main = "run" /\ par.duration = 0 /\ par.audio_ctx = 0 /\ par.language # "detect"
  /\ \A c \in Chunks : th[c].at = "idle" \/ (th[c].at = "done" /\ th[c].ret = 0
                                              /\ ~th[c].aborted)
  => \A x \in (par.offset * SamplesPerCs)..(audio.len - 1) : \E c \in Chunks : HeardBy(c, x)

\* A call with no_context is prompted only by what it was given or has said.
PromptIsOwn ==
  par.no_context => \A c \in Chunks : Range(th[c].prompt) \subseteq {call}

\* The table maps a time in the audio without silence to the time this audio was
\* recorded at: exactly, but for the last segment, which may lose what its last
\* window has behind the last sample, and the rounding; and it is monotone.
Near(a, b, d) == a - b <= d /\ b - a <= d
Slack == (2 * VadWindow + 3 * SamplesPerCs - 1) \div (2 * SamplesPerCs)
MappingInverts ==
  par.vads # {} =>
    /\ \A t \in 0..SamplesToCs(audio.len) :
         OriginalTime(t, audio.points) <= OriginalTime(t + 1, audio.points)
    /\ \A k \in DOMAIN audio.parts :
         LET q    == audio.parts[k]
             from == SamplesToCs(q.at)
         IN  \A t \in from..SamplesToCs(q.at + q.len) :
               Near(OriginalTime(t, audio.points), SamplesToCs(q.from) + t - from,
                    IF k = Len(audio.parts) THEN Slack ELSE 0)

\* Every window moves on, so a call comes to its end.
CallReturns == (main = "run") ~> (main = "idle")
===============================================================================
