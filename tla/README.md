# A verification development for whisper-live-stt-optimization

The repository streams microphone audio from a browser page over a WebSocket to
a Python bridge (`backend/inbound_ai`), which cuts it into utterances and has
each transcribed by a patched whisper.cpp HTTP server. This directory holds TLA+
models of that system, the TLC runs that check them and proofs checked by TLAPS.

## Inventory

| Part | State | Operations | Talks to |
|---|---|---|---|
| `PcmRingBuffer` (live_stt.py) | pre-roll, open utterance, speech flag and stamp, a lock | `append`, `extract_utterance_if_ready`, `snapshot_utterance` | receiving thread, worker |
| `LiveSttBridge` (live_stt.py) | `TranscriptState`, `closed`, speculative result, flag and generation under a lock | `run`, `_handle_text`, `_infer_loop`, final and speculative transcription | page (WebSocket), STT client |
| De-duplication (live_stt.py) | `final_text` | `commit_final_delta`, overlap removal over words | bridge |
| STT client (audio_stt.py) | none | server or command, retry with full audio context | whisper server |
| Test page (transcribe-test.html) | socket, recorder, stop timer | start, stop, live events | bridge |
| HTTP server (server.cpp) | `whisper_mutex`, `state`, `params`, `ctx` | `/inference`, `/inference-pcm`, `/load`, `/health`, signals | httplib pool, engine |
| Engine entry points (whisper.cpp) | results, mel, VAD mapping, timers, rolling prompts in the context's default state | `whisper_full`, `whisper_full_parallel`, `whisper_vad`, reading of segments | decoding |
| Decoding of a window (whisper.cpp) | seek position, decoders, beam candidates, self-attention cache | prompt, filters of tokens, sampling, exchange of beams, batch decoding, fallback, segments | KV cache |
| KV cache (whisper.cpp) | a row of cells and a head | find_slot, seq_rm, seq_cp, clear, cell_max | decoding |
| Metal back end (ggml-metal-device.cpp, ggml-metal-ops.cpp) | library of compiled pipelines, `mem_ranges`, two encoders, GPU memory | `ggml_metal_op_*`, `ggml_metal_library_get_pipeline_*`, barriers | engine's graphs, GPU |
| CoreML encoder | a model handle | encode | engine |

What makes it hard: two to many Python threads around one ring and one
transcript; a `stop` that runs the worker's procedure in the receiving thread; a
speculation whose result may be too old; an engine that is one mutable context
behind a mutex, with results, prompts and settings that outlive a request; early
returns and exceptions in every handler; windows that move by what the model
says, chunks that are heard apart and joined, times mapped twice; beams that trade cache cells in place; GPU
dispatches that run in any order between two barriers, fused and cut among two
encoding threads, with grids and block sizes that depend on shape and device.
`PROJECT.json` lists every hazard with its line and the properties aimed at it.

## Modules

| Module | Models | Remarks |
|---|---|---|
| `UtteranceStream` | what the ring promises | abstract: a stream of numbered frames cut into intervals |
| `PcmRingBuffer` | the ring, byte buffers as sequences of frame numbers | `append` is two steps, as the clock is read ahead of the lock |
| `LiveSttBridge` | a WebSocket session | EXTENDS `UtteranceStream`: the ring is its abstract specification |
| `WhisperServer` | the HTTP handlers and what they leave in the shared context | a transcript, a setting, a timing is named by its request |
| `KvCache` | the cache's operations as operators on a row of cells | no state of its own |
| `VadMapping` | segments of speech, audio without silence, the table of times | operators, no state |
| `FullDecode` | a transcription: chunks and their threads, windows, temperatures, prompts, segments, merge | EXTENDS `VadMapping`; a decoder's whole pass over a window is one step |
| `BeamDecoder` | the decoding of a window | EXTENDS `KvCache`; keys and values of a cell are named by the prefix they were computed from |
| `MetalPipelines` | which kernel, name, function constants and launch parameters an operation gets | operators over tensors, no state |
| `MetalOps` | what every operation dispatches: memory used, grid, threads, fusion, room | operators over tensors and devices |
| `MetalEncoder` | two encoders, their groups between barriers, the library, the GPU and its memory | memory holds symbolic values, an operation applied to what it read |
| `*_proofs`, `NumberLemmas` | theorems about the ring, the bridge, the server, the transcription, the cache, the decoding of a window and the Metal encoder | |
| `MC*` and `.cfg` | instances for TLC | |

### How state and actions correspond to the code

*Ring.* A frame stands for a fixed number of PCM bytes and is named by its place
in the stream; a payload is one or more frames and loud or not. `AppendStamp` is
`append` before `with self.lock`, `AppendLocked` the body under it; `Extract` is
`extract_utterance_if_ready` when it returns audio (the other returns change
nothing). `preRoll`, `utterance`, `inSpeech` and `lastSpeechAt` are the object's
fields; `received` and `done` are history.

*Bridge.* One program point per thread and per access of shared state:
`commit_final_delta` is three steps (`CommitRead`, `CommitStore`,
`CommitReread`), because nothing locks `final_text`; everything done under
`speculative_lock` is one step. A TranscriptState is a number, so a thread may
still hold an old one after a `reset`. `SendReady` is outside of the `try` as in
`run`: if the client left already, the receiving thread is `lost` and the worker
runs on. `ReceiveEnd` is every way out of the receive loop but "stop", a message
that cannot be read from a client that is still there included. A worker ends as
`crashed` when its transcription raised and as `dead` when its send did. Whether the interval between speculations has gone by, whether trimmed
lengths match, whether a hypothesis has new words and what a transcription
returns are choices. The trimmed length is not tracked because `trim_pcm_for_stt`
depends on levels alone.

*Server.* One step per stretch of a handler between its ways out. Every error
leaves through `AnswerError`, which releases the mutex as the lock guard does
and applies the error handler's rewriting of the status. `params` is a set of
requests whose fields it still holds, plus its VAD flag. `results`, `mapping`
and `timers` are what the context's default state keeps between calls. `Vad`
and `Full` say which of them a call resets; `Processors > 1` selects
`whisper_full_parallel`.

*Transcription.* `Start` is `whisper_full_parallel` (or `whisper_full`, for one
processor) up to the threads, `Join` what follows their end, `Return` the
caller's reading. For each thread `Begin` is `whisper_full_with_state` up to its
loop with all the ways out, `Window` the loop's head and the encoder, `Pass` one
temperature, `Output` the rest of the loop. `st[c]` is a `whisper_state`, 0 the
context's own, the others live as long as the call. A token is a timestamp, by
its number, or text, or the end. `Runs` computes every sequence a decoder can
come to under `Allowed` (the filters of `whisper_process_logits`) and `Updated`
(the sliding window), one token at a time; which of them are likely, and which
decoder is best, are choices. A sample's probability of speech is one of three
levels. `heard` and `aborted` are history. A prompt's tokens are named by the
call that gave or said them.

*Decoder.* `Copy` and `Swap` are the two loops of the exchange of beams, one
decoder per step. `Decode` is `whisper_decode_internal`: find a slot, write the
cells, set `n`. Padding `n` to the back end's multiple is left out: it only
makes the attention look at more cells, which are masked.

*Metal encoder.* A tensor is a record of its operation, type, sizes, sources and
place. `Encode` is one call of `ggml_metal_op_encode` for a node: the fused
nodes, the check against `mem_ranges` (`Joins`), the barrier and the dispatches.
An operation is a sequence of stages, one for each stretch between the barriers
it asks for itself, each a sequence of dispatches. A dispatch names the memory it
reads and writes, the operations it does, the pipeline it asks for, its grid and
threads, and how much of the work its groups cover. Strides and byte offsets of
kernel arguments are abstracted; so are the simulator's and debug branches.
`Execute` runs any dispatch all earlier groups of which have run.

Definitions whose name ends in `_Faulty` are not part of any specification. Each
is one plausible slip in the definition next to it, kept to show that a property
notices it.

## Runs

| Run | Instance | Shows |
|---|---|---|
| `ring` | 8 frames, payloads of 1-2, pre-roll 2, cap 4, 6 ticks | no gap, onset kept; the ring implements `UtteranceStream`, so no frame is taken twice |
| `bridge_safe` | 5 frames, speculation on, every outcome, one reset | nothing is answered or transcribed twice, order, `stop` takes the rest, no commit is lost but for the one that races with `stop`; one speculation at a time, and none delivered that misses more of the utterance than is tolerated |
| `bridge_live` | 4 frames, fair threads, no reset | speech of a client that stays is taken, also after a transcription failed; `stop` closes, the worker ends |
| `bridge_bench` | violation | a transcript lost because `stop` closes the socket under the worker |
| `server` | 2 requests, all endpoints, fair handlers, one of which may stay in the engine | one user of the engine, loaded context, text, settings and timings are the request's own; every request answered, shutdown ends |
| `server_params`, `server_loading`, `server_parallel`, `server_times` | violations | see Findings |
| `beam` | beam search and best-of, 2 decoders, 2 tokens, 2 temperatures, 5 cells | the cache is each decoder's own history; the search for a slot never fails |
| `full` | 2 calls, the second of 13 kinds; windows of 6 frames and 3 tokens, 2 processors, 2 temperatures | segments in order, all audio heard, prompts fit and are the call's own, times map back, the call returns |
| `metal` | a graph for each family of operations, with a node for each way the code treats it, and graphs of dependent, aliased and fusable nodes cut everywhere; three devices | results are the serial ones, no race in a group, no two kernels under a name, grids cover the work, launches keep the limits |

### Bounds

The source ships with `SPECULATIVE_ENABLED = False`. `bridge_safe` sets it:
without it the worker goes from `Snapshot` to `Finalize`, and from `Match`
straight to the transcription, paths that exist with it as well (nothing to
speculate on; no match and nothing in flight), so the shipped behaviour is
covered. `bridge_bench` has it off.

The ring's instance makes the pre-roll overflow, the utterance reach its cap and
silence fall between the stamp and the lock. Four or five frames with windows of
two give the bridge two utterances and a third that has just begun, which is
what a stale speculation or a stop race needs. Two requests suffice for a
leftover of one (a setting, a mapping, a result, a closed context) to meet the
other in any handler, a load or the shutdown; the safety properties are proved
for any number. Five cells are exactly `PromptLen + NDecoders * MaxTokens`, the
number `BeamDecoder` assumes: with one cell less a slot is not found, so the
cache runs at its limit. `MaxReceived`, `MaxClock`, `MaxResets`, `MaxTokens`
and `MaxRounds` are the bounds on what would otherwise grow. `bridge_live` has no
"reset", which leaves room for a second utterance behind one whose worker failed.

`full` scales the engine down: a window of 6 frames (30 s in the code) with 3
tokens, 4 samples in a frame, a text context of 3. That is enough for three
windows, a fallback, a failed decoder whose output is used, a tail that clears
the prompts, prompts of two origins, three segments of speech, a speech that is
too long and a chunk without samples on an old mel; each was seen to occur. The
first call leaves mel, results, prompts or a mapping behind, the second meets
them, so two suffice. The time a later chunk begins is an `int` product in the
code, which overflows when the samples before the chunk pass 22 minutes; the
instance's `IntSpan` of 2048 is below the product of the call with two processors,
so it does there, and the times are moved back as well as forth. The offset in
samples, itself a product that overflows beyond 134 s, is a number here. Kept out of the instance, because there the code fails
what the properties say: an offset beyond the audio (the last chunk would have a
negative length), and a carried prompt that meets a smaller `n_max_text_ctx` in a
later call (line 7124 then counts -1 tokens). `TranscriptIsOrdered` makes two
exceptions, both behaviours of the code: without timestamps a greedy decoder has
no `tid` and its segment begins far below zero (it is `unset`), and a segment of
a later chunk may be clamped to begin after its end. `AudioIsHeard` is about
calls whose threads all succeeded, as the parallel entry drops their return codes.

The three devices of `metal` run 1024, 896 and 512 threads in a group; the
second has the tensor unit, the first the 64-column product, the third neither
simdgroup products nor fusion. Sizes lie below, at and above the code's own
limits (32 lanes, 4-element rows, 64x32 tiles, 1024 elements of a sorted block).
Three cases are left out of the graphs or the property on purpose. AdamW writes
its sources two and three, which `mem_ranges` takes for read only, so
`EncodingAssumption` would be false. A row of `ACC` or `SET` longer than the
device's threads is copied in part (`CopiesFit`). The kernels of `FixedThreads`
ask for a number of threads without comparing it with the device's limit
(`set_rows` also when that limit is no power of two), and `LaunchFits` exempts
them from it.

Deadlock is not checked: every model ends (a finite stream, a session that
closed, a server that exited, a window that is decoded, the last call).

### Fairness

`BridgeFairness`: threads are scheduled (weak fairness of each thread's steps).
A transcription returns because audio_stt.py gives every request and command a
timeout. `WaitOver` is strongly fair since the deadline of the wait is a matter
of time: the loop tests it each time round. Nothing is assumed of the client: it
may stay and say nothing for ever, so the receiving thread is only owed a way out
of its receive once the client is gone.
`FairServerSpec`: handler threads run on, and the main thread comes out of the
pool's join; a request in `Hanging` is exempt while it is in the engine, as
nothing in the code bounds the time of a transcription. The properties hold
unless such a request is stuck. `FairFullSpec`: the chunks' threads run, and the
calling thread joins them and returns; an encoder or decoder call that comes to
no end is not modelled here.

## Findings

1. `stop` may close the socket while the worker transcribes the last utterance
   (`bridge_bench`); scripts/bench_live_ws.py raises in that case.
2. A failed `/inference` leaves its fields in the shared `params`
   (`server_params`); /inference-pcm is not affected, it copies the defaults
   (`PcmSettingsAreOwn`, proved).
3. A rejected `/load` leaves `/health` failing until another `/load` succeeds
   (`server_loading`).
4. Several processors with VAD: silence is answered with the previous transcript
   (`server_parallel`). With one processor a transcript is always the request's
   own (`TextIsOwn`, proved).
5. Time stamps of a request without VAD are mapped by an earlier request's VAD
   (`server_times`).

One more behaviour contradicts no document, so it is no finding: past
`MAX_UTTERANCE_SECONDS` the length of an utterance stands still, and
`_matching_speculative_result` takes a hypothesis of speech the ring has dropped
since. `SpeculationIsFresh` excludes utterances at their cap, as it does sessions
after a "stop" or a failed final transcription, which leave a result behind. All
three need `SPECULATIVE_ENABLED`, off as shipped.

## Proofs

All theorems hold for every value of the constants that the named assumptions
admit.

* `PcmRingBuffer_proofs`: `RingIInv` is inductive: the type invariant, the
  pre-roll and the open utterance are each an interval ending at `received` that
  starts behind `done`, and utterance, flag and stamp agree. From it follow
  `RingTypeOK`, `UtteranceIsGapFree`, and two properties no run needs to check
  any more: `HeldFramesAreNew` and `OpenMeansStamped`. The invariant is needed
  because the copy of the pre-roll is gap-free only if the pre-roll is.
  `RingRefInv` adds that the pre-roll holds as many frames not yet handed out as
  fit, and that a waiting payload is one the client may send. With it every step
  of the ring is a step of `UtteranceStream` or a stutter: an append is `Hear`, a
  tick that reaches the threshold `FallSilent`, an extraction `Take`
  (`RingImplementsStream`), and an onset is kept whole (`RingOnsetIsKept`).
* `LiveSttBridge_proofs`: `OneSpeculation` is inductive by itself. For
  `AnsweredOnce` the invariant adds that whatever a thread owns or was sent lies
  at or below `done`, while the open utterance lies above it, so that an
  extraction always hands out frames nobody has. Program points that own audio
  are the set `Owning`. `StopIInv` adds that the receiving thread transcribes
  nothing until "stop" and hears nothing after it; the worker is then alone
  before it, so its answers are in order and what "stop" takes is all there is.
  A text is stored onto the one it was read from, except by a thread that read it
  before the other stored: that happens once, for the other thread finds nothing
  more to transcribe (`StoreIsCurrent`). So `BridgeConfirmedTextGrows`: no commit is
  lost before "stop", and at most the last one after it. `FreshIInv` adds whose audio a
  speculation is made of: that of the open utterance, or of the one the worker
  just took, as long as its generation is the current one.
* `WhisperServer_proofs`: `ServerInd` ties the mutex to the program points
  (whoever is inside holds it), the context to a `/load` in progress, and the
  results and timers to the handler that is about to answer. Every server
  safety property of the run `server` follows. `ServerTextIsOwn` assumes
  `Processors = 1`; without that it is false (finding 4).
* `FullDecode_proofs`: `PromptInv` says that past prompts are sequences, that
  threads are idle between calls, and that in a call with `no_context` a thread
  that decodes has only its call's tokens in both past prompts and the prompt.
  `PromptIsOwn` alone is not inductive: a prompt is built from the past prompts,
  and those from prompt and decoded tokens.
  For `AudioIsHeard`, `HearingInv` says that each chunk lies where the parameters
  and the length of the audio put it and has a thread while the call runs, that a
  thread in a call of whole windows has heard every frame from its first one to
  where it seeks, and in a window to the window's end, and that one which ended
  well stopped within `DeltaMin` of its last frame. A sample is then heard in the
  last chunk that begins before it (`ChunkOfSample`). A step never skips a frame
  because no decoder moves the window by more than `ChunkFrames`, whatever it
  sampled (`RunsAreRuns`, an induction over the tokens), and a window is at least
  that long: `FullAssumption` asks for `ChunkFrames <= 2 * AudioCtx`, 3000 frames
  for the 1500 positions of every Whisper model. Nothing else is assumed about
  detection of speech: that the audio it leaves has a length is an induction over
  its probabilities, segments and sums (`FilteredIsNumber`). TLC checked
  `HearingInv` on the instance of `full` before.
  For `TranscriptIsOrdered`, `TranscriptInv` adds where a state's last segment
  ends: at or before the thread's next window, unless there is none. What a
  decoder sampled has timestamps that never go back and never lie behind the end
  it moves the window by (`Spoken`, an induction over the tokens), so the segments
  of a window, a recursion over them, follow one another and lie in it
  (`SegmentsInWindow`). A fallback or a failed decoder whose output is used
  changes nothing: that output is `Spoken` too. The merge delays what would begin
  before the end of what is there. And reading keeps the order, because the table
  of the times rises in both columns (`FilteredTable`) and interpolation between
  two rows stays between them (`MappingKeepsOrder`): the segments of speech that
  detection leaves are apart, whatever was joined, split, dropped or padded.
  `FullTypeCorrect` has two hypotheses, which say what it needs of the callers.
  `KeepsBudget`: no call has a smaller budget than an initial prompt carried to it.
  `LongSpeech`: speech shorter than a centisecond, or than a window of the
  detection (half a centisecond apart), is dropped, as by the default of 250 ms; a
  shorter setting allows a segment that begins behind the last sample, and the
  code then computes a negative length.
  `FullMappingInverts` needs `LongSpeech` too; the other theorems need neither.
  What is copied is followed point by point (`Kept`): each part has two points that
  stay neighbours (`InRow`), because the 0.1 s of silence behind it are at least a
  centisecond long and move the next part to a later row. The table keeps the least
  of the points of each time (`TableOfRising`), so a part's points are rows of it;
  between them the interpolation loses nothing, since the two times of a part are
  equally far apart: whole centiseconds pass the rounding (`LaterByCs`). Only the
  last part may be cut short, where the detection's last window reaches behind the
  audio. The proof found what that costs: a window and a half centisecond, in whole
  centiseconds (`Slack`). A window alone, rounded, is less than that for the 512
  samples of a window and 160 of a centisecond.
* `KvCache_proofs`: `SlotSearchIsFirstFit` says of the search for a slot, for a
  cache of any size, that it succeeds exactly if a run of free cells is long
  enough, with such a run, and not behind one that lies at or after the head. The
  search is a recursive function of the number of cells tested. That it is
  defined, and what it returns, are inductions over numbers: no induction rule
  can be instantiated here, but every non-empty set of numbers has a least
  element (`LeastNumber` of `NumberLemmas`), and that of the wrong answers leads
  to a contradiction.
  The other lemmas say what copying, removing and writing do to who attends to a
  cell (`SeqCpShares`, `SeqRmTakes`, `WrittenHoldsBatch`, `CellMaxCovers`).
* `BeamDecoder_proofs`: `DecInv` is inductive for any number of decoders, tokens
  and cells. `CacheIsHistory` speaks of the moment of sampling; the invariant says
  what each sequence attends to at every point of the step: while beams are copied
  a decoder still has its candidate's cells, and its scratch sequence, once it had
  its turn, those of its new hypothesis; while they are swapped it is the other way
  round (`ContentsInv`), and nobody else attends to a cell (`UsersInv`). That
  `SlotIsFound` holds however the exchange of beams scatters the free cells
  follows from first fit: the head and the used cells stay below `PromptLen +
  NDecoders * i` (`ExtentInv`), so that a run for the next batch always begins at
  or before that cell. Of `DecoderAssumption` the proofs need the room for all
  batches and `NDecoders <= MaxDecoders`, without which scratch sequences would
  meet decoders. TLC checked `DecInv` on the instance of `beam` before.
* `MetalEncoder_proofs`: `MetalInv` is inductive: types, no dispatch beyond the
  encoder's group, the recorded ranges contain whatever the open group touches,
  and no race. Without the ranges a step could join a group it conflicts with.
  `EncodingAssumption` says that an operation uses only memory of the nodes it
  takes and separates its own conflicting dispatches; TLC evaluates it on every
  graph of the run. `SerialInv` adds the order: a dispatch belongs to a node and a
  stage, groups follow both, what is encoded and what is left (`Program`, a
  recursive function) make up the graph's dispatches, and memory is that of a run
  in the order of the graph of whatever the GPU has run so far (`Memory`, a
  recursive function of sets of dispatches). The step of the GPU is the point:
  by `AnyNextWillDo`, an induction over the size of the set, a dispatch that may
  run next could as well have run last, because it commutes with those behind it
  in the order, with which it shares a group (`DispatchesCommute`, from `NoRace`).
  So `OrderIsImmaterial` holds without any assumption about fusion.
  `ResultsFollowSerially` concludes `ResultsAreSerial` from it and from
  `FusionKeepsResults`: that fusing is right in one given order is a fact of each
  graph, which TLC checks with the run `metal`; that no other order differs is
  proved. TLC checked `SerialInv` on the instance of `metal` before.
  `PipelinesAreOwn` proves `KernelIsOwn`. The name of a pipeline leaves constants
  out, and some are compiled with 16 bits of what is printed; `ConstsOf` reads off
  a name the constants it stands for, and `WellNamed` says that a request's are
  these. It is shown for every getter, hence for whatever an operation dispatches
  (`EveryStageIsNamed`, for the operations of `EncodedOps`; the program aborts on
  any other). Then a library is determined by its names: encoding a stage, a
  recursion over its dispatches, only adds names (`StageIsLibrary`), and `LibInv`
  is inductive. TLC checked it on the instance of `metal` before.
  `GridsCover` proves `GridCovers` operation by operation (`EveryStageCovers`),
  from two facts: a division that rounds up covers the work and leaves no group
  without any (`CeilDivCovers`), and the rows or tiles a getter puts into the
  kernel's constants are those the launch divides by. Where a kernel has no
  bounds checks the division must be exact, which is the point in `unary`,
  `mul_mm` and the sorts. `ShapesAssumption` is what ggml's constructors give
  every tensor (sizes above zero, a row of whole blocks, results shaped by their
  sources), what the code asserts (`Asserted`), and at most 4096 threads a
  group, the largest power of two the models' doubling loops reckon with; TLC
  evaluates it on every graph of the run. The one thing the code neither gets
  from ggml nor asserts is the hypothesis `CopiesFit`: the copy ahead of `ACC` and
  `SET` has a thread for each element of a row only if the row fits the device.
  `LaunchesFit` proves `LaunchFits` the same way (`EveryStageFits`): the threads of
  a group are bounded where they are doubled or cut to the kernel's limit, and its
  memory is a small multiple of the simdgroups or rows. Besides `ShapesAssumption`,
  which holds what the code asserts of sizes (`Asserted`), it has the hypothesis
  `LimitsKept`: a device of at least 256 threads and 32 KB a group, kernel
  constants that keep to it (`SmallKernels`), and, for the operations that are sized
  by their tensors alone, tensors that one group can handle (`WithinLimits`). The
  code takes these for granted: it compares the memory of attention with the
  device in the vector kernel (`ops.cpp:3029`) but not in the matrix kernel
  (`ops.cpp:2839`), and the threads of `ssm_scan` but not those of `rwkv`,
  `gated_delta_net`, `solve_tri` and `conv_transpose_2d`. TLC evaluates both
  hypotheses on every graph and device of the run `metal`.
* `NumberLemmas`: least and greatest numbers, induction over sets of numbers, and
  recursion: steps that stay within a set have a function that follows them
  (`Recursion`), it stays within the set (`StaysWithin`), and what each step
  passes on holds all along (`Climbs`). The recursive
  functions of the models are given their types by these.

Only model-checked: all liveness properties and whatever needs fairness, and that
fusing keeps the results of a graph, the hypothesis of `ResultsFollowSerially`.
Every safety invariant of a passing run is stated by a theorem.

## Not modelled

PCM levels and trimming, mel spectrogram, tensor graphs, the Metal shaders and
CoreML are numeric. Of the Metal device, compilation and the list of devices are
left out. Model loading is file input. The header, patches, tests and
benchmarks hold no behaviour of their own. Static pages and OPTIONS handlers of
the server change nothing. Of the engine, grammars, regular expressions,
callbacks other than the abort, token-level timestamps and averaged timings are
left out, and so is a cache that cannot be allocated anew: the context is then
left with a freed state, about which nothing can be said. The STT client is seen
by the bridge as a choice of its answers, and the page as a client that may do
anything.

## What could follow

1. `Dedup` (overlap removal over words, against a reference definition) and
   `SttClient` (server, command, retry, full-context retry).
2. `BrowserPage` (recording, stop timer, late transcript) composed with the
   bridge, and the bridge composed with the server.
3. An abstract serial server that `WhisperServer` implements for
   `/inference-pcm`, and an abstract decoder with private caches that
   `BeamDecoder` implements.
4. Proofs: `FusionKeepsResults`, operation by operation, in place of the
   hypothesis; and the refinements of item 3.
