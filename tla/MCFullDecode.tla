----------------------------- MODULE MCFullDecode -----------------------------
(* Two calls on one context: a first one of a few kinds, which leaves results, *)
(* prompts, mel or a mapping, then one of every kind.                          *)
EXTENDS FullDecode

Plain ==
  [samples |-> 28, vads |-> {}, max_speech |-> 24, offset |-> 0, duration |-> 0,
   processors |-> 1, no_context |-> FALSE, carry_initial_prompt |-> FALSE, prompt |-> 0,
   n_max_text_ctx |-> 3, audio_ctx |-> 0, best_of |-> 1, beam_size |-> 0,
   temperatures |-> <<0>>, single_segment |-> FALSE, no_timestamps |-> FALSE,
   max_tokens |-> 0, suppress_blank |-> TRUE, max_initial_ts |-> 1, language |-> "given",
   may_abort |-> FALSE]
Greedy == [Plain EXCEPT !.temperatures = <<0, 6>>, !.prompt = 1,
                        !.best_of = 2, !.max_tokens = 1]
Own == [Plain EXCEPT !.no_context = TRUE, !.samples = 20, !.max_initial_ts = 0]
Carried == [Plain EXCEPT !.carry_initial_prompt = TRUE, !.prompt = 3, !.may_abort = TRUE,
                         !.single_segment = TRUE]
CarriedOwn == [Carried EXCEPT !.no_context = TRUE, !.prompt = 1]
Parallel == [Plain EXCEPT !.processors = 2, !.samples = 29, !.offset = 1,
                          !.max_tokens = 1]
Tiny == [Parallel EXCEPT !.samples = 1, !.offset = 0]   \* chunk 0 has no samples
Beam == [Plain EXCEPT !.beam_size = 2, !.samples = 16, !.no_timestamps = TRUE]
Again == [Plain EXCEPT !.samples = 0, !.max_tokens = 1, !.language = "auto"]
Detected == [Plain EXCEPT !.language = "detect"]
WrongCtx == [Plain EXCEPT !.audio_ctx = 4]
ManyDecoders == [Plain EXCEPT !.best_of = 4]
Short == [Plain EXCEPT !.samples = 12, !.max_tokens = 1, !.prompt = 1]

S == "speech"
Q == "silence"
B == "between"
Pauses ==
  [Plain EXCEPT !.samples = 66, !.max_tokens = 1, !.single_segment = TRUE, !.duration = 4,
     !.vads = {<<S, S, Q, Q, Q, Q, S, S, Q, Q, S>>,   \* ends in speech
               <<S, S, B, Q, Q, S, S, S, Q, Q, Q>>,
               <<S, S, Q, Q, Q, S, B, Q, Q, S, S>>,
               <<S, S, S, S, S, S, S, S, S, S, S>>,   \* too long
               <<Q, Q, Q, Q, Q, Q, Q, Q, Q, Q, Q>>}]  \* nobody speaks

Before == [Short EXCEPT !.samples = 30, !.duration = 2, !.vads = {<<S, S, Q, Q, Q>>}]

MCCalls == <<{Short, Before, [Carried EXCEPT !.samples = 12]},
             {Plain, Greedy, Own, Carried, CarriedOwn, Parallel, Tiny, Beam, Again, Detected,
              WrongCtx, ManyDecoders, Pauses}>>
===============================================================================
