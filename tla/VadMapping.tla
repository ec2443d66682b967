------------------------------ MODULE VadMapping ------------------------------
(* Voice activity detection in whisper.cpp: from the probabilities of speech  *)
(* to segments (whisper_vad_segments_from_probs), from the segments to the    *)
(* audio without silence and the table that maps its times back (whisper_vad), *)
(* and the mapping itself.  A probability is "speech" (at the threshold or     *)
(* above), "silence" (below the lower threshold) or "between".  Positions are  *)
(* samples, times centiseconds.  FullDecode detects speech with it.            *)
EXTENDS Integers, SequencesExt

CONSTANTS
  SamplesPerCs,    \* WHISPER_SAMPLE_RATE / 100
  VadWindow,       \* vctx->n_window
  MinSpeech, MinSilence, SpeechPad,   \* of vad_params, in samples
  SilenceAtMax,    \* min_silence_samples_at_max_speech
  MergeGap,        \* max_merge_gap_samples
  Overlap,         \* overlap_samples
  Gap              \* silence_samples: the 0.1 s of silence put between two segments

ASSUME VadAssumption ==
  /\ SamplesPerCs \in Nat \ {0} /\ VadWindow \in Nat \ {0}
  /\ MinSpeech \in Nat /\ MinSilence \in Nat /\ SpeechPad \in Nat
  /\ SilenceAtMax \in Nat /\ MergeGap \in Nat /\ Overlap \in Nat
  /\ Gap \in Nat /\ SamplesPerCs <= Gap

AtMost(a, b)  == IF a < b THEN a ELSE b
AtLeast(a, b) == IF a > b THEN a ELSE b

SamplesToCs(x) == (2 * x + SamplesPerCs) \div (2 * SamplesPerCs)
CsToSamples(t) == t * SamplesPerCs

NumChunks(n) == (n + VadWindow - 1) \div VadWindow

-------------------------------------------------------------------------------
(* Segments of speech.                                                        *)

Segment(from, to) == [start |-> from, end |-> to]
NoSpeech == [speeches |-> <<>>, speaking |-> FALSE, temp_end |-> 0, prev_end |-> 0,
             next_start |-> 0, start |-> 0, has |-> FALSE]

Quiet(s)   == [s EXCEPT !.speaking = FALSE, !.has = FALSE]
Reset(s)   == [s EXCEPT !.prev_end = 0, !.next_start = 0, !.temp_end = 0]
Push(s, to) == [s EXCEPT !.speeches = Append(@, Segment(s.start, to))]

\* Speech again, after a silence that was too short to end the segment.
BackToSpeech(s, now, prob) ==
  IF prob = "speech" /\ s.temp_end # 0
  THEN [s EXCEPT !.temp_end = 0, !.next_start = IF @ < s.prev_end THEN now ELSE @]
  ELSE s

\* A segment that is too long ends at the last long silence in it, if any.
SplitAtSilence(s) ==
  LET cut == [Push(s, s.prev_end) EXCEPT !.has = TRUE]
  IN  Reset(IF s.next_start < s.prev_end THEN Quiet(cut)
            ELSE [cut EXCEPT !.start = s.next_start])

SilenceAfterSpeech(s, now, prob) ==
  IF prob # "silence" \/ ~s.speaking THEN s
  ELSE LET te == IF s.temp_end = 0 THEN now ELSE s.temp_end
           s1 == [s EXCEPT !.temp_end = te,
                           !.prev_end = IF now - te > SilenceAtMax THEN te ELSE @]
       IN  IF now - te < MinSilence THEN s1
           ELSE Reset(Quiet(IF te - s.start > MinSpeech THEN Push(s1, te) ELSE s1))

Heard(s0, i, prob, max) ==
  LET now == VadWindow * (i - 1)
      s   == BackToSpeech(s0, now, prob)
  IN  IF prob = "speech" /\ ~s.speaking
      THEN [s EXCEPT !.speaking = TRUE, !.start = now, !.has = TRUE]
      ELSE IF s.speaking /\ now - s.start > max
      THEN IF s.prev_end # 0 THEN SilenceAfterSpeech(SplitAtSilence(s), now, prob)
           ELSE Reset(Quiet(Push(s, now)))
      ELSE SilenceAfterSpeech(s, now, prob)

Speeches(probs, max) ==
  LET after[k \in 0..Len(probs)] ==
        IF k = 0 THEN NoSpeech ELSE Heard(after[k - 1], k, probs[k], max)
      all == after[Len(probs)]
      end == Len(probs) * VadWindow
  IN  IF all.has /\ end - all.start > MinSpeech THEN Push(all, end).speeches
      ELSE all.speeches

\* Neighbours with a small gap become one segment.
Merged(ss) ==
  LET join(done, s) ==
        IF done # <<>> /\ s.start - Last(done).end < MergeGap
        THEN [done EXCEPT ![Len(done)].end = s.end] ELSE Append(done, s)
      after[k \in 0..Len(ss)] == IF k = 0 THEN <<>> ELSE join(after[k - 1], ss[k])
  IN  after[Len(ss)]

LongEnough(s) == s.end - s.start >= MinSpeech
LongOnes(ss) ==
  LET after[k \in 0..Len(ss)] ==
        IF k = 0 THEN <<>>
        ELSE IF LongEnough(ss[k]) THEN Append(after[k - 1], ss[k]) ELSE after[k - 1]
  IN  after[Len(ss)]

\* Segments get some of the silence around them, half of it when it is short.
Padded(ss, end) ==
  LET gap(i)  == ss[i + 1].start - ss[i].end
      pad(i)  == IF gap(i) < 2 * SpeechPad THEN gap(i) \div 2 ELSE SpeechPad
      from(i) == AtLeast(0, ss[i].start - (IF i = 1 THEN SpeechPad ELSE pad(i - 1)))
      to(i)   == IF i < Len(ss) THEN AtMost(ss[i].end + pad(i), end)
                 ELSE AtMost(ss[i].end + SpeechPad, end)
  IN  [i \in DOMAIN ss |-> Segment(SamplesToCs(from(i)), SamplesToCs(to(i)))]

\* whisper_vad_segments_from_probs; maxSpeech: max_speech_samples.
VadSegments(probs, maxSpeech) ==
  Padded(LongOnes(Merged(Speeches(probs, maxSpeech))), Len(probs) * VadWindow)

-------------------------------------------------------------------------------
(* The audio without silence, and the table of the times.                     *)

Point(processed, original) == [processed |-> processed, original |-> original]

\* parts: what was copied, [at: its place in the new audio, from: in the old
\* one, len: without the overlap].
NoAudio == [len |-> 0, points |-> <<>>, parts |-> <<>>]

\* A segment is copied with an overlap into the silence after it, and some
\* silence is put behind it, except behind the last one.
Copied_Faulty(f, segs, i, n) ==
  LET last  == i = Len(segs)
      from  == AtMost(CsToSamples(segs[i].start), n - 1)
      to    == AtMost(CsToSamples(segs[i].end), n - 1)
      whole == IF last THEN to ELSE AtMost(to + Overlap, n - 1)
      after == f.len + (whole - from)
  IN  IF whole - from <= 0 THEN f
      ELSE [len |-> IF last THEN after ELSE after + Gap,
            parts |-> Append(f.parts, [at |-> f.len, from |-> from, len |-> to - from]),
            points |-> f.points
              \o <<Point(SamplesToCs(f.len), segs[i].start)>>]
Copied(f, segs, i, n) ==
  LET last  == i = Len(segs)
      from  == AtMost(CsToSamples(segs[i].start), n - 1)
      to    == AtMost(CsToSamples(segs[i].end), n - 1)
      whole == IF last THEN to ELSE AtMost(to + Overlap, n - 1)
      after == f.len + (whole - from)
  IN  IF whole - from <= 0 THEN f
      ELSE [len |-> IF last THEN after ELSE after + Gap,
            parts |-> Append(f.parts, [at |-> f.len, from |-> from, len |-> to - from]),
            points |-> f.points
              \o <<Point(SamplesToCs(f.len), segs[i].start),
                   Point(SamplesToCs(f.len + (to - from)), segs[i].end)>>
              \o (IF last THEN <<>>
                  ELSE <<Point(SamplesToCs(after), segs[i].end),
                         Point(SamplesToCs(after + Gap), segs[i + 1].start)>>)]

\* The new audio has the length computed in advance, from ends that are not
\* clipped where they begin.
FilteredLength(segs, n) ==
  LET len(i) == AtMost(CsToSamples(segs[i].end) + (IF i < Len(segs) THEN Overlap ELSE 0),
                       n - 1) - CsToSamples(segs[i].start)
      sum[k \in 0..Len(segs)] ==
        IF k = 0 THEN (Len(segs) - 1) * Gap ELSE sum[k - 1] + len(k)
  IN  sum[Len(segs)]

\* Sorted by the processed time; of several points with one time the first stays.
Placed(done, q) ==
  LET k == CHOOSE k \in 0..Len(done) :
             /\ \A j \in 1..k : done[j].processed <= q.processed
             /\ \A j \in (k + 1)..Len(done) : q.processed < done[j].processed
  IN  IF k > 0 /\ done[k].processed = q.processed THEN done ELSE InsertAt(done, k + 1, q)
Table(points) ==
  LET after[k \in 0..Len(points)] ==
        IF k = 0 THEN <<>> ELSE Placed(after[k - 1], points[k])
  IN  after[Len(points)]

\* whisper_vad for n samples of audio.
Filtered(segs, n) ==
  IF segs = <<>> THEN NoAudio
  ELSE LET after[i \in 0..Len(segs)] ==
             IF i = 0 THEN NoAudio ELSE Copied(after[i - 1], segs, i, n)
           f == after[Len(segs)]
       IN  [len |-> FilteredLength(segs, n), points |-> Table(f.points), parts |-> f.parts]

\* map_processed_to_original_time
OriginalTime(t, table) ==
  IF table = <<>> THEN t
  ELSE IF t <= table[1].processed THEN table[1].original
  ELSE IF t >= Last(table).processed THEN Last(table).original
  ELSE LET k  == CHOOSE k \in 2..Len(table) :
                   table[k].processed >= t /\ table[k - 1].processed < t
           up == table[k]
           lo == table[k - 1]
       IN  IF up.processed = t THEN up.original
           ELSE lo.original + ((t - lo.processed) * (up.original - lo.original))
                              \div (up.processed - lo.processed)
===============================================================================
