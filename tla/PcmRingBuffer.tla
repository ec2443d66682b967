---------------------------- MODULE PcmRingBuffer ----------------------------
(* PcmRingBuffer of backend/inbound_ai/live_stt.py: the bytes of the pre-roll *)
(* and of the open utterance, filled by the thread that receives WebSocket    *)
(* messages and emptied by the inference thread (on silence) or by the        *)
(* receiving thread (on "stop").  A frame stands for a fixed number of PCM    *)
(* bytes and is named by its place in the stream, so both buffers are         *)
(* sequences of naturals.  `append` reads the clock before it takes the lock, *)
(* so an append is two steps.                                                 *)
EXTENDS Integers, Sequences

CONSTANTS PreRollCap, UtteranceCap, MaxPayload, MinWindow, MaxReceived,
          SilenceTicks,   \* SILENCE_FINALIZE_SECONDS in ticks of the clock
          MaxClock        \* bound: ticks of the clock

ASSUME RingAssumption ==
  /\ PreRollCap \in Nat \ {0} /\ UtteranceCap \in Nat /\ MaxPayload \in Nat
  /\ MinWindow \in Nat \ {0} /\ MaxReceived \in Nat
  /\ MaxPayload <= PreRollCap
  /\ PreRollCap <= UtteranceCap
  /\ SilenceTicks \in Nat \ {0} /\ MaxClock \in Nat

VARIABLES
  preRoll, utterance,          \* the two bytearrays, as frame numbers
  inSpeech, lastSpeechAt,      \* 0 stands for "never"
  clock,                       \* time.monotonic(), never 0
  pending,                     \* an append that waits for the lock
  received,                    \* frames appended so far
  done                         \* last frame handed out by an extraction

ringVars == <<preRoll, utterance, inSpeech, lastSpeechAt, clock, pending,
              received, done>>

NoPayload == [n |-> 0, speech |-> FALSE, at |-> 0]

Payloads == [n : 0..MaxPayload, speech : BOOLEAN, at : Nat]

\* The n frames that follow frame f in the stream.
FramesAfter(f, n) == [i \in 1..n |-> f + i]

\* Faulty variants (names ending in _Faulty) are not part of the specification:
\* each is an edit that would break a property.
KeepNewest_Faulty(buf, cap) ==      \* one frame too few is deleted
  IF Len(buf) > cap THEN SubSeq(buf, Len(buf) - cap, Len(buf)) ELSE buf

\* `del buf[: len(buf) - cap]`: the newest cap frames.
KeepNewest(buf, cap) ==
  IF Len(buf) > cap THEN SubSeq(buf, Len(buf) - cap + 1, Len(buf)) ELSE buf

RingInit ==
  /\ preRoll = <<>> /\ utterance = <<>> /\ inSpeech = FALSE
  /\ lastSpeechAt = 0 /\ clock = 1 /\ pending = NoPayload
  /\ received = 0 /\ done = 0

Tick == /\ clock < MaxClock /\ clock' = clock + 1
        /\ UNCHANGED <<preRoll, utterance, inSpeech, lastSpeechAt, pending,
                       received, done>>

\* append, up to the lock: the stamp and the loudness of the payload.
AppendStamp(n, speech) ==
  /\ pending = NoPayload /\ received + n <= MaxReceived
  /\ pending' = [n |-> n, speech |-> speech, at |-> clock]
  /\ UNCHANGED <<preRoll, utterance, inSpeech, lastSpeechAt, clock, received,
                 done>>

Grown_Faulty(rolled, payload, speech) ==  \* the onset copied, then extended too
  IF inSpeech THEN KeepNewest(utterance \o payload, UtteranceCap)
  ELSE IF speech THEN KeepNewest(rolled \o payload, UtteranceCap)
  ELSE utterance

Grown_OldPreRoll_Faulty(rolled, payload, speech) == \* the onset left out
  IF inSpeech THEN KeepNewest(utterance \o payload, UtteranceCap)
  ELSE IF speech THEN preRoll
  ELSE utterance

\* The utterance after a payload: `rolled` is the pre-roll that includes it.
Grown(rolled, payload, speech) ==
  IF inSpeech THEN KeepNewest(utterance \o payload, UtteranceCap)
  ELSE IF speech THEN KeepNewest(rolled, UtteranceCap)
  ELSE utterance

\* append, under the lock.
AppendLocked ==
  LET payload == FramesAfter(received, pending.n)
      rolled  == KeepNewest(preRoll \o payload, PreRollCap)
  IN
  /\ pending # NoPayload
  /\ preRoll' = rolled
  /\ utterance' = Grown(rolled, payload, pending.speech)
  /\ inSpeech' = (inSpeech \/ pending.speech)
  /\ lastSpeechAt' = IF pending.speech THEN pending.at ELSE lastSpeechAt
  /\ received' = received + pending.n
  /\ pending' = NoPayload
  /\ UNCHANGED <<clock, done>>

ReadyToExtract(force) ==
  /\ inSpeech /\ utterance # <<>>
  /\ force \/ /\ lastSpeechAt # 0
              /\ clock - lastSpeechAt >= SilenceTicks
              /\ Len(utterance) >= MinWindow

Extract_Faulty(force) ==            \* the pre-roll survives the extraction
  /\ force => pending = NoPayload
  /\ ReadyToExtract(force)
  /\ done' = utterance[Len(utterance)]
  /\ utterance' = <<>>
  /\ inSpeech' = FALSE /\ lastSpeechAt' = 0
  /\ UNCHANGED <<preRoll, clock, pending, received>>

\* extract_utterance_if_ready, when it returns audio.  The forced call is made
\* by the receiving thread itself, so never while its append is under way.
Extract(force) ==
  /\ force => pending = NoPayload
  /\ ReadyToExtract(force)
  /\ done' = utterance[Len(utterance)]
  /\ utterance' = <<>> /\ preRoll' = <<>>
  /\ inSpeech' = FALSE /\ lastSpeechAt' = 0
  /\ UNCHANGED <<clock, pending, received>>

RingNext ==
  \/ Tick
  \/ \E n \in 1..MaxPayload, speech \in BOOLEAN : AppendStamp(n, speech)
  \/ AppendLocked
  \/ \E force \in BOOLEAN : Extract(force)

RingSpec == RingInit /\ [][RingNext]_ringVars

-----------------------------------------------------------------------------
\* Type and size: every buffer holds whole frames of the stream, the open
\* utterance never exceeds MAX_UTTERANCE_SECONDS nor the pre-roll its quarter
\* second (append, extract_utterance_if_ready).
RingTypeOK ==
  /\ preRoll \in Seq(Nat) /\ Len(preRoll) <= PreRollCap
  /\ utterance \in Seq(Nat) /\ Len(utterance) <= UtteranceCap
  /\ inSpeech \in BOOLEAN
  /\ lastSpeechAt \in 0..clock /\ clock \in Nat \ {0}
  /\ pending \in Payloads /\ pending.at <= clock
  /\ received \in Nat /\ done \in 0..received

\* Gap-free: the open utterance is an unbroken stretch of the stream that ends
\* at the newest frame, whatever mix of payload sizes, pre-roll trims and cap
\* trims produced it (append's two trims, and the copy of the pre-roll).
UtteranceIsGapFree ==
  inSpeech => \E f \in 0..received :
                /\ f < received
                /\ utterance = FramesAfter(f, received - f)

\* No frame of an utterance already handed out is still held: neither buffer
\* can deliver a frame a second time (the reset in extract_utterance_if_ready).
HeldFramesAreNew ==
  /\ \A i \in 1..Len(preRoll) : preRoll[i] > done
  /\ \A i \in 1..Len(utterance) : utterance[i] > done

\* The utterance, the flag and the stamp agree, so
\* an open utterance can always be ended by silence (extract's guards).
OpenMeansStamped ==
  /\ inSpeech <=> utterance # <<>>
  /\ inSpeech <=> lastSpeechAt # 0

\* The payload whose loudness opens an utterance is in it whole, whatever was
\* in the pre-roll before it (append's order: roll in, then copy).
OnsetIsKept ==
  [][(utterance = <<>> /\ utterance' # <<>>)
       => Len(utterance') >= pending.n /\ utterance'[Len(utterance')] = received']_ringVars

\* The ring implements the stream of utterances the bridge is built on.
Stream == INSTANCE UtteranceStream WITH
  start <- IF inSpeech THEN utterance[1] ELSE 0,
  quiet <- inSpeech /\ clock - lastSpeechAt >= SilenceTicks

ImplementsStream == Stream!StreamSpec
=============================================================================
