--------------------------- MODULE UtteranceStream ---------------------------
(* What PcmRingBuffer (backend/inbound_ai/live_stt.py) promises to the rest   *)
(* of the bridge: the microphone stream, whose frames are numbered 1, 2, ...  *)
(* as they arrive, is cut into utterances.  An utterance is an interval of    *)
(* the stream that ends at the newest frame; it opens with the frame that is  *)
(* speech (or up to a pre-roll earlier), it is taken whole, and no frame of   *)
(* it is ever part of a later one.                                            *)
EXTENDS Naturals

CONSTANTS
  PreRollCap,      \* frames kept ahead of the first speech frame
  UtteranceCap,    \* frames an utterance may hold (MAX_UTTERANCE_SECONDS)
  MaxPayload,      \* frames in the largest audio message
  MinWindow,       \* frames below which silence does not end an utterance
  MaxReceived      \* bound: frames the client sends

ASSUME StreamAssumption ==
  /\ PreRollCap \in Nat \ {0} /\ UtteranceCap \in Nat /\ MaxPayload \in Nat
  /\ MinWindow \in Nat \ {0} /\ MaxReceived \in Nat
  /\ MaxPayload <= PreRollCap      \* the page and the bench send 50 ms frames
  /\ PreRollCap <= UtteranceCap

VARIABLES
  received,   \* frames received so far
  start,      \* first frame of the open utterance, 0 when there is none
  done,       \* last frame handed out in an utterance, 0 before the first
  quiet       \* the open utterance has been followed by enough silence

streamVars == <<received, start, done, quiet>>

StreamTypeOK ==
  /\ received \in Nat /\ start \in Nat /\ done \in Nat
  /\ quiet \in BOOLEAN

StreamInit == received = 0 /\ start = 0 /\ done = 0 /\ quiet = FALSE

Later(a, b) == IF a >= b THEN a ELSE b

\* First frame kept when the newest is `newest` and `cap` frames fit.
Oldest(newest, cap) == IF newest > cap THEN newest - cap + 1 ELSE 1

\* A payload of n frames is appended.
Hear(n, speech) ==
  /\ received' = received + n
  /\ IF start = 0
     THEN IF speech
          THEN start' = Later(done + 1, Oldest(received', PreRollCap))
          ELSE start' = 0
     ELSE start' = Later(start, Oldest(received', UtteranceCap))
  /\ quiet' \in IF start' = 0 THEN {FALSE}
                ELSE IF speech THEN BOOLEAN    \* the stamp predates the lock
                     ELSE {quiet}
  /\ UNCHANGED done

\* The silence threshold passes.
FallSilent == start # 0 /\ quiet' = TRUE /\ UNCHANGED <<received, start, done>>

OpenLength == IF start = 0 THEN 0 ELSE received + 1 - start

CanTake(force) == start # 0 /\ (force \/ (quiet /\ OpenLength >= MinWindow))

\* The open utterance, frames start..received, is handed out.
Take(force) ==
  /\ CanTake(force)
  /\ done' = received /\ start' = 0 /\ quiet' = FALSE
  /\ UNCHANGED received

StreamNext ==
  \/ \E n \in 1..MaxPayload, speech \in BOOLEAN :
       received + n <= MaxReceived /\ Hear(n, speech)
  \/ FallSilent
  \/ \E force \in BOOLEAN : Take(force)

StreamSpec == StreamInit /\ [][StreamNext]_streamVars

=============================================================================
