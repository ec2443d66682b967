------------------------- MODULE PcmRingBuffer_proofs -------------------------
(* Proofs about PcmRingBuffer, for every size of pre-roll, utterance, payload *)
(* and silence.  Both buffers are always "the newest so many frames", and     *)
(* never reach back to a frame already handed out; everything else follows.   *)
EXTENDS PcmRingBuffer, TLAPS

\* buf holds the newest Len(buf) frames of a stream of n, all after frame d.
NewestFrames(buf, n, d) ==
  Len(buf) <= n - d /\ buf = FramesAfter(n - Len(buf), Len(buf))

RingIInv ==
  /\ RingTypeOK
  /\ NewestFrames(preRoll, received, done)
  /\ NewestFrames(utterance, received, done)
  /\ OpenMeansStamped
  /\ pending # NoPayload => pending.n >= 1 /\ pending.at >= 1

LEMMA FramesAfterIsSeq ==
  ASSUME NEW f \in Nat, NEW n \in Nat
  PROVE  /\ FramesAfter(f, n) \in Seq(Nat)
         /\ Len(FramesAfter(f, n)) = n
         /\ \A i \in 1..n : FramesAfter(f, n)[i] = f + i
  BY DEF FramesAfter

LEMMA FramesAfterConcat ==
  ASSUME NEW f \in Nat, NEW n \in Nat, NEW m \in Nat
  PROVE  FramesAfter(f, n) \o FramesAfter(f + n, m) = FramesAfter(f, n + m)
  BY DEF FramesAfter

LEMMA KeepNewestFrames ==
  ASSUME NEW f \in Nat, NEW n \in Nat, NEW cap \in Nat
  PROVE  KeepNewest(FramesAfter(f, n), cap)
           = IF n > cap THEN FramesAfter(f + n - cap, cap) ELSE FramesAfter(f, n)
  <1>1. CASE n > cap
    <2>1. Len(FramesAfter(f, n)) = n /\ FramesAfter(f, n) \in Seq(Nat)
      BY FramesAfterIsSeq
    <2> DEFINE s == SubSeq(FramesAfter(f, n), n - cap + 1, n)
    <2>2. s \in Seq(Nat) /\ Len(s) = cap
      BY <1>1, <2>1
    <2>3. \A i \in 1..cap : s[i] = f + n - cap + i
      BY <1>1, <2>1, FramesAfterIsSeq, SMTT(30)
    <2>4. s = FramesAfter(f + n - cap, cap)
      BY <1>1, <2>2, <2>3 DEF FramesAfter
    <2> QED BY <1>1, <2>1, <2>4 DEF KeepNewest
  <1>2. CASE ~(n > cap)
    BY <1>2, FramesAfterIsSeq DEF KeepNewest
  <1> QED BY <1>1, <1>2

\* Appending the next payload to a run of newest frames, and trimming, gives
\* the newest frames again.
LEMMA GrowNewest ==
  ASSUME NEW buf, NEW n \in Nat, NEW d \in Nat, d <= n,
         buf \in Seq(Nat), NewestFrames(buf, n, d),
         NEW m \in Nat, NEW cap \in Nat,
         NEW b, b = KeepNewest(buf \o FramesAfter(n, m), cap)
  PROVE  /\ b \in Seq(Nat) /\ Len(b) <= cap
         /\ NewestFrames(b, n + m, d)
         /\ Len(b) >= m \/ m > cap
  <1>1. PICK k \in Nat : k = Len(buf)
    OBVIOUS
  <1>2. k <= n - d /\ n - k \in Nat /\ k + m \in Nat /\ (n - k) + k = n
    BY <1>1 DEF NewestFrames
  <1>3. buf = FramesAfter(n - k, k)
    BY <1>1 DEF NewestFrames
  <1>4. buf \o FramesAfter(n, m) = FramesAfter(n - k, k + m)
    <2>1. PICK g \in Nat : g = n - k
      BY <1>2
    <2>2. FramesAfter(g, k) \o FramesAfter(g + k, m) = FramesAfter(g, k + m)
      BY FramesAfterConcat
    <2> QED BY <1>2, <1>3, <2>1, <2>2
  <1>5. KeepNewest(FramesAfter(n - k, k + m), cap)
          = IF k + m > cap THEN FramesAfter((n - k) + (k + m) - cap, cap)
            ELSE FramesAfter(n - k, k + m)
    BY <1>2, KeepNewestFrames
  <1>6. CASE k + m > cap
    <2>1. PICK f \in Nat : f = n + m - cap /\ cap <= n + m - d
      BY <1>2, <1>6
    <2>2. b = FramesAfter(f, cap)
      BY <1>2, <1>4, <1>5, <1>6, <2>1
    <2>3. b \in Seq(Nat) /\ Len(b) = cap
      BY <2>2, FramesAfterIsSeq
    <2>4. f = (n + m) - Len(b) /\ Len(b) <= (n + m) - d
      BY <2>1, <2>3
    <2>5. b = FramesAfter((n + m) - Len(b), Len(b))
      BY <2>2, <2>3, <2>4
    <2> QED BY <1>1, <1>6, <2>3, <2>4, <2>5 DEF NewestFrames
  <1>7. CASE ~(k + m > cap)
    <2>1. b = FramesAfter(n - k, k + m)
      BY <1>4, <1>5, <1>7
    <2>2. b \in Seq(Nat) /\ Len(b) = k + m
      BY <1>2, <2>1, FramesAfterIsSeq
    <2>3. n - k = (n + m) - (k + m) /\ k + m <= (n + m) - d
      BY <1>2
    <2>4. b = FramesAfter((n + m) - Len(b), Len(b))
      BY <2>1, <2>2, <2>3
    <2> QED BY <1>1, <1>2, <1>7, <2>2, <2>3, <2>4 DEF NewestFrames
  <1> QED BY <1>6, <1>7

LEMMA EmptyIsNewest ==
  ASSUME NEW n \in Nat, NEW d \in Nat, d <= n
  PROVE  NewestFrames(<<>>, n, d)
  BY DEF NewestFrames, FramesAfter

\* The last frame of a buffer that holds newest frames is the newest.
LEMMA NewestEndsAt ==
  ASSUME NEW buf \in Seq(Nat), NEW n \in Nat, NEW d \in Nat, d <= n,
         NewestFrames(buf, n, d), buf # <<>>
  PROVE  buf[Len(buf)] = n
  <1>1. PICK k \in Nat : k = Len(buf) /\ k >= 1
    OBVIOUS
  <1>2. PICK f \in Nat : f = n - k /\ k <= n - d
    BY <1>1 DEF NewestFrames
  <1>3. buf = FramesAfter(f, k)
    BY <1>1, <1>2 DEF NewestFrames
  <1>4. FramesAfter(f, k)[k] = f + k
    BY <1>1 DEF FramesAfter
  <1>5. buf[Len(buf)] = f + k
    BY <1>1, <1>3, <1>4
  <1> QED BY <1>1, <1>2, <1>5

-----------------------------------------------------------------------------
LEMMA InitRing == RingInit => RingIInv
  <1> SUFFICES ASSUME RingInit PROVE RingIInv
    OBVIOUS
  <1> USE RingAssumption DEF RingInit
  <1>1. RingTypeOK
    <2>1. preRoll \in Seq(Nat) /\ Len(preRoll) <= PreRollCap
      OBVIOUS
    <2>2. utterance \in Seq(Nat) /\ Len(utterance) <= UtteranceCap
      OBVIOUS
    <2>3. pending \in Payloads /\ pending.at <= clock
      BY DEF Payloads, NoPayload
    <2>4. lastSpeechAt \in 0..clock /\ clock \in Nat \ {0}
      OBVIOUS
    <2>5. received \in Nat /\ done \in 0..received
      OBVIOUS
    <2>6. inSpeech \in BOOLEAN
      OBVIOUS
    <2> QED BY <2>1, <2>2, <2>3, <2>4, <2>5, <2>6 DEF RingTypeOK
  <1>2. NewestFrames(<<>>, 0, 0)
    BY EmptyIsNewest
  <1> QED BY <1>1, <1>2 DEF RingIInv, OpenMeansStamped

LEMMA StepRing == RingIInv /\ [RingNext]_ringVars => RingIInv'
  <1> SUFFICES ASSUME RingIInv, [RingNext]_ringVars PROVE RingIInv'
    OBVIOUS
  <1> USE RingAssumption
  <1>1. CASE Tick
    <2>1. RingTypeOK'
      <3>1. RingTypeOK
        BY DEF RingIInv
      <3>2. lastSpeechAt' \in 0..clock' /\ clock' \in Nat \ {0} /\ pending'.at <= clock'
        BY <1>1, <3>1 DEF Tick, RingTypeOK, Payloads
      <3> QED BY <1>1, <3>1, <3>2 DEF Tick, RingTypeOK
    <2>2. NewestFrames(preRoll, received, done)' /\ NewestFrames(utterance, received, done)'
      BY <1>1 DEF Tick, RingIInv, NewestFrames
    <2> QED BY <1>1, <2>1, <2>2 DEF Tick, RingIInv, OpenMeansStamped
  <1>2. ASSUME NEW n \in 1..MaxPayload, NEW speech \in BOOLEAN,
               AppendStamp(n, speech)
        PROVE  RingIInv'
    <2>1. RingTypeOK'
      BY <1>2 DEF AppendStamp, RingIInv, RingTypeOK, Payloads
    <2>2. NewestFrames(preRoll, received, done)' /\ NewestFrames(utterance, received, done)'
      BY <1>2 DEF AppendStamp, RingIInv, NewestFrames
    <2>3. OpenMeansStamped'
      BY <1>2 DEF AppendStamp, RingIInv, OpenMeansStamped
    <2>4. pending'.n >= 1 /\ pending'.at >= 1
      BY <1>2 DEF AppendStamp, RingIInv, RingTypeOK
    <2> QED BY <2>1, <2>2, <2>3, <2>4 DEF RingIInv
  <1>3. CASE AppendLocked
    <2>0. PICK m, rolled, grown :
            /\ m = pending.n
           
           /\ rolled = KeepNewest(preRoll \o FramesAfter(received, m), PreRollCap)
           
           /\ grown = KeepNewest(utterance \o FramesAfter(received, m), UtteranceCap)
      OBVIOUS
    <2>1. /\ m \in 1..MaxPayload /\ received \in Nat /\ done \in Nat /\ done <= received
          /\ pending.at \in Nat /\ pending.at >= 1 /\ pending.at <= clock
      BY <1>3, <2>0 DEF AppendLocked, RingIInv, RingTypeOK, Payloads
    <2>2. /\ rolled \in Seq(Nat) /\ Len(rolled) <= PreRollCap
          /\ NewestFrames(rolled, received + m, done) /\ Len(rolled) >= m
      <3>1. preRoll \in Seq(Nat) /\ NewestFrames(preRoll, received, done)
        BY DEF RingIInv, RingTypeOK
      <3>2. m \in Nat /\ PreRollCap \in Nat
           /\ rolled = KeepNewest(preRoll \o FramesAfter(received, m), PreRollCap)
        BY <2>0, <2>1
      <3>3. /\ rolled \in Seq(Nat) /\ Len(rolled) <= PreRollCap
            /\ NewestFrames(rolled, received + m, done)
        BY <2>1, <3>1, <3>2, GrowNewest
      <3>4. Len(rolled) >= m \/ m > PreRollCap
        BY <2>1, <3>1, <3>2, GrowNewest
      <3> QED BY <2>1, <3>1, <3>3, <3>4
    <2>3. /\ grown \in Seq(Nat) /\ Len(grown) <= UtteranceCap
          /\ NewestFrames(grown, received + m, done) /\ Len(grown) >= m
      <3>1. utterance \in Seq(Nat) /\ NewestFrames(utterance, received, done)
        BY DEF RingIInv, RingTypeOK
      <3>2. m \in Nat /\ UtteranceCap \in Nat
           /\ grown = KeepNewest(utterance \o FramesAfter(received, m), UtteranceCap)
        BY <2>0, <2>1
      <3>3. /\ grown \in Seq(Nat) /\ Len(grown) <= UtteranceCap
            /\ NewestFrames(grown, received + m, done)
        BY <2>1, <3>1, <3>2, GrowNewest
      <3>4. Len(grown) >= m \/ m > UtteranceCap
        BY <2>1, <3>1, <3>2, GrowNewest
      <3> QED BY <2>1, <3>1, <3>3, <3>4
    <2>4. KeepNewest(rolled, UtteranceCap) = rolled
      BY <2>2 DEF KeepNewest
    <2>5. utterance' = IF inSpeech THEN grown ELSE IF pending.speech THEN rolled ELSE utterance
      BY <1>3, <2>0, <2>4 DEF AppendLocked, Grown
    <2>6. /\ preRoll' = rolled /\ received' = received + m /\ done' = done
          /\ clock' = clock /\ pending' = NoPayload
      BY <1>3, <2>0 DEF AppendLocked
    <2>7. inSpeech' = (inSpeech \/ pending.speech)
      BY <1>3 DEF AppendLocked
    <2>8. lastSpeechAt' = IF pending.speech THEN pending.at ELSE lastSpeechAt
      BY <1>3 DEF AppendLocked
    <2>9. /\ lastSpeechAt \in 0..clock /\ clock \in Nat \ {0}
          /\ (inSpeech <=> lastSpeechAt # 0) /\ (inSpeech <=> utterance # <<>>)
      BY DEF RingIInv, RingTypeOK, OpenMeansStamped
    <2>10. grown # <<>> /\ rolled # <<>>
      BY <2>1, <2>2, <2>3
    <2>11. utterance' = grown \/ utterance' = rolled \/ utterance' = <<>>
      BY <2>5, <2>9
    <2>12. utterance' # <<>> <=> inSpeech \/ pending.speech
      BY <2>5, <2>9, <2>10
    <2>13. lastSpeechAt' \in 0..clock
      BY <2>1, <2>8, <2>9
    <2>14. lastSpeechAt' # 0 <=> inSpeech \/ pending.speech
      <3>1. pending.at # 0
        BY <2>1
      <3> QED BY <2>8, <2>9, <3>1
    <2>15. OpenMeansStamped'
      BY <2>7, <2>12, <2>14 DEF OpenMeansStamped
    <2>16. NewestFrames(<<>>, received + m, done) /\ <<>> \in Seq(Nat) /\ Len(<<>>) = 0
      BY <2>1, EmptyIsNewest
    <2>17. utterance' \in Seq(Nat) /\ NewestFrames(utterance', received + m, done)
      BY <2>2, <2>3, <2>11, <2>16
    <2>18. Len(utterance') <= UtteranceCap
      BY <2>2, <2>3, <2>11, <2>16
    <2>19. RingTypeOK'
      <3>1. received' \in Nat /\ done' \in 0..received'
        BY <2>1, <2>6
      <3>2. inSpeech' \in BOOLEAN
        BY <2>7
      <3>3. pending' \in Payloads /\ pending'.at <= clock'
        BY <2>6, <2>9 DEF NoPayload, Payloads
      <3> QED BY <2>2, <2>6, <2>9, <2>13, <2>17, <2>18, <3>1, <3>2, <3>3 DEF RingTypeOK
    <2>20. NewestFrames(preRoll, received, done)' /\ NewestFrames(utterance, received, done)'
      BY <2>2, <2>6, <2>17 DEF NewestFrames
    <2> QED BY <2>6, <2>15, <2>19, <2>20 DEF RingIInv
  <1>4. ASSUME NEW force \in BOOLEAN, Extract(force) PROVE RingIInv'
    <2>1. utterance \in Seq(Nat) /\ utterance # <<>> /\ received \in Nat /\ done \in Nat
      BY <1>4 DEF Extract, ReadyToExtract, RingIInv, RingTypeOK
    <2>2. utterance[Len(utterance)] = received
      BY <2>1, NewestEndsAt DEF RingIInv, RingTypeOK
    <2>3. done' = received /\ received' = received
      BY <1>4, <2>2 DEF Extract
    <2>4. RingTypeOK'
      <3>1. preRoll' \in Seq(Nat) /\ Len(preRoll') <= PreRollCap
        BY <1>4 DEF Extract
      <3>2. utterance' \in Seq(Nat) /\ Len(utterance') <= UtteranceCap
        BY <1>4 DEF Extract
      <3>3. inSpeech' \in BOOLEAN
        BY <1>4 DEF Extract
      <3>4. /\ clock \in Nat \ {0} /\ pending \in Payloads /\ pending.at <= clock
            /\ clock' = clock /\ pending' = pending /\ lastSpeechAt' = 0
        BY <1>4 DEF Extract, RingIInv, RingTypeOK
      <3>5. lastSpeechAt' \in 0..clock' /\ done' \in 0..received' /\ received' \in Nat
        BY <2>1, <2>3, <3>4
      <3> QED BY <3>1, <3>2, <3>3, <3>4, <3>5 DEF RingTypeOK
    <2>5. NewestFrames(<<>>, received, received)
      BY <2>1, EmptyIsNewest
    <2> QED BY <1>4, <2>3, <2>4, <2>5 DEF Extract, RingIInv, OpenMeansStamped, NewestFrames
  <1>5. CASE UNCHANGED ringVars
    BY <1>5 DEF ringVars, RingIInv, RingTypeOK, NewestFrames, OpenMeansStamped
  <1> QED BY <1>1, <1>2, <1>3, <1>4, <1>5 DEF RingNext

THEOREM RingInductive == RingSpec => []RingIInv
  BY InitRing, StepRing, PTL DEF RingSpec

\* Neither buffer ever exceeds its capacity, whatever the payload sizes.
THEOREM RingTypeCorrect == RingSpec => []RingTypeOK
  <1>1. RingIInv => RingTypeOK
    BY DEF RingIInv
  <1> QED BY <1>1, RingInductive, PTL

\* An open utterance always carries a stamp, so silence can always end it.
THEOREM RingOpenMeansStamped == RingSpec => []OpenMeansStamped
  <1>1. RingIInv => OpenMeansStamped
    BY DEF RingIInv
  <1> QED BY <1>1, RingInductive, PTL

LEMMA NewestAreNew ==
  ASSUME NEW buf \in Seq(Nat), NEW n \in Nat, NEW d \in Nat, d <= n,
         NewestFrames(buf, n, d)
  PROVE  \A i \in 1..Len(buf) : buf[i] > d
  <1>1. PICK k \in Nat : k = Len(buf)
    OBVIOUS
  <1>2. n - k \in Nat /\ buf = FramesAfter(n - k, k) /\ k <= n - d
    BY <1>1 DEF NewestFrames
  <1>3. \A i \in 1..k : FramesAfter(n - k, k)[i] = (n - k) + i
    BY <1>2, FramesAfterIsSeq
  <1> QED BY <1>1, <1>2, <1>3

\* No frame handed out in an utterance is held any longer: none is ever
\* transcribed as part of two utterances.
THEOREM RingHeldFramesAreNew == RingSpec => []HeldFramesAreNew
  <1>1. RingIInv => HeldFramesAreNew
    BY NewestAreNew DEF RingIInv, RingTypeOK, HeldFramesAreNew
  <1> QED BY <1>1, RingInductive, PTL

\* The open utterance has no hole, whatever the trims did.
THEOREM RingUtteranceIsGapFree == RingSpec => []UtteranceIsGapFree
  <1>1. RingIInv => UtteranceIsGapFree
    <2> SUFFICES ASSUME RingIInv, inSpeech
                 PROVE  \E f \in 0..received :
                          f < received /\ utterance = FramesAfter(f, received - f)
      BY DEF UtteranceIsGapFree
    <2>1. PICK k \in Nat : k = Len(utterance) /\ k >= 1
      BY DEF RingIInv, RingTypeOK, OpenMeansStamped
    <2>2. received \in Nat /\ done \in Nat /\ k <= received - done
          /\ utterance = FramesAfter(received - k, k)
      BY <2>1 DEF RingIInv, RingTypeOK, NewestFrames
    <2>3. received - k \in 0..received /\ received - (received - k) = k /\ received - k < received
      BY <2>1, <2>2
    <2> QED BY <2>2, <2>3
  <1> QED BY <1>1, RingInductive, PTL

-----------------------------------------------------------------------------
(* The ring implements UtteranceStream.  The abstract stream opens an         *)
(* utterance with the whole pre-roll, so the simulation also needs that the   *)
(* pre-roll holds as many of the frames not yet handed out as fit.            *)

\* How many of n frames fit in cap.
Fitting(n, cap) == IF n > cap THEN cap ELSE n

RingRefInv ==
  /\ RingIInv
  /\ Len(preRoll) = Fitting(received - done, PreRollCap)
  /\ received + pending.n <= MaxReceived

\* The length KeepNewest leaves.
LEMMA KeepNewestLen ==
  ASSUME NEW b \in Seq(Nat), NEW m \in Nat, NEW f \in Nat, NEW cap \in Nat
  PROVE  Len(KeepNewest(b \o FramesAfter(f, m), cap)) = Fitting(Len(b) + m, cap)
  <1>1. FramesAfter(f, m) \in Seq(Nat) /\ Len(FramesAfter(f, m)) = m
    BY FramesAfterIsSeq
  <1> DEFINE s == b \o FramesAfter(f, m)
  <1>2. s \in Seq(Nat) /\ Len(s) = Len(b) + m
    BY <1>1
  <1> HIDE DEF s
  <1>3. CASE Len(s) > cap
    <2>1. Len(SubSeq(s, Len(s) - cap + 1, Len(s))) = cap
      BY <1>2, <1>3
    <2> QED BY <1>2, <1>3, <2>1 DEF KeepNewest, Fitting, s
  <1>4. CASE ~(Len(s) > cap)
    BY <1>2, <1>4 DEF KeepNewest, Fitting, s
  <1> QED BY <1>3, <1>4

\* The first frame of a buffer that holds newest frames.
LEMMA NewestStartsAt ==
  ASSUME NEW buf \in Seq(Nat), NEW n \in Nat, NEW d \in Nat, d <= n,
         NewestFrames(buf, n, d), buf # <<>>
  PROVE  buf[1] = n - Len(buf) + 1 /\ Len(buf) >= 1 /\ Len(buf) <= n - d
  <1>1. PICK k \in Nat : k = Len(buf) /\ k >= 1
    OBVIOUS
  <1>2. PICK f \in Nat : f = n - k /\ k <= n - d
    BY <1>1 DEF NewestFrames
  <1>3. buf = FramesAfter(f, k)
    BY <1>1, <1>2 DEF NewestFrames
  <1>4. FramesAfter(f, k)[1] = f + 1
    BY <1>1 DEF FramesAfter
  <1>5. buf[1] = f + 1
    BY <1>3, <1>4
  <1> QED BY <1>1, <1>2, <1>5

LEMMA InitRef == RingInit => RingRefInv
  <1> SUFFICES ASSUME RingInit PROVE RingRefInv
    OBVIOUS
  <1>1. Len(preRoll) = Fitting(received - done, PreRollCap)
    BY RingAssumption DEF RingInit, Fitting
  <1>2. received + pending.n <= MaxReceived
    BY RingAssumption DEF RingInit, NoPayload
  <1> QED BY <1>1, <1>2, InitRing DEF RingRefInv

LEMMA StepRef == RingRefInv /\ [RingNext]_ringVars => RingRefInv'
  <1> SUFFICES ASSUME RingRefInv, [RingNext]_ringVars PROVE RingRefInv'
    OBVIOUS
  <1> USE RingAssumption
  <1>1. RingIInv /\ RingIInv'
    BY StepRing DEF RingRefInv
  <1>2. CASE Tick \/ UNCHANGED ringVars
    BY <1>1, <1>2 DEF Tick, ringVars, RingRefInv
  <1>3. ASSUME NEW n \in 1..MaxPayload, NEW speech \in BOOLEAN,
               AppendStamp(n, speech)
        PROVE  RingRefInv'
    BY <1>1, <1>3 DEF AppendStamp, RingRefInv
  <1>4. CASE AppendLocked
    <2>1. PICK m \in Nat : m = pending.n
      BY <1>1 DEF RingIInv, RingTypeOK, Payloads
    <2>2. Len(preRoll') = Fitting(Len(preRoll) + m, PreRollCap)
      <3>1. preRoll' = KeepNewest(preRoll \o FramesAfter(received, m), PreRollCap)
        BY <1>4, <2>1 DEF AppendLocked
      <3>2. preRoll \in Seq(Nat) /\ received \in Nat /\ PreRollCap \in Nat
        BY <1>1 DEF RingIInv, RingTypeOK
      <3> QED BY <3>1, <3>2, KeepNewestLen
    <2>3. received' = received + m /\ done' = done /\ pending' = NoPayload
      BY <1>4, <2>1 DEF AppendLocked
    <2>4. received \in Nat /\ done \in Nat /\ done <= received
      BY <1>1 DEF RingIInv, RingTypeOK
    <2>5. Len(preRoll') = Fitting(received' - done', PreRollCap)
      <3>1. PICK k \in Nat, cap \in Nat : k = received - done /\ cap = PreRollCap
        BY <2>4
      <3>2. Len(preRoll) = Fitting(k, cap)
        BY <3>1 DEF RingRefInv
      <3>3. Len(preRoll') = Fitting(Fitting(k, cap) + m, cap)
        BY <2>2, <3>1, <3>2
      <3>4. Fitting(Fitting(k, cap) + m, cap) = Fitting(k + m, cap)
        BY <2>1, <3>1 DEF Fitting
      <3>5. received' - done' = k + m
        BY <2>3, <2>4, <3>1
      <3> QED BY <3>1, <3>3, <3>4, <3>5
    <2>6. received' + pending'.n <= MaxReceived
      BY <2>1, <2>3, <2>4 DEF RingRefInv, NoPayload
    <2> QED BY <1>1, <2>5, <2>6 DEF RingRefInv
  <1>5. ASSUME NEW force \in BOOLEAN, Extract(force) PROVE RingRefInv'
    <2>1. utterance \in Seq(Nat) /\ utterance # <<>>
          /\ received \in Nat /\ done \in Nat /\ done <= received
      BY <1>1, <1>5 DEF Extract, ReadyToExtract, RingIInv, RingTypeOK
    <2>2. NewestFrames(utterance, received, done)
      BY <1>1 DEF RingIInv
    <2>3. utterance[Len(utterance)] = received
      BY <2>1, <2>2, NewestEndsAt
    <2>4. received' = received /\ done' = received /\ preRoll' = <<>> /\ pending' = pending
      BY <1>5, <2>3 DEF Extract
    <2>5. Len(preRoll') = Fitting(received' - done', PreRollCap)
      BY <2>1, <2>4 DEF Fitting
    <2> QED BY <1>1, <2>4, <2>5 DEF RingRefInv
  <1> QED BY <1>2, <1>3, <1>4, <1>5 DEF RingNext

LEMMA InitStream == RingInit => Stream!StreamInit
  BY DEF RingInit, Stream!StreamInit

\* The abstract variables, in the words of the concrete ones.
LEMMA MappedStart ==
  ASSUME RingIInv
  PROVE  /\ inSpeech => utterance[1] = received - Len(utterance) + 1
         /\ inSpeech => Len(utterance) >= 1 /\ Len(utterance) <= received - done
         /\ ~inSpeech => utterance = <<>>
  BY NewestStartsAt DEF RingIInv, RingTypeOK, OpenMeansStamped

\* AppendLocked is Hear of the payload that waited.
LEMMA AppendIsHear ==
  ASSUME RingRefInv, AppendLocked
  PROVE  Stream!StreamNext
  <1> USE RingAssumption
  <1>1. RingIInv /\ RingRefInv' /\ RingIInv'
    <2>1. RingRefInv'
      BY StepRef DEF RingNext
    <2> QED BY <2>1 DEF RingRefInv
  <1>2. PICK n \in 1..MaxPayload, speech \in BOOLEAN :
          n = pending.n /\ speech = pending.speech
    BY <1>1 DEF AppendLocked, RingIInv, RingTypeOK, Payloads
  <1>3. /\ received \in Nat /\ done \in Nat /\ done <= received
        /\ n \in Nat /\ received + n <= MaxReceived
    <2>1. received \in Nat /\ done \in Nat /\ done <= received
      BY <1>1 DEF RingIInv, RingTypeOK
    <2> QED BY <1>2, <2>1 DEF RingRefInv
  <1>4. /\ received' = received + n /\ done' = done /\ clock' = clock
        /\ inSpeech' = (inSpeech \/ speech)
        /\ speech \/ lastSpeechAt' = lastSpeechAt
    BY <1>2 DEF AppendLocked
  <1> DEFINE Start == IF inSpeech THEN utterance[1] ELSE 0
             Quiet == inSpeech /\ clock - lastSpeechAt >= SilenceTicks
  <1>5. ASSUME IF Start = 0
               THEN IF speech
                    THEN Start' = Stream!Later(done + 1, Stream!Oldest(received', PreRollCap))
                    ELSE Start' = 0
               ELSE Start' = Stream!Later(Start, Stream!Oldest(received', UtteranceCap)),
               inSpeech' => Start' # 0
        PROVE  Stream!StreamNext
    <2>1. Quiet' \in IF Start' = 0 THEN {FALSE}
                     ELSE IF speech THEN BOOLEAN ELSE {Quiet}
      <3>1. CASE Start' = 0
        BY <1>5, <3>1
      <3>2. CASE Start' # 0 /\ speech
        BY <3>2
      <3>3. CASE Start' # 0 /\ ~speech
        <4>1. Quiet' = Quiet
          BY <1>1, <1>4, <3>3 DEF RingIInv, RingTypeOK
        <4> QED BY <3>3, <4>1
      <3> QED BY <3>1, <3>2, <3>3
    <2>2. Stream!Hear(n, speech)
      BY <1>4, <1>5, <2>1 DEF Stream!Hear
    <2> QED BY <1>3, <2>2 DEF Stream!StreamNext
  <1>6. inSpeech' => /\ utterance'[1] = received' - Len(utterance') + 1
                     /\ Len(utterance') <= received' - done'
                     /\ received' \in Nat /\ done' \in Nat /\ Len(utterance') \in Nat
    <2>1. /\ utterance' \in Seq(Nat) /\ received' \in Nat /\ done' \in Nat
          /\ done' <= received' /\ NewestFrames(utterance', received', done')
      BY <1>1 DEF RingIInv, RingTypeOK, NewestFrames
    <2>2. inSpeech' => utterance' # <<>>
      BY <1>1 DEF RingIInv, OpenMeansStamped
    <2> QED BY <2>1, <2>2, NewestStartsAt
  <1>7. inSpeech' => utterance'[1] # 0
    BY <1>6
  <1>8. CASE ~inSpeech /\ ~speech
    BY <1>4, <1>5, <1>8
  <1>9. CASE ~inSpeech /\ speech
    <2>1. utterance' = KeepNewest(KeepNewest(preRoll \o FramesAfter(received, n), PreRollCap),
                                  UtteranceCap)
      BY <1>2, <1>9 DEF AppendLocked, Grown
    <2>2. Len(utterance') = Fitting(received' - done', PreRollCap)
      <3>1. /\ preRoll' = KeepNewest(preRoll \o FramesAfter(received, n), PreRollCap)
            /\ preRoll' \in Seq(Nat) /\ Len(preRoll') <= PreRollCap
        BY <1>1, <1>2 DEF AppendLocked, RingIInv, RingTypeOK
      <3>2. KeepNewest(preRoll', UtteranceCap) = preRoll'
        BY <3>1 DEF KeepNewest
      <3>3. Len(preRoll') = Fitting(received' - done', PreRollCap)
        BY <1>1 DEF RingRefInv
      <3> QED BY <2>1, <3>1, <3>2, <3>3
    <2>3. utterance'[1] = received' - Len(utterance') + 1
      BY <1>4, <1>6, <1>9
    <2>4. utterance'[1] = Stream!Later(done + 1, Stream!Oldest(received', PreRollCap))
      BY <1>3, <1>4, <2>2, <2>3 DEF Fitting, Stream!Later, Stream!Oldest
    <2> QED BY <1>4, <1>5, <1>7, <1>9, <2>4
  <1>10. CASE inSpeech
    <2>1. utterance' = KeepNewest(utterance \o FramesAfter(received, n), UtteranceCap)
      BY <1>2, <1>10 DEF AppendLocked, Grown
    <2>2. Len(utterance') = Fitting(Len(utterance) + n, UtteranceCap)
      BY <1>1, <1>3, <2>1, KeepNewestLen DEF RingIInv, RingTypeOK
    <2>3. /\ utterance[1] = received - Len(utterance) + 1
          /\ Len(utterance) \in Nat /\ Len(utterance) <= received - done
          /\ Len(utterance) >= 1
      BY <1>1, <1>10, MappedStart DEF RingIInv, RingTypeOK
    <2>4. utterance'[1] = Stream!Later(utterance[1], Stream!Oldest(received', UtteranceCap))
      <3>1. utterance'[1] = (received + n) - Fitting(Len(utterance) + n, UtteranceCap) + 1
        BY <1>4, <1>6, <1>10, <2>2
      <3>2. Len(utterance) <= received /\ UtteranceCap \in Nat
        BY <1>3, <2>3
      <3>3. (received + n) - Fitting(Len(utterance) + n, UtteranceCap) + 1
              = Stream!Later(received - Len(utterance) + 1,
                             Stream!Oldest(received + n, UtteranceCap))
        <4>1. PICK L \in Nat : L = Len(utterance)
          BY <2>3
        <4>2. PICK cap \in Nat : cap = UtteranceCap
          BY <3>2
        <4>3. L <= received
          BY <3>2, <4>1
        <4>4. (received + n) - Fitting(L + n, cap) + 1
                = Stream!Later(received - L + 1, Stream!Oldest(received + n, cap))
          BY <1>3, <4>3 DEF Fitting, Stream!Later, Stream!Oldest
        <4> QED BY <4>1, <4>2, <4>4
      <3> QED BY <1>4, <2>3, <3>1, <3>3
    <2>5. utterance[1] # 0
      BY <1>3, <2>3
    <2> QED BY <1>4, <1>5, <1>7, <1>10, <2>4, <2>5
  <1> QED BY <1>8, <1>9, <1>10

\* An extraction takes the open utterance whole.
LEMMA ExtractIsTake ==
  ASSUME RingRefInv, NEW force \in BOOLEAN, Extract(force)
  PROVE  Stream!StreamNext
  <1> USE RingAssumption
  <1>1. RingIInv
    BY DEF RingRefInv
  <1>2. inSpeech /\ utterance # <<>> /\ utterance \in Seq(Nat)
        /\ received \in Nat /\ done \in Nat /\ done <= received
    BY <1>1 DEF Extract, ReadyToExtract, RingIInv, RingTypeOK
  <1>3. utterance[Len(utterance)] = received
    BY <1>1, <1>2, NewestEndsAt DEF RingIInv
  <1>4. received' = received /\ done' = received /\ inSpeech' = FALSE
    BY <1>3 DEF Extract
  <1>5. /\ utterance[1] = received - Len(utterance) + 1 /\ Len(utterance) \in Nat
        /\ Len(utterance) <= received - done
    BY <1>1, <1>2, MappedStart
  <1>6. utterance[1] # 0 /\ received + 1 - utterance[1] = Len(utterance)
    BY <1>2, <1>5
  <1>7. Stream!CanTake(force)
    BY <1>2, <1>6 DEF Extract, ReadyToExtract, Stream!CanTake, Stream!OpenLength
  <1> QED BY <1>4, <1>7 DEF Stream!StreamNext, Stream!Take

LEMMA StepIsStream ==
  ASSUME RingRefInv, [RingNext]_ringVars
  PROVE  [Stream!StreamNext]_(Stream!streamVars)
  <1> USE RingAssumption
  <1>1. RingIInv
    BY DEF RingRefInv
  <1>2. CASE Tick
    <2>1. CASE inSpeech /\ clock' - lastSpeechAt >= SilenceTicks
      <3>1. utterance[1] # 0
        BY <1>1, <2>1, MappedStart DEF RingIInv, RingTypeOK
      <3> QED BY <1>2, <2>1, <3>1 DEF Tick, Stream!StreamNext, Stream!FallSilent
    <2>2. CASE ~(inSpeech /\ clock' - lastSpeechAt >= SilenceTicks)
      <3>1. clock \in Nat /\ lastSpeechAt \in Nat /\ clock' = clock + 1
        BY <1>1, <1>2 DEF Tick, RingIInv, RingTypeOK
      <3>2. ~(inSpeech /\ clock - lastSpeechAt >= SilenceTicks)
        BY <2>2, <3>1
      <3> QED BY <1>2, <2>2, <3>2 DEF Tick, Stream!streamVars
    <2> QED BY <2>1, <2>2
  <1>3. ASSUME NEW n \in 1..MaxPayload, NEW speech \in BOOLEAN,
               AppendStamp(n, speech)
        PROVE  UNCHANGED Stream!streamVars
    BY <1>3 DEF AppendStamp, Stream!streamVars
  <1>4. CASE UNCHANGED ringVars
    BY <1>4 DEF ringVars, Stream!streamVars
  <1> QED BY <1>2, <1>3, <1>4, AppendIsHear, ExtractIsTake DEF RingNext

\* The ring keeps every promise of UtteranceStream: utterances are intervals
\* that end at the newest frame, open with the frames not yet handed out that
\* fit in the pre-roll, are taken whole and never again (append,
\* extract_utterance_if_ready).
THEOREM RingImplementsStream == RingSpec => ImplementsStream
  <1>1. RingSpec => []RingRefInv
    BY InitRef, StepRef, PTL DEF RingSpec
  <1>2. RingSpec => Stream!StreamInit
    BY InitStream DEF RingSpec
  <1>3. RingRefInv /\ [RingNext]_ringVars => [Stream!StreamNext]_(Stream!streamVars)
    BY StepIsStream
  <1> QED BY <1>1, <1>2, <1>3, PTL DEF RingSpec, ImplementsStream, Stream!StreamSpec

\* The payload whose loudness opens an utterance is in it whole and last,
\* whatever the pre-roll held before (append's order: roll in, then copy).
THEOREM RingOnsetIsKept == RingSpec => OnsetIsKept
  <1> DEFINE Onset == (utterance = <<>> /\ utterance' # <<>>)
                        => Len(utterance') >= pending.n
                           /\ utterance'[Len(utterance')] = received'
  <1>1. ASSUME RingRefInv, [RingNext]_ringVars PROVE Onset
    <2> SUFFICES ASSUME utterance = <<>>, utterance' # <<>>
                 PROVE  Len(utterance') >= pending.n
                        /\ utterance'[Len(utterance')] = received'
      OBVIOUS
    <2> USE RingAssumption
    <2>1. RingIInv /\ RingRefInv'
      BY <1>1, StepRef DEF RingRefInv
    <2>2. RingIInv'
      BY <2>1 DEF RingRefInv
    <2>3. AppendLocked
      BY <1>1 DEF RingNext, ringVars, Tick, AppendStamp, Extract
    <2>4. ~inSpeech /\ pending.n \in 1..MaxPayload /\ received \in Nat /\ done \in Nat
          /\ done <= received
      BY <2>1, <2>3 DEF AppendLocked, RingIInv, RingTypeOK, OpenMeansStamped, Payloads
    <2>5. utterance' = preRoll' /\ Len(preRoll') <= PreRollCap
      <3>1. utterance' = KeepNewest(preRoll', UtteranceCap)
        BY <2>3, <2>4 DEF AppendLocked, Grown
      <3>2. preRoll' \in Seq(Nat) /\ Len(preRoll') <= PreRollCap
        BY <2>2 DEF RingIInv, RingTypeOK
      <3> QED BY <3>1, <3>2 DEF KeepNewest
    <2>6. Len(utterance') >= pending.n
      <3>1. Len(preRoll') = Fitting(received' - done', PreRollCap)
        BY <2>1 DEF RingRefInv
      <3>2. received' = received + pending.n /\ done' = done
        BY <2>3 DEF AppendLocked
      <3> QED BY <2>4, <2>5, <3>1, <3>2 DEF Fitting
    <2>7. utterance'[Len(utterance')] = received'
      <3>1. /\ utterance' \in Seq(Nat) /\ received' \in Nat /\ done' \in Nat
            /\ done' <= received' /\ NewestFrames(utterance', received', done')
        BY <2>2 DEF RingIInv, RingTypeOK, NewestFrames
      <3> QED BY <3>1, NewestEndsAt
    <2> QED BY <2>6, <2>7
  <1>2. RingSpec => []RingRefInv
    BY InitRef, StepRef, PTL DEF RingSpec
  <1>3. RingRefInv /\ [RingNext]_ringVars => [Onset]_ringVars
    BY <1>1
  <1> QED BY <1>2, <1>3, PTL DEF RingSpec, OnsetIsKept
=============================================================================
