------------------------- MODULE LiveSttBridge_proofs -------------------------
(* Proofs about LiveSttBridge, for every stream, every set of outcomes and    *)
(* with speculation on or off.                                                *)
EXTENDS LiveSttBridge, TLAPS

\* The steps that leave the speculative threads and their flag alone.
LEMMA SpecStepOnly ==
  ASSUME [BridgeNext]_bridgeVars
  PROVE  \/ UNCHANGED <<inflight, specJobs>>
         \/ \E elapsed \in BOOLEAN : SpecLock(elapsed)
         \/ \E job \in specJobs, outcome \in Outcomes : SpecFinish(job, outcome)
  <1>1. ASSUME NEW n \in 1..MaxPayload, NEW speech \in BOOLEAN, ReceiveAudio(n, speech)
        PROVE  UNCHANGED <<inflight, specJobs>>
    BY <1>1 DEF ReceiveAudio, specVars
  <1>2. CASE ReceiveStop
    BY <1>2 DEF ReceiveStop, specVars
  <1>3. CASE ReceiveReset
    BY <1>3 DEF ReceiveReset, specVars
  <1>4. CASE RecvStep
    BY <1>4 DEF RecvStep, SendReady, ResetClear, ReceiveEnd, SetClosed, CloseSocket,
                ClearSpeculative, specVars
  <1>5. CASE WorkerStep
    BY <1>5 DEF WorkerStep, Poll, Snapshot, Finalize, specVars
  <1>6. CASE Speculate
    BY <1>6 DEF Speculate
  <1>7. ASSUME NEW t \in Threads, FinalStep(t)
        PROVE  UNCHANGED <<inflight, specJobs>>
    BY <1>7 DEF FinalStep, Match, WaitMore, WaitOver, Transcribed, CommitRead,
                CommitStore, CommitReread, SendTranscript, SendError, Send,
                Clear, ClearSpeculative, specVars
  <1>8. CASE PeerLeaves
    BY <1>8 DEF PeerLeaves, specVars
  <1>9. CASE Silence
    BY <1>9 DEF Silence, specVars
  <1>10. CASE UNCHANGED bridgeVars
    BY <1>10 DEF bridgeVars, specVars
  <1> QED BY <1>1, <1>2, <1>3, <1>4, <1>5, <1>6, <1>7, <1>8, <1>9, <1>10
          DEF BridgeNext

LEMMA InitOneSpeculation == BridgeInit => OneSpeculation
  BY DEF BridgeInit, OneSpeculation

LEMMA StepOneSpeculation ==
  OneSpeculation /\ [BridgeNext]_bridgeVars => OneSpeculation'
  <1> SUFFICES ASSUME OneSpeculation, [BridgeNext]_bridgeVars
               PROVE  OneSpeculation'
    OBVIOUS
  <1>1. CASE UNCHANGED <<inflight, specJobs>>
    BY <1>1 DEF OneSpeculation
  <1>2. ASSUME NEW elapsed \in BOOLEAN, SpecLock(elapsed)
        PROVE  OneSpeculation'
    <2> DEFINE job == [audio |-> snap, generation |-> generation]
    <2>1. CASE specJobs' = specJobs
      <3>1. inflight => inflight'
        BY <1>2 DEF SpecLock
      <3> QED BY <2>1, <3>1 DEF OneSpeculation
    <2>2. CASE specJobs' # specJobs
      <3>1. ~inflight /\ inflight' /\ specJobs' = specJobs \cup {job}
        BY <1>2, <2>2 DEF SpecLock
      <3>2. specJobs = {}
        BY <3>1 DEF OneSpeculation
      <3> QED BY <3>1, <3>2 DEF OneSpeculation
    <2> QED BY <2>1, <2>2
  <1>3. ASSUME NEW job \in specJobs, NEW outcome \in Outcomes,
               SpecFinish(job, outcome)
        PROVE  OneSpeculation'
    <2>1. specJobs' = specJobs \ {job}
      BY <1>3 DEF SpecFinish
    <2>2. specJobs' = {}
      BY <2>1 DEF OneSpeculation
    <2> QED BY <2>2 DEF OneSpeculation
  <1> QED BY <1>1, <1>2, <1>3, SpecStepOnly

\* Never are two speculative transcriptions running, and the flag never
\* falls while one is: the lock and the one flag are enough, whatever resets,
\* stops and exceptions happen around them.
THEOREM BridgeOneSpeculation == BridgeSpec => []OneSpeculation
  BY InitOneSpeculation, StepOneSpeculation, PTL DEF BridgeSpec

-----------------------------------------------------------------------------
(* Type correctness, one group of variables at a time.                        *)

StreamBounds ==
  /\ received \in Nat /\ start \in Nat /\ done \in Nat
  /\ done <= received
  /\ start = 0 \/ (start > done /\ start <= received)

PcTypeOK == pc \in [Threads -> Labels]

AudioTypeOK ==
  /\ audio \in [Threads -> Intervals] /\ hyp \in [Threads -> Intervals]
  /\ snap \in Intervals /\ snap.from <= snap.to + 1
  /\ latest \in Intervals
  /\ specJobs \subseteq [audio : Intervals, generation : Nat]
  /\ lastSource \in Nat /\ generation \in Nat

TextTypeOK ==
  /\ held \in [Threads -> States] /\ loaded \in [Threads -> Seq(Intervals)]
  /\ state \in States /\ text \in [States -> Seq(Intervals)]
  /\ sent \in Seq(Messages)

FlagTypeOK ==
  /\ quiet \in BOOLEAN /\ closed \in BOOLEAN /\ sockOpen \in BOOLEAN
  /\ peer \in BOOLEAN /\ stopped \in BOOLEAN /\ failed \in BOOLEAN
  /\ inflight \in BOOLEAN

BridgeIInv ==
  StreamBounds /\ PcTypeOK /\ AudioTypeOK /\ TextTypeOK /\ FlagTypeOK

LEMMA StepStream ==
  ASSUME StreamBounds, [BridgeNext]_bridgeVars
  PROVE  StreamBounds'
  <1> USE StreamAssumption
  <1>1. ASSUME NEW n \in 1..MaxPayload, NEW speech \in BOOLEAN, Hear(n, speech)
        PROVE  StreamBounds'
    <2>1. received' = received + n /\ n \in Nat /\ n >= 1 /\ done' = done
      BY <1>1 DEF Hear
    <2>2. start' = 0 \/ start' = Later(done + 1, Oldest(received', PreRollCap))
          \/ (start # 0 /\ start' = Later(start, Oldest(received', UtteranceCap)))
      BY <1>1 DEF Hear
    <2> QED BY <2>1, <2>2 DEF StreamBounds, Later, Oldest
  <1>2. ASSUME NEW force \in BOOLEAN, Take(force)
        PROVE  StreamBounds'
    BY <1>2 DEF Take, StreamBounds
  <1>3. CASE UNCHANGED <<received, start, done>>
    BY <1>3 DEF StreamBounds
  <1>4. \/ \E n \in 1..MaxPayload, speech \in BOOLEAN : Hear(n, speech)
        \/ \E force \in BOOLEAN : Take(force)
        \/ UNCHANGED <<received, start, done>>
    <2>1. CASE \E n \in 1..MaxPayload, speech \in BOOLEAN : ReceiveAudio(n, speech)
      BY <2>1 DEF ReceiveAudio
    <2>2. CASE ReceiveStop
      BY <2>2 DEF ReceiveStop, streamVars
    <2>3. CASE ReceiveReset
      BY <2>3 DEF ReceiveReset, streamVars
    <2>4. CASE RecvStep
      BY <2>4 DEF RecvStep, SendReady, ResetClear, ReceiveEnd, SetClosed, CloseSocket,
         streamVars
    <2>5. CASE WorkerStep
      BY <2>5 DEF WorkerStep, Poll, Snapshot, SpecLock, Finalize, streamVars
    <2>6. CASE Speculate
      BY <2>6 DEF Speculate, SpecFinish, streamVars
    <2>7. ASSUME NEW t \in Threads, FinalStep(t)
          PROVE  UNCHANGED <<received, start, done>>
      BY <2>7 DEF FinalStep, Match, WaitMore, WaitOver, Transcribed, CommitRead,
                  CommitStore, CommitReread, SendTranscript, SendError, Send,
                  Clear, streamVars
    <2>8. CASE PeerLeaves \/ Silence \/ UNCHANGED bridgeVars
      BY <2>8 DEF PeerLeaves, Silence, FallSilent, bridgeVars, streamVars
    <2> QED BY <2>1, <2>2, <2>3, <2>4, <2>5, <2>6, <2>7, <2>8 DEF BridgeNext
  <1> QED BY <1>1, <1>2, <1>3, <1>4

LEMMA StepPc ==
  ASSUME PcTypeOK, [BridgeNext]_bridgeVars
  PROVE  PcTypeOK'
  <1>1. (\E t \in Threads, label \in Labels : Goto(t, label)) \/ UNCHANGED pc
    <2>1. CASE \E n \in 1..MaxPayload, speech \in BOOLEAN : ReceiveAudio(n, speech)
      BY <2>1 DEF ReceiveAudio
    <2>2. CASE ReceiveStop
      BY <2>2 DEF ReceiveStop, Labels, Busy, Threads
    <2>3. CASE ReceiveReset
      BY <2>3 DEF ReceiveReset, Labels, Busy, Threads
    <2>4. CASE RecvStep
      BY <2>4 DEF RecvStep, SendReady, ResetClear, ReceiveEnd, SetClosed, CloseSocket,
         Labels, Busy, Threads
    <2>5. CASE WorkerStep
      BY <2>5 DEF WorkerStep, Poll, Snapshot, SpecLock, Finalize, Labels, Busy, Threads
    <2>6. CASE Speculate
      BY <2>6 DEF Speculate, SpecFinish
    <2>7. ASSUME NEW t \in Threads, FinalStep(t)
          PROVE  \E label \in Labels : Goto(t, label)
      <3>1. Return(t) \in Labels /\ Raise(t, "crashed") \in Labels /\ Raise(t, "dead") \in Labels
        BY DEF Return, Raise, Labels, Busy
      <3> QED BY <2>7, <3>1 DEF FinalStep, Match, WaitMore, WaitOver, Transcribed,
                CommitRead, CommitStore, CommitReread, SendTranscript, SendError,
                Clear, Labels, Busy
    <2>8. CASE PeerLeaves \/ Silence \/ UNCHANGED bridgeVars
      BY <2>8 DEF PeerLeaves, Silence, bridgeVars
    <2> QED BY <2>1, <2>2, <2>3, <2>4, <2>5, <2>6, <2>7, <2>8 DEF BridgeNext
  <1> QED BY <1>1 DEF PcTypeOK, Goto

LEMMA StepFlags ==
  ASSUME FlagTypeOK, [BridgeNext]_bridgeVars
  PROVE  FlagTypeOK'
  <1> USE DEF FlagTypeOK, sessionVars, specVars, streamVars
  <1>1. CASE \E n \in 1..MaxPayload, speech \in BOOLEAN : ReceiveAudio(n, speech)
    BY <1>1 DEF ReceiveAudio, Hear
  <1>2. CASE ReceiveStop
    BY <1>2 DEF ReceiveStop, Take
  <1>3. CASE ReceiveReset
    BY <1>3 DEF ReceiveReset
  <1>4. CASE RecvStep
    BY <1>4 DEF RecvStep, SendReady, ResetClear, ReceiveEnd, SetClosed, CloseSocket,
       ClearSpeculative
  <1>5. CASE WorkerStep
    BY <1>5 DEF WorkerStep, Poll, Snapshot, SpecLock, Finalize, Take
  <1>6. CASE Speculate
    BY <1>6 DEF Speculate, SpecFinish
  <1>7. ASSUME NEW t \in Threads, FinalStep(t) PROVE FlagTypeOK'
    <2>1. CASE \/ \E trimmed \in BOOLEAN : Match(t, trimmed)
               \/ WaitMore(t) \/ WaitOver(t)
      BY <2>1 DEF Match, WaitMore, WaitOver
    <2>2. CASE \E outcome \in Outcomes : Transcribed(t, outcome)
      BY <2>2 DEF Transcribed
    <2>3. CASE \/ \E novel \in Novelties : CommitRead(t, novel)
               \/ CommitStore(t) \/ CommitReread(t)
      BY <2>3 DEF CommitRead, CommitStore, CommitReread
    <2>4. CASE \E raises \in BOOLEAN : SendTranscript(t, raises)
      BY <2>4 DEF SendTranscript, Send
    <2>5. CASE \E raises \in BOOLEAN : SendError(t, raises)
      BY <2>5 DEF SendError, Send
    <2>6. CASE Clear(t)
      BY <2>6 DEF Clear, ClearSpeculative
    <2> QED BY <1>7, <2>1, <2>2, <2>3, <2>4, <2>5, <2>6 DEF FinalStep
  <1>8. CASE PeerLeaves \/ Silence \/ UNCHANGED bridgeVars
    BY <1>8 DEF PeerLeaves, Silence, FallSilent, bridgeVars
  <1> QED BY <1>1, <1>2, <1>3, <1>4, <1>5, <1>6, <1>7, <1>8 DEF BridgeNext

\* The audio a thread takes, and the snapshot, are intervals.
LEMMA StepAudio ==
  ASSUME StreamBounds, AudioTypeOK, [BridgeNext]_bridgeVars
  PROVE  AudioTypeOK'
  <1> USE DEF AudioTypeOK, localVars, specVars
  <1>1. CASE \E n \in 1..MaxPayload, speech \in BOOLEAN : ReceiveAudio(n, speech)
    BY <1>1 DEF ReceiveAudio
  <1>2. CASE ReceiveStop
    <2>1. [from |-> start, to |-> received] \in Intervals
      BY DEF Intervals, StreamBounds
    <2>2. \/ audio' = audio
          \/ audio' = [audio EXCEPT !["recv"] = [from |-> start, to |-> received]]
      BY <1>2 DEF ReceiveStop
    <2>3. audio' \in [Threads -> Intervals]
      BY <2>1, <2>2
    <2>4. UNCHANGED <<hyp, specVars>>
      BY <1>2 DEF ReceiveStop
    <2> QED BY <2>3, <2>4
  <1>3. CASE ReceiveReset
    BY <1>3 DEF ReceiveReset
  <1>4. CASE RecvStep
    <2>1. CASE ResetClear
      BY <2>1 DEF ResetClear, ClearSpeculative, NoAudio, Intervals
    <2>2. CASE (\E raises \in BOOLEAN : SendReady(raises)) \/ ReceiveEnd
           \/ SetClosed \/ CloseSocket
      BY <2>2 DEF SendReady, ReceiveEnd, SetClosed, CloseSocket
    <2> QED BY <1>4, <2>1, <2>2 DEF RecvStep
  <1>5. CASE WorkerStep
    <2>1. CASE Poll
      BY <2>1 DEF Poll
    <2>2. CASE Snapshot
      BY <2>2 DEF Snapshot, NoAudio, Intervals, StreamBounds
    <2>3. ASSUME NEW elapsed \in BOOLEAN, SpecLock(elapsed) PROVE AudioTypeOK'
      <3>1. latest' \in Intervals
        BY <2>3 DEF SpecLock, NoAudio, Intervals
      <3>2. Length(snap) \in Nat
        BY DEF Intervals, Length
      <3>3. lastSource' \in Nat
        BY <2>3, <3>2 DEF SpecLock
      <3>4. specJobs' \subseteq [audio : Intervals, generation : Nat]
        BY <2>3 DEF SpecLock
      <3> QED BY <2>3, <3>1, <3>3, <3>4 DEF SpecLock
    <2>4. CASE Finalize
      <3>1. [from |-> start, to |-> received] \in Intervals
        BY DEF Intervals, StreamBounds
      <3>2. \/ audio' = audio
            \/ audio' = [audio EXCEPT !["worker"] = [from |-> start, to |-> received]]
        BY <2>4 DEF Finalize
      <3>3. audio' \in [Threads -> Intervals]
        BY <3>1, <3>2
      <3>4. UNCHANGED <<hyp, specVars>>
        BY <2>4 DEF Finalize
      <3> QED BY <3>3, <3>4
    <2> QED BY <1>5, <2>1, <2>2, <2>3, <2>4 DEF WorkerStep
  <1>6. CASE Speculate
    BY <1>6 DEF Speculate, SpecFinish
  <1>7. ASSUME NEW t \in Threads, FinalStep(t) PROVE AudioTypeOK'
    <2>1. CASE \E trimmed \in BOOLEAN : Match(t, trimmed)
      BY <2>1 DEF Match
    <2>2. CASE WaitMore(t) \/ WaitOver(t)
      BY <2>2 DEF WaitMore, WaitOver
    <2>3. CASE \E outcome \in Outcomes : Transcribed(t, outcome)
      BY <2>3 DEF Transcribed
    <2>4. CASE \/ \E novel \in Novelties : CommitRead(t, novel)
               \/ CommitStore(t) \/ CommitReread(t)
      BY <2>4 DEF CommitRead, CommitStore, CommitReread
    <2>5. CASE \E raises \in BOOLEAN : SendTranscript(t, raises) \/ SendError(t, raises)
      BY <2>5 DEF SendTranscript, SendError, Send
    <2>6. CASE Clear(t)
      BY <2>6 DEF Clear, ClearSpeculative, NoAudio, Intervals
    <2> QED BY <1>7, <2>1, <2>2, <2>3, <2>4, <2>5, <2>6 DEF FinalStep
  <1>8. CASE PeerLeaves \/ Silence \/ UNCHANGED bridgeVars
    BY <1>8 DEF PeerLeaves, Silence, bridgeVars
  <1> QED BY <1>1, <1>2, <1>3, <1>4, <1>5, <1>6, <1>7, <1>8 DEF BridgeNext

LEMMA AppendInSeq ==
  ASSUME NEW S, NEW s \in Seq(S), NEW e \in S
  PROVE  Append(s, e) \in Seq(S)
  OBVIOUS

LEMMA StepText ==
  ASSUME PcTypeOK, AudioTypeOK, TextTypeOK, [BridgeNext]_bridgeVars
  PROVE  TextTypeOK'
  <1> USE BridgeAssumption DEF TextTypeOK, localVars, sessionVars
  <1>1. CASE \E n \in 1..MaxPayload, speech \in BOOLEAN : ReceiveAudio(n, speech)
    BY <1>1 DEF ReceiveAudio
  <1>2. CASE ReceiveStop
    BY <1>2 DEF ReceiveStop
  <1>3. CASE ReceiveReset
    <2>1. state' \in States
      BY <1>3 DEF ReceiveReset, States
    <2> QED BY <1>3, <2>1 DEF ReceiveReset
  <1>4. CASE RecvStep
    BY <1>4 DEF RecvStep, SendReady, ResetClear, ReceiveEnd, SetClosed, CloseSocket
  <1>5. CASE WorkerStep
    BY <1>5 DEF WorkerStep, Poll, Snapshot, SpecLock, Finalize
  <1>6. CASE Speculate
    BY <1>6 DEF Speculate, SpecFinish
  <1>7. ASSUME NEW t \in Threads, FinalStep(t) PROVE TextTypeOK'
    <2>1. CASE \/ \E trimmed \in BOOLEAN : Match(t, trimmed)
               \/ WaitMore(t) \/ WaitOver(t) \/ Clear(t)
               \/ \E outcome \in Outcomes : Transcribed(t, outcome)
      BY <2>1 DEF Match, WaitMore, WaitOver, Clear, Transcribed
    <2>2. ASSUME NEW novel \in Novelties, CommitRead(t, novel) PROVE TextTypeOK'
      BY <2>2 DEF CommitRead
    <2>3. CASE CommitStore(t)
      <3>1. Append(loaded[t], hyp[t]) \in Seq(Intervals)
        BY DEF AudioTypeOK
      <3>2. text' \in [States -> Seq(Intervals)]
        BY <2>3, <3>1 DEF CommitStore
      <3> QED BY <2>3, <3>2 DEF CommitStore
    <2>4. CASE CommitReread(t)
      BY <2>4 DEF CommitReread
    <2>5. ASSUME NEW raises \in BOOLEAN, SendTranscript(t, raises) PROVE TextTypeOK'
      <3> DEFINE message == [kind |-> "transcript", audio |-> audio[t],
                             hyp |-> hyp[t], text |-> loaded[t]]
      <3>1. message \in Messages
        BY DEF Messages, AudioTypeOK
      <3>2. sent' = sent \/ sent' = Append(sent, message)
        BY <2>5 DEF SendTranscript, Send
      <3> HIDE DEF message
      <3>3. sent' \in Seq(Messages)
        BY <3>1, <3>2, AppendInSeq
      <3> QED BY <2>5, <3>3 DEF SendTranscript, Send
    <2>6. ASSUME NEW raises \in BOOLEAN, SendError(t, raises) PROVE TextTypeOK'
      <3> DEFINE message == [kind |-> "error", audio |-> audio[t],
                             hyp |-> NoAudio, text |-> <<>>]
      <3>1. message \in Messages
        BY DEF Messages, AudioTypeOK, NoAudio, Intervals
      <3>2. sent' = sent \/ sent' = Append(sent, message)
        BY <2>6 DEF SendError, Send
      <3> HIDE DEF message
      <3>3. sent' \in Seq(Messages)
        BY <3>1, <3>2, AppendInSeq
      <3> QED BY <2>6, <3>3 DEF SendError, Send
    <2> QED BY <1>7, <2>1, <2>2, <2>3, <2>4, <2>5, <2>6 DEF FinalStep
  <1>8. CASE PeerLeaves \/ Silence \/ UNCHANGED bridgeVars
    BY <1>8 DEF PeerLeaves, Silence, bridgeVars
  <1> QED BY <1>1, <1>2, <1>3, <1>4, <1>5, <1>6, <1>7, <1>8 DEF BridgeNext

LEMMA InitBridge == BridgeInit => BridgeIInv
  <1> SUFFICES ASSUME BridgeInit PROVE BridgeIInv
    OBVIOUS
  <1> USE BridgeAssumption DEF BridgeInit
  <1>1. StreamBounds
    BY DEF StreamBounds, StreamInit
  <1>2. PcTypeOK
    BY DEF PcTypeOK, Labels, Busy
  <1>3. AudioTypeOK
    <2>1. NoAudio \in Intervals /\ NoAudio.from <= NoAudio.to + 1
      BY DEF NoAudio, Intervals
    <2> QED BY <2>1 DEF AudioTypeOK
  <1>4. TextTypeOK
    <2>1. 1 \in States
      BY DEF States
    <2>2. <<>> \in Seq(Intervals) /\ <<>> \in Seq(Messages)
      OBVIOUS
    <2> QED BY <2>1, <2>2 DEF TextTypeOK
  <1>5. FlagTypeOK
    BY DEF FlagTypeOK, StreamInit
  <1> QED BY <1>1, <1>2, <1>3, <1>4, <1>5 DEF BridgeIInv

LEMMA StepBridge == BridgeIInv /\ [BridgeNext]_bridgeVars => BridgeIInv'
  BY StepStream, StepPc, StepAudio, StepText, StepFlags DEF BridgeIInv

THEOREM BridgeInductive == BridgeSpec => []BridgeIInv
  BY InitBridge, StepBridge, PTL DEF BridgeSpec

\* Every variable of a session keeps its type, for every stream and setting.
THEOREM BridgeTypeCorrect == BridgeSpec => []BridgeTypeOK
  <1>1. BridgeIInv => BridgeTypeOK
    BY DEF BridgeIInv, BridgeTypeOK, StreamTypeOK, StreamBounds, PcTypeOK,
           AudioTypeOK, TextTypeOK, FlagTypeOK
  <1> QED BY <1>1, BridgeInductive, PTL

-----------------------------------------------------------------------------
(* No frame is answered twice.  Every interval handed out so far ends at or   *)
(* before `done`, and an open utterance starts after it.                      *)

Owning == Busy \ {"clear"}    \* the thread may still answer its utterance

HandedOut ==
  /\ \A t \in Threads : audio[t].to <= done
  /\ \A i \in 1..Len(sent) : sent[i].audio.to <= done

OwnIInv == BridgeIInv /\ HandedOut /\ AnsweredOnce

\* What every step but an extraction and a send does to ownership.
KeepsOwners ==
  /\ UNCHANGED <<audio, sent>> /\ done' = done
  /\ \A t \in Threads : /\ pc'[t] \in Owning => pc[t] \in Owning
                        /\ pc'[t] \in Busy => pc[t] \in Busy

\* Thread t takes the open utterance.
TakesUtterance(t) ==
  /\ start # 0 /\ done' = received /\ sent' = sent
  /\ audio' = [audio EXCEPT ![t] = [from |-> start, to |-> received]]
  /\ \A u \in Threads \ {t} : pc'[u] = pc[u]

\* Thread t answers its utterance, once.
Answers(t) ==
  /\ pc[t] \in Owning /\ pc'[t] \notin Owning
  /\ \A u \in Threads \ {t} : pc'[u] = pc[u]
  /\ audio' = audio /\ done' = done
  /\ \E m : m.audio = audio[t] /\ sent' = Append(sent, m)

LEMMA StepKinds ==
  ASSUME PcTypeOK, [BridgeNext]_bridgeVars
  PROVE  \/ KeepsOwners
         \/ \E t \in Threads : TakesUtterance(t)
         \/ \E t \in Threads : Answers(t)
  <1> USE DEF PcTypeOK, localVars, sessionVars, streamVars
  <1>1. CASE \E n \in 1..MaxPayload, speech \in BOOLEAN : ReceiveAudio(n, speech)
    BY <1>1 DEF ReceiveAudio, Hear, KeepsOwners
  <1>2. CASE ReceiveStop
    <2>1. CASE CanTake(TRUE)
      BY <1>2, <2>1 DEF ReceiveStop, Take, CanTake, TakesUtterance, Goto, Threads
    <2>2. CASE ~CanTake(TRUE)
      BY <1>2, <2>2 DEF ReceiveStop, KeepsOwners, Goto, Threads, Owning, Busy
    <2> QED BY <2>1, <2>2
  <1>3. CASE ReceiveReset
    BY <1>3 DEF ReceiveReset, KeepsOwners, Goto, Threads, Owning, Busy
  <1>4. CASE RecvStep
    BY <1>4 DEF RecvStep, SendReady, ResetClear, ReceiveEnd, SetClosed, CloseSocket,
                KeepsOwners, Goto, Threads, Owning, Busy
  <1>5. CASE WorkerStep
    <2>1. CASE Poll \/ Snapshot \/ \E elapsed \in BOOLEAN : SpecLock(elapsed)
      BY <2>1 DEF Poll, Snapshot, SpecLock, KeepsOwners, Goto, Threads, Owning, Busy
    <2>2. CASE Finalize /\ CanTake(FALSE)
      BY <2>2 DEF Finalize, Take, CanTake, TakesUtterance, Goto, Threads
    <2>3. CASE Finalize /\ ~CanTake(FALSE)
      BY <2>3 DEF Finalize, KeepsOwners, Goto, Threads, Owning, Busy
    <2> QED BY <1>5, <2>1, <2>2, <2>3 DEF WorkerStep
  <1>6. CASE Speculate
    BY <1>6 DEF Speculate, SpecFinish, KeepsOwners
  <1>7. ASSUME NEW t \in Threads, FinalStep(t)
        PROVE  KeepsOwners \/ Answers(t)
    <2>1. Return(t) \notin Busy /\ Raise(t, "crashed") \notin Busy /\ Raise(t, "dead") \notin Busy
      BY DEF Return, Raise, Busy
    <2>2. CASE \E trimmed \in BOOLEAN : Match(t, trimmed)
      BY <2>2 DEF Match, KeepsOwners, Goto, Owning, Busy
    <2>3. CASE WaitMore(t) \/ WaitOver(t)
      BY <2>3 DEF WaitMore, WaitOver, KeepsOwners, Goto, Owning, Busy
    <2>4. CASE \E outcome \in Outcomes : Transcribed(t, outcome)
      BY <2>1, <2>4 DEF Transcribed, KeepsOwners, Goto, Owning, Busy
    <2>5. CASE \E novel \in Novelties : CommitRead(t, novel)
      BY <2>5 DEF CommitRead, KeepsOwners, Goto, Owning, Busy
    <2>6. CASE CommitStore(t) \/ CommitReread(t)
      BY <2>6 DEF CommitStore, CommitReread, KeepsOwners, Goto, Owning, Busy
    <2>7. ASSUME NEW raises \in BOOLEAN, SendTranscript(t, raises)
          PROVE  KeepsOwners \/ Answers(t)
      <3>1. pc[t] \in Owning /\ pc'[t] \notin Owning
        BY <2>1, <2>7 DEF SendTranscript, Goto, Owning, Busy
      <3>2. \A u \in Threads \ {t} : pc'[u] = pc[u]
        BY <2>7 DEF SendTranscript, Goto
      <3>3. pc[t] \in Busy
        BY <3>1 DEF Owning
      <3>4. CASE sent' = sent
        BY <2>7, <3>1, <3>2, <3>3, <3>4 DEF SendTranscript, Send, KeepsOwners
      <3>5. CASE sent' # sent
        BY <2>7, <3>1, <3>2, <3>5 DEF SendTranscript, Send, Answers
      <3> QED BY <3>4, <3>5
    <2>8. ASSUME NEW raises \in BOOLEAN, SendError(t, raises)
          PROVE  KeepsOwners \/ Answers(t)
      <3>1. pc[t] \in Owning /\ pc'[t] \notin Owning
        BY <2>1, <2>8 DEF SendError, Goto, Owning, Busy
      <3>2. \A u \in Threads \ {t} : pc'[u] = pc[u]
        BY <2>8 DEF SendError, Goto
      <3>3. pc[t] \in Busy
        BY <3>1 DEF Owning
      <3>4. CASE sent' = sent
        BY <2>8, <3>1, <3>2, <3>3, <3>4 DEF SendError, Send, KeepsOwners
      <3>5. CASE sent' # sent
        BY <2>8, <3>1, <3>2, <3>5 DEF SendError, Send, Answers
      <3> QED BY <3>4, <3>5
    <2>9. CASE Clear(t)
      BY <2>1, <2>9 DEF Clear, KeepsOwners, Goto, Owning, Busy
    <2> QED BY <1>7, <2>2, <2>3, <2>4, <2>5, <2>6, <2>7, <2>8, <2>9 DEF FinalStep
  <1>8. CASE PeerLeaves \/ Silence \/ UNCHANGED bridgeVars
    BY <1>8 DEF PeerLeaves, Silence, FallSilent, bridgeVars, KeepsOwners
  <1> QED BY <1>1, <1>2, <1>3, <1>4, <1>5, <1>6, <1>7, <1>8 DEF BridgeNext

LEMMA StepOwn == OwnIInv /\ [BridgeNext]_bridgeVars => OwnIInv'
  <1> SUFFICES ASSUME OwnIInv, [BridgeNext]_bridgeVars PROVE OwnIInv'
    OBVIOUS
  <1>1. BridgeIInv /\ BridgeIInv'
    BY StepBridge DEF OwnIInv
  <1>2. /\ received \in Nat /\ start \in Nat /\ done \in Nat /\ done <= received
        /\ start = 0 \/ start > done
        /\ audio \in [Threads -> Intervals] /\ sent \in Seq(Messages)
        /\ \A i \in 1..Len(sent) : sent[i].audio \in Intervals
    <2>1. /\ received \in Nat /\ start \in Nat /\ done \in Nat /\ done <= received
          /\ start = 0 \/ start > done
      BY <1>1 DEF BridgeIInv, StreamBounds
    <2>2. audio \in [Threads -> Intervals] /\ sent \in Seq(Messages)
      BY <1>1 DEF BridgeIInv, AudioTypeOK, TextTypeOK
    <2>3. \A i \in 1..Len(sent) : sent[i] \in Messages
      BY <2>2
    <2>4. \A m \in Messages : m.audio \in Intervals
      BY DEF Messages
    <2> QED BY <2>1, <2>2, <2>3, <2>4
  <1>3. CASE KeepsOwners
    <2>1. HandedOut'
      BY <1>3 DEF KeepsOwners, OwnIInv, HandedOut
    <2>2. AnsweredOnce'
      BY <1>3 DEF KeepsOwners, OwnIInv, AnsweredOnce, Owning
    <2> QED BY <1>1, <2>1, <2>2 DEF OwnIInv
  <1>4. ASSUME NEW t \in Threads, TakesUtterance(t) PROVE OwnIInv'
    <2>1. audio'[t].from = start /\ audio'[t].to = received /\ start > done
      BY <1>2, <1>4 DEF TakesUtterance
    <2>2. \A u \in Threads \ {t} : audio'[u] = audio[u] /\ pc'[u] = pc[u]
      BY <1>2, <1>4 DEF TakesUtterance
    <2>3. sent' = sent /\ done' = received
      BY <1>4 DEF TakesUtterance
    <2>4. HandedOut'
      <3>1. \A u \in Threads : audio'[u].to <= received
        BY <1>2, <2>1, <2>2 DEF OwnIInv, HandedOut, Intervals
      <3>2. \A i \in 1..Len(sent) : sent[i].audio.to <= received
        BY <1>2 DEF OwnIInv, HandedOut, Intervals
      <3> QED BY <2>3, <3>1, <3>2 DEF HandedOut
    <2>5. \A i \in 1..Len(sent) : Disjoint(audio'[t], sent[i].audio)
      BY <1>2, <2>1 DEF OwnIInv, HandedOut, Intervals, Disjoint
    <2>6. \A u \in Threads \ {t} : Disjoint(audio'[t], audio'[u]) /\ Disjoint(audio'[u], audio'[t])
      BY <1>2, <2>1, <2>2 DEF OwnIInv, HandedOut, Intervals, Disjoint
    <2>7. AnsweredOnce'
      BY <2>2, <2>3, <2>5, <2>6 DEF OwnIInv, AnsweredOnce
    <2> QED BY <1>1, <2>4, <2>7 DEF OwnIInv
  <1>5. ASSUME NEW t \in Threads, Answers(t) PROVE OwnIInv'
    <2>1. PICK m : m.audio = audio[t] /\ sent' = Append(sent, m)
      BY <1>5 DEF Answers
    <2>2. PICK k \in Nat : k = Len(sent)
      BY <1>2
    <2>3. /\ Len(sent') = k + 1 /\ sent'[k + 1] = m
          /\ \A i \in 1..k : sent'[i] = sent[i]
      BY <1>2, <2>1, <2>2
    <2>4. audio' = audio /\ done' = done
      BY <1>5 DEF Answers
    <2>5. \A i \in 1..(k + 1) : i \in 1..k \/ i = k + 1
      BY <2>2
    <2>6. \A i \in 1..k : Disjoint(audio[t], sent[i].audio) /\ Disjoint(sent[i].audio, audio[t])
      BY <1>2, <1>5, <2>2 DEF Answers, Owning, OwnIInv, AnsweredOnce, Disjoint
    <2>7. HandedOut'
      <3>1. \A i \in 1..(k + 1) : sent'[i].audio.to <= done
        BY <2>1, <2>2, <2>3, <2>5 DEF OwnIInv, HandedOut
      <3> QED BY <2>3, <2>4, <3>1 DEF OwnIInv, HandedOut
    <2>8. \A i, j \in 1..(k + 1) : i # j => Disjoint(sent'[i].audio, sent'[j].audio)
      BY <2>1, <2>2, <2>3, <2>5, <2>6 DEF OwnIInv, AnsweredOnce
    <2>9. \A u \in Threads : pc'[u] \in Owning =>
             \A i \in 1..(k + 1) : Disjoint(audio[u], sent'[i].audio)
      <3> SUFFICES ASSUME NEW u \in Threads, pc'[u] \in Owning, NEW i \in 1..(k + 1)
                   PROVE  Disjoint(audio[u], sent'[i].audio)
        OBVIOUS
      <3>1. u # t /\ pc[u] \in Owning /\ pc[u] \in Busy /\ pc[t] \in Busy
        BY <1>5 DEF Answers, Owning
      <3>2. Disjoint(audio[u], audio[t])
        BY <3>1 DEF OwnIInv, AnsweredOnce
      <3>3. \A j \in 1..k : Disjoint(audio[u], sent[j].audio)
        BY <2>2, <3>1 DEF OwnIInv, AnsweredOnce, Owning
      <3> QED BY <2>1, <2>3, <2>5, <3>2, <3>3
    <2>10. \A u, v \in Threads :
             u # v /\ {pc'[u], pc'[v]} \subseteq Busy => Disjoint(audio[u], audio[v])
      <3>1. \A u \in Threads : pc'[u] \in Busy => pc[u] \in Busy
        BY <1>5 DEF Answers, Owning
      <3> QED BY <3>1 DEF OwnIInv, AnsweredOnce
    <2>11. AnsweredOnce'
      BY <2>3, <2>4, <2>8, <2>9, <2>10 DEF AnsweredOnce, Owning
    <2> QED BY <1>1, <2>7, <2>11 DEF OwnIInv
  <1> QED BY <1>1, <1>3, <1>4, <1>5, StepKinds DEF BridgeIInv

LEMMA InitOwn == BridgeInit => OwnIInv
  <1> SUFFICES ASSUME BridgeInit PROVE OwnIInv
    OBVIOUS
  <1>1. HandedOut
    BY DEF BridgeInit, StreamInit, HandedOut, NoAudio
  <1>2. AnsweredOnce
    BY DEF BridgeInit, AnsweredOnce, Busy, Threads
  <1> QED BY <1>1, <1>2, InitBridge DEF OwnIInv

\* No frame of the microphone stream is answered twice, and no two threads ever
\* transcribe the same frame, however the silence of the worker and the "stop"
\* of the receiving thread race.
THEOREM BridgeAnsweredOnce == BridgeSpec => []AnsweredOnce
  <1>1. OwnIInv => AnsweredOnce
    BY DEF OwnIInv
  <1> QED BY <1>1, InitOwn, StepOwn, PTL DEF BridgeSpec

-----------------------------------------------------------------------------
(* What "stop" separates.  Until it is handled the receiving thread runs no   *)
(* transcription, so the worker alone commits and answers; once it is, the    *)
(* ring is empty and nothing more is heard.                                   *)

Ending == Busy \cup {"setClosed", "closeSock", "gone"}

StopSeparates ==
  /\ ~stopped => pc["recv"] \notin Busy
  /\ stopped => pc["recv"] \in Ending /\ start = 0

\* The worker's next answer follows every answer sent.
NextIsLater ==
  ~stopped /\ pc["worker"] \in Owning =>
    \A i \in 1..Len(sent) : sent[i].audio.to < audio["worker"].from

\* Program points at which a commit is still to come.
Storing == {"match", "waitCheck", "stt", "commit", "store"}

\* The text a thread is about to store extends the one it replaces, unless the
\* other thread stored one commit after this one read; that thread then makes
\* no other, for with the ring empty there is nothing more to transcribe.
StoreIsCurrent ==
  \A t \in Threads : pc[t] = "store" =>
    \/ loaded[t] = text[held[t]]
    \/ /\ stopped /\ \A u \in Threads : u # t => pc[u] \notin Storing
       /\ \E x \in Intervals : text[held[t]] = Append(loaded[t], x)

StopIInv ==
  OwnIInv /\ StopSeparates /\ NextIsLater /\ AnswersInOrder /\ StoreIsCurrent

LEMMA StepStop ==
  ASSUME PcTypeOK, StopSeparates, [BridgeNext]_bridgeVars
  PROVE  StopSeparates'
  <1> USE DEF PcTypeOK, StopSeparates, Ending, Goto, Threads
  <1>1. CASE \E n \in 1..MaxPayload, speech \in BOOLEAN : ReceiveAudio(n, speech)
    BY <1>1 DEF ReceiveAudio, sessionVars, Busy
  <1>2. CASE ReceiveStop
    <2>1. stopped' = TRUE /\ pc'["recv"] \in Ending
      BY <1>2 DEF ReceiveStop, Busy
    <2>2. start' = 0
      BY <1>2 DEF ReceiveStop, CanTake, Take, streamVars
    <2> QED BY <2>1, <2>2
  <1>3. CASE ReceiveReset
    BY <1>3 DEF ReceiveReset, streamVars, Busy
  <1>4. CASE RecvStep
    BY <1>4 DEF RecvStep, SendReady, ResetClear, ReceiveEnd, SetClosed, CloseSocket,
                streamVars, sessionVars, Busy
  <1>5. CASE WorkerStep
    <2>1. pc'["recv"] = pc["recv"] /\ stopped' = stopped
      BY <1>5 DEF WorkerStep, Poll, Snapshot, SpecLock, Finalize, sessionVars
    <2>2. start = 0 => start' = 0
      BY <1>5 DEF WorkerStep, Poll, Snapshot, SpecLock, Finalize, Take, streamVars
    <2> QED BY <2>1, <2>2
  <1>6. CASE Speculate
    BY <1>6 DEF Speculate, SpecFinish, streamVars, sessionVars
  <1>7. ASSUME NEW t \in Threads, FinalStep(t) PROVE StopSeparates'
    <2>1. stopped' = stopped /\ start' = start /\ pc[t] \in Busy
      BY <1>7 DEF FinalStep, Match, WaitMore, WaitOver, Transcribed, CommitRead,
                  CommitStore, CommitReread, SendTranscript, SendError, Send, Clear,
                  streamVars, sessionVars, Busy
    <2>2. t = "worker" => pc'["recv"] = pc["recv"]
      BY <1>7 DEF FinalStep, Match, WaitMore, WaitOver, Transcribed, CommitRead,
                  CommitStore, CommitReread, SendTranscript, SendError, Clear
    <2>3. t = "recv" => pc'["recv"] \in Busy \cup {"setClosed"}
      BY <1>7 DEF FinalStep, Match, WaitMore, WaitOver, Transcribed, CommitRead,
                  CommitStore, CommitReread, SendTranscript, SendError, Clear,
                  Return, Raise, Busy
    <2> QED BY <2>1, <2>2, <2>3
  <1>8. CASE PeerLeaves \/ Silence \/ UNCHANGED bridgeVars
    BY <1>8 DEF PeerLeaves, Silence, FallSilent, bridgeVars, streamVars, sessionVars
  <1> QED BY <1>1, <1>2, <1>3, <1>4, <1>5, <1>6, <1>7, <1>8 DEF BridgeNext

\* "stop" is never undone.
LEMMA StopStays ==
  ASSUME [BridgeNext]_bridgeVars
  PROVE  stopped => stopped'
  BY DEF BridgeNext, ReceiveAudio, ReceiveStop, ReceiveReset, RecvStep, SendReady,
         ResetClear, ReceiveEnd, SetClosed, CloseSocket, WorkerStep, Poll, Snapshot,
         SpecLock, Finalize, Speculate, SpecFinish, FinalStep, Match, WaitMore,
         WaitOver, Transcribed, CommitRead, CommitStore, CommitReread,
         SendTranscript, SendError, Send, Clear, PeerLeaves, Silence, bridgeVars,
         sessionVars

LEMMA StepOrder ==
  ASSUME StopIInv, [BridgeNext]_bridgeVars, OwnIInv', StopSeparates'
  PROVE  NextIsLater' /\ AnswersInOrder'
  <1>1. stopped => stopped'
    BY StopStays
  <1>2. BridgeIInv /\ PcTypeOK
    BY DEF StopIInv, OwnIInv, BridgeIInv
  <1>3. /\ received \in Nat /\ start \in Nat /\ done \in Nat /\ done <= received
        /\ start = 0 \/ start > done
        /\ audio \in [Threads -> Intervals] /\ sent \in Seq(Messages)
    BY <1>2 DEF BridgeIInv, StreamBounds, AudioTypeOK, TextTypeOK
  <1>4. \A i \in 1..Len(sent) : sent[i].audio \in Intervals /\ sent[i].audio.to <= done
    <2>1. \A i \in 1..Len(sent) : sent[i] \in Messages
      BY <1>3
    <2> QED BY <2>1 DEF Messages, StopIInv, OwnIInv, HandedOut
  <1>5. CASE KeepsOwners
    <2>1. NextIsLater'
      BY <1>1, <1>5 DEF KeepsOwners, NextIsLater, StopIInv, Threads
    <2>2. AnswersInOrder'
      BY <1>1, <1>5 DEF KeepsOwners, AnswersInOrder, StopIInv
    <2> QED BY <2>1, <2>2
  <1>6. ASSUME NEW t \in Threads, TakesUtterance(t)
        PROVE  NextIsLater' /\ AnswersInOrder'
    <2>1. AnswersInOrder'
      BY <1>1, <1>6 DEF TakesUtterance, AnswersInOrder, StopIInv
    <2>2. CASE t = "worker"
      <3>1. audio'["worker"].from = start /\ start > done /\ sent' = sent
        BY <1>3, <1>6, <2>2 DEF TakesUtterance
      <3>2. \A i \in 1..Len(sent) : sent[i].audio.to < start
        BY <1>3, <1>4, <3>1 DEF Intervals
      <3> QED BY <2>1, <3>1, <3>2 DEF NextIsLater
    <2>3. CASE t # "worker"
      <3>1. audio'["worker"] = audio["worker"] /\ pc'["worker"] = pc["worker"] /\ sent' = sent
        BY <1>3, <1>6, <2>3 DEF TakesUtterance, Threads
      <3> QED BY <1>1, <2>1, <3>1 DEF NextIsLater, StopIInv
    <2> QED BY <2>2, <2>3
  <1>7. ASSUME NEW t \in Threads, Answers(t)
        PROVE  NextIsLater' /\ AnswersInOrder'
    <2>1. CASE stopped'
      BY <2>1 DEF NextIsLater, AnswersInOrder
    <2>2. CASE ~stopped'
      <3>1. ~stopped /\ t = "worker"
        BY <1>1, <1>7, <2>2 DEF Answers, Owning, StopIInv, StopSeparates, Threads
      <3>2. NextIsLater'
        BY <1>7, <3>1 DEF Answers, NextIsLater
      <3>3. PICK m : m.audio = audio["worker"] /\ sent' = Append(sent, m)
        BY <1>7, <3>1 DEF Answers
      <3>4. PICK k \in Nat : k = Len(sent)
        BY <1>3
      <3>5. /\ Len(sent') = k + 1 /\ sent'[k + 1] = m
            /\ \A i \in 1..k : sent'[i] = sent[i]
        BY <1>3, <3>3, <3>4
      <3>6. \A i \in 1..k : sent[i].audio.to < m.audio.from
        BY <1>7, <3>1, <3>3, <3>4 DEF Answers, StopIInv, NextIsLater
      <3>7. \A i, j \in 1..k : i < j => sent[i].audio.to < sent[j].audio.from
        BY <3>1, <3>4 DEF StopIInv, AnswersInOrder
      <3>8. ASSUME NEW i \in 1..(k + 1), NEW j \in 1..(k + 1), i < j
            PROVE  sent'[i].audio.to < sent'[j].audio.from
        <4>1. i \in 1..k
          BY <3>8
        <4>2. CASE j = k + 1
          BY <3>5, <3>6, <4>1, <4>2
        <4>3. CASE j # k + 1
          <5>1. j \in 1..k
            BY <4>3
          <5> QED BY <3>5, <3>7, <3>8, <4>1, <5>1
        <4> QED BY <4>2, <4>3
      <3> QED BY <3>2, <3>5, <3>8 DEF AnswersInOrder
    <2> QED BY <2>1, <2>2
  <1> QED BY <1>2, <1>5, <1>6, <1>7, StepKinds

\* Only CommitStore writes a text, and only CommitRead goes to "store".
LEMMA TextSteps ==
  ASSUME PcTypeOK, TextTypeOK, [BridgeNext]_bridgeVars
  PROVE  \/ /\ text' = text
            /\ \A t \in Threads :
                 pc'[t] = "store" =>
                   \/ pc[t] = "store" /\ loaded'[t] = loaded[t] /\ held'[t] = held[t]
                   \/ loaded'[t] = text[held'[t]]
         \/ \E t \in Threads : CommitStore(t)
  <1> DEFINE Current(t) ==
               pc'[t] = "store" =>
                 \/ pc[t] = "store" /\ loaded'[t] = loaded[t] /\ held'[t] = held[t]
                 \/ loaded'[t] = text[held'[t]]
             Quiet == text' = text /\ \A t \in Threads : Current(t)
  <1> USE DEF PcTypeOK, Goto, Threads, localVars, sessionVars
  <1>1. CASE \E n \in 1..MaxPayload, speech \in BOOLEAN : ReceiveAudio(n, speech)
    BY <1>1 DEF ReceiveAudio
  <1>2. CASE ReceiveStop
    BY <1>2 DEF ReceiveStop
  <1>3. CASE ReceiveReset
    BY <1>3 DEF ReceiveReset
  <1>4. CASE RecvStep
    BY <1>4 DEF RecvStep, SendReady, ResetClear, ReceiveEnd, SetClosed, CloseSocket
  <1>5. CASE WorkerStep
    BY <1>5 DEF WorkerStep, Poll, Snapshot, SpecLock, Finalize
  <1>6. CASE Speculate
    BY <1>6 DEF Speculate, SpecFinish
  <1>7. ASSUME NEW t \in Threads, FinalStep(t)
        PROVE  Quiet \/ CommitStore(t)
    <2>1. CASE \/ \E trimmed \in BOOLEAN : Match(t, trimmed)
               \/ WaitMore(t) \/ WaitOver(t) \/ Clear(t)
               \/ \E outcome \in Outcomes : Transcribed(t, outcome)
      BY <2>1 DEF Match, WaitMore, WaitOver, Clear, Transcribed, Return, Raise
    <2>2. ASSUME NEW novel \in Novelties, CommitRead(t, novel)
          PROVE  Quiet
      <3>1. loaded'[t] = text[state] /\ held'[t] = state /\ text' = text
        BY <2>2 DEF CommitRead, TextTypeOK
      <3>2. \A u \in Threads \ {t} :
              pc'[u] = pc[u] /\ loaded'[u] = loaded[u] /\ held'[u] = held[u]
        BY <2>2 DEF CommitRead, TextTypeOK
      <3> QED BY <3>1, <3>2
    <2>3. CASE CommitReread(t)
      <3>1. pc'[t] = "send" /\ text' = text
        BY <2>3 DEF CommitReread
      <3>2. \A u \in Threads \ {t} :
              pc'[u] = pc[u] /\ loaded'[u] = loaded[u] /\ held'[u] = held[u]
        BY <2>3 DEF CommitReread, TextTypeOK
      <3> QED BY <3>1, <3>2
    <2>4. CASE \E raises \in BOOLEAN : SendTranscript(t, raises) \/ SendError(t, raises)
      BY <2>4 DEF SendTranscript, SendError, Send, Return, Raise
    <2> QED BY <1>7, <2>1, <2>2, <2>3, <2>4 DEF FinalStep
  <1>8. CASE PeerLeaves \/ Silence \/ UNCHANGED bridgeVars
    BY <1>8 DEF PeerLeaves, Silence, bridgeVars
  <1> QED BY <1>1, <1>2, <1>3, <1>4, <1>5, <1>6, <1>7, <1>8 DEF BridgeNext

\* After "stop" a thread that is past its commit never comes to another.
LEMMA SettledStays ==
  ASSUME PcTypeOK, StopSeparates, stopped, [BridgeNext]_bridgeVars,
         NEW u \in Threads, pc[u] \notin Storing
  PROVE  pc'[u] \notin Storing
  <1> USE DEF PcTypeOK, Goto, Threads, Storing
  <1>1. start = 0 /\ pc["recv"] \in Ending
    BY DEF StopSeparates
  <1>2. pc["recv"] \notin {"start", "receive", "resetClear"}
    BY <1>1 DEF Ending, Busy
  <1>3. CASE \/ \E n \in 1..MaxPayload, speech \in BOOLEAN : ReceiveAudio(n, speech)
             \/ ReceiveStop \/ ReceiveReset
    BY <1>2, <1>3 DEF ReceiveAudio, ReceiveStop, ReceiveReset
  <1>4. CASE RecvStep
    BY <1>2, <1>4 DEF RecvStep, SendReady, ResetClear, ReceiveEnd, SetClosed, CloseSocket
  <1>5. CASE WorkerStep
    <2>1. ~CanTake(FALSE)
      BY <1>1 DEF CanTake
    <2> QED BY <1>5, <2>1 DEF WorkerStep, Poll, Snapshot, SpecLock, Finalize
  <1>6. CASE Speculate
    BY <1>6 DEF Speculate, SpecFinish
  <1>7. ASSUME NEW t \in Threads, FinalStep(t)
        PROVE  pc'[u] \notin Storing
    <2>1. CASE u # t
      BY <1>7, <2>1 DEF FinalStep, Match, WaitMore, WaitOver, Transcribed, CommitRead,
                  CommitStore, CommitReread, SendTranscript, SendError, Clear
    <2>2. CASE u = t
      BY <1>7, <2>2 DEF FinalStep, Match, WaitMore, WaitOver, Transcribed, CommitRead,
                  CommitStore, CommitReread, SendTranscript, SendError, Clear,
                  Return, Raise
    <2> QED BY <2>1, <2>2
  <1>8. CASE PeerLeaves \/ Silence \/ UNCHANGED bridgeVars
    BY <1>8 DEF PeerLeaves, Silence, bridgeVars
  <1> QED BY <1>3, <1>4, <1>5, <1>6, <1>7, <1>8 DEF BridgeNext

LEMMA StepCurrent ==
  ASSUME StopIInv, [BridgeNext]_bridgeVars
  PROVE  StoreIsCurrent'
  <1>1. stopped => stopped'
    BY StopStays
  <1>2. PcTypeOK /\ TextTypeOK /\ AudioTypeOK /\ StopSeparates /\ StoreIsCurrent
    BY DEF StopIInv, OwnIInv, BridgeIInv
  <1> DEFINE Raced(t, l, h) ==
               /\ stopped /\ \A u \in Threads : u # t => pc[u] \notin Storing
               /\ \E x \in Intervals : text[h] = Append(l, x)
  <1> SUFFICES ASSUME NEW t \in Threads, pc'[t] = "store"
               PROVE  loaded'[t] = text'[held'[t]] \/ Raced(t, loaded[t], held[t])'
    BY DEF StoreIsCurrent
  <1>3. CASE text' = text /\ loaded'[t] = text[held'[t]]
    BY <1>3
  <1>4. CASE text' = text /\ pc[t] = "store" /\ loaded'[t] = loaded[t] /\ held'[t] = held[t]
    <2>1. CASE loaded[t] = text[held[t]]
      BY <1>4, <2>1
    <2>2. CASE Raced(t, loaded[t], held[t])
      <3>1. \A u \in Threads : u # t => pc'[u] \notin Storing
        BY <1>2, <2>2, SettledStays
      <3> QED BY <1>1, <1>4, <2>2, <3>1
    <2> QED BY <1>2, <1>4, <2>1, <2>2 DEF StoreIsCurrent
  <1>5. ASSUME NEW u \in Threads, CommitStore(u)
        PROVE  loaded'[t] = text'[held'[t]] \/ Raced(t, loaded[t], held[t])'
    <2>1. /\ pc[u] = "store" /\ pc' = [pc EXCEPT ![u] = "reread"] /\ stopped' = stopped
          /\ loaded' = loaded /\ held' = held
          /\ text' = [text EXCEPT ![held[u]] = Append(loaded[u], hyp[u])]
      BY <1>5 DEF CommitStore, Goto, localVars
    <2>2. pc'[u] = "reread" /\ u # t /\ pc[t] = "store"
      BY <1>2, <2>1 DEF PcTypeOK
    <2>3. stopped
      BY <1>2, <2>1, <2>2 DEF StopSeparates, Threads, Busy
    <2>4. loaded[t] = text[held[t]] /\ loaded[u] = text[held[u]]
      BY <1>2, <2>1, <2>2 DEF StoreIsCurrent, Storing
    <2>5. held[t] \in States /\ held[u] \in States /\ text \in [States -> Seq(Intervals)]
      BY <1>2 DEF TextTypeOK
    <2>6. CASE held[u] # held[t]
      <3>1. text'[held[t]] = text[held[t]]
        BY <2>1, <2>5, <2>6
      <3> QED BY <2>1, <2>4, <3>1
    <2>7. CASE held[u] = held[t]
      <3>1. text'[held[t]] = Append(loaded[t], hyp[u]) /\ hyp[u] \in Intervals
        BY <1>2, <2>1, <2>4, <2>5, <2>7 DEF AudioTypeOK
      <3>2. \A v \in Threads : v # t => pc'[v] = "reread"
        BY <2>2 DEF Threads
      <3>3. stopped' /\ \A v \in Threads : v # t => pc'[v] \notin Storing
        BY <2>1, <2>3, <3>2 DEF Storing
      <3>4. held'[t] = held[t] /\ loaded'[t] = loaded[t]
        BY <2>1
      <3>5. \E x \in Intervals : text'[held'[t]] = Append(loaded'[t], x)
        BY <3>1, <3>4
      <3> QED BY <3>3, <3>5
    <2> QED BY <2>6, <2>7
  <1> HIDE DEF Raced
  <1> QED BY <1>2, <1>3, <1>4, <1>5, TextSteps

LEMMA StepStopIInv == StopIInv /\ [BridgeNext]_bridgeVars => StopIInv'
  <1> SUFFICES ASSUME StopIInv, [BridgeNext]_bridgeVars PROVE StopIInv'
    OBVIOUS
  <1>1. OwnIInv'
    BY StepOwn DEF StopIInv
  <1>2. StopSeparates'
    BY StepStop DEF StopIInv, OwnIInv, BridgeIInv
  <1>3. NextIsLater' /\ AnswersInOrder'
    BY <1>1, <1>2, StepOrder
  <1>4. StoreIsCurrent'
    BY StepCurrent
  <1> QED BY <1>1, <1>2, <1>3, <1>4 DEF StopIInv

LEMMA InitStop == BridgeInit => StopIInv
  <1> SUFFICES ASSUME BridgeInit PROVE StopIInv
    OBVIOUS
  <1>1. stopped = FALSE /\ sent = <<>> /\ pc["recv"] = "start" /\ pc["worker"] = "poll"
    BY DEF BridgeInit, Threads
  <1>2. StopSeparates /\ NextIsLater /\ AnswersInOrder /\ StoreIsCurrent
    BY <1>1 DEF StopSeparates, NextIsLater, AnswersInOrder, StoreIsCurrent, Busy, Threads
  <1> QED BY <1>2, InitOwn DEF StopIInv

THEOREM BridgeStopInductive == BridgeSpec => []StopIInv
  BY InitStop, StepStopIInv, PTL DEF BridgeSpec

\* As long as no "stop" was handled, answers arrive in the order of the speech,
\* for any stream, outcomes and resets (one worker in _infer_loop).
THEOREM BridgeAnswersInOrder == BridgeSpec => []AnswersInOrder
  <1>1. StopIInv => AnswersInOrder
    BY DEF StopIInv
  <1> QED BY <1>1, BridgeStopInductive, PTL

\* A session that ended by "stop" leaves no speech untaken in the ring, however
\* the worker's extraction and the forced one race (_handle_text).
THEOREM BridgeStopTakesTheRest == BridgeSpec => []StopTakesTheRest
  <1>1. StopIInv => StopTakesTheRest
    BY DEF StopIInv, StopSeparates, StopTakesTheRest
  <1> QED BY <1>1, BridgeStopInductive, PTL

\* No commit is lost, across any resets, but for the one that the thread of
\* "stop" and the worker may overwrite, each with its own (commit_final_delta,
\* _handle_text).
THEOREM BridgeConfirmedTextGrows == BridgeSpec => ConfirmedTextGrows
  <1> DEFINE Kept(a) == IF stopped THEN Len(a) - 1 ELSE Len(a)
             Grows == \A s \in States :
                        /\ Len(text'[s]) >= Len(text[s])
                        /\ SubSeq(text'[s], 1, Kept(text[s])) = SubSeq(text[s], 1, Kept(text[s]))
  <1>1. ASSUME StopIInv, [BridgeNext]_bridgeVars PROVE Grows
    <2>1. PcTypeOK /\ TextTypeOK /\ AudioTypeOK /\ StoreIsCurrent
      BY <1>1 DEF StopIInv, OwnIInv, BridgeIInv
    <2>2. \A s \in States : text[s] \in Seq(Intervals)
      BY <2>1 DEF TextTypeOK
    <2>3. CASE text' = text
      BY <2>2, <2>3
    <2>4. ASSUME NEW t \in Threads, CommitStore(t) PROVE Grows
      <3> SUFFICES ASSUME NEW s \in States
                   PROVE  /\ Len(text'[s]) >= Len(text[s])
                          /\ SubSeq(text'[s], 1, Kept(text[s]))
                               = SubSeq(text[s], 1, Kept(text[s]))
        OBVIOUS
      <3>1. /\ pc[t] = "store" /\ held[t] \in States
            /\ text' = [text EXCEPT ![held[t]] = Append(loaded[t], hyp[t])]
        BY <2>1, <2>4 DEF CommitStore, TextTypeOK
      <3>2. /\ hyp[t] \in Intervals /\ text[s] \in Seq(Intervals)
            /\ loaded[t] \in Seq(Intervals) /\ text \in [States -> Seq(Intervals)]
        BY <2>1, <2>2 DEF AudioTypeOK, TextTypeOK
      <3>3. CASE s # held[t]
        <4>1. text'[s] = text[s]
          BY <3>1, <3>2, <3>3
        <4> QED BY <3>2, <4>1
      <3>4. CASE s = held[t]
        <4>1. text'[s] = Append(loaded[t], hyp[t])
          BY <3>1, <3>2, <3>4
        <4>2. CASE loaded[t] = text[s]
          <5>1. /\ Len(text'[s]) = Len(text[s]) + 1
                /\ SubSeq(text'[s], 1, Len(text[s])) = SubSeq(text[s], 1, Len(text[s]))
                /\ SubSeq(text'[s], 1, Len(text[s]) - 1)
                     = SubSeq(text[s], 1, Len(text[s]) - 1)
            BY <3>2, <4>1, <4>2
          <5> QED BY <3>2, <5>1
        <4>3. CASE stopped /\ \E x \in Intervals : text[s] = Append(loaded[t], x)
          <5>1. PICK x \in Intervals : text[s] = Append(loaded[t], x)
            BY <4>3
          <5>2. /\ Len(text'[s]) = Len(loaded[t]) + 1 /\ Len(text[s]) = Len(loaded[t]) + 1
                /\ SubSeq(text'[s], 1, Len(loaded[t])) = SubSeq(text[s], 1, Len(loaded[t]))
                /\ Len(loaded[t]) \in Nat
            BY <3>2, <4>1, <5>1
          <5> QED BY <4>3, <5>2
        <4> QED BY <2>1, <3>1, <3>4, <4>2, <4>3 DEF StoreIsCurrent
      <3> QED BY <3>3, <3>4
    <2> HIDE DEF Grows
    <2> QED BY <1>1, <2>1, <2>3, <2>4, TextSteps
  <1>2. StopIInv /\ [BridgeNext]_bridgeVars => [Grows]_bridgeVars
    BY <1>1
  <1>3. BridgeSpec => [][Grows]_bridgeVars
    BY <1>2, BridgeStopInductive, PTL DEF BridgeSpec
  <1> QED BY <1>3 DEF ConfirmedTextGrows

-----------------------------------------------------------------------------
(* Whose speculation it is.  In a session without a "stop" and without a      *)
(* failed final transcription, whatever a speculation may still deliver was   *)
(* made from the open utterance, or from the one the worker just took.        *)

\* x was recorded in an utterance that is now lo..hi; only at the cap may its
\* first frame have been trimmed away since.
MadeOf(x, lo, hi) ==
  /\ x.from >= 1 /\ x.from <= x.to /\ x.to <= hi
  /\ x.from = lo \/ hi + 1 - lo >= UtteranceCap

\* So was whatever a speculation may still deliver.
SpecMadeOf(lo, hi) ==
  /\ latest # NoAudio => MadeOf(latest, lo, hi)
  /\ \A j \in specJobs : j.generation = generation => MadeOf(j.audio, lo, hi)
  /\ pc["worker"] = "specLock" => MadeOf(snap, lo, hi)

\* Nothing may still be delivered.
NoSpec ==
  /\ latest = NoAudio
  /\ \A j \in specJobs : j.generation # generation
  /\ pc["worker"] # "specLock"

\* h stands for the utterance a, as SpeculationIsFresh has it.
Stands(h, a) ==
  Length(a) < UtteranceCap =>
    h.from = a.from /\ h.to <= a.to /\ a.to <= h.to + Tolerance

SpecOfOpen ==
  pc["worker"] \in {"poll", "snapshot", "specLock", "extract"} =>
    /\ start = 0 => NoSpec
    /\ start # 0 => SpecMadeOf(start, received)

SpecOfTaken ==
  pc["worker"] \in {"match", "waitCheck", "stt"} =>
    /\ audio["worker"].from \in 1..audio["worker"].to
    /\ SpecMadeOf(audio["worker"].from, audio["worker"].to)

HypOfTaken ==
  pc["worker"] \in {"commit", "store", "reread", "send"} =>
    Stands(hyp["worker"], audio["worker"])

SentStands ==
  \A i \in 1..Len(sent) :
    sent[i].kind = "transcript" => Stands(sent[i].hyp, sent[i].audio)

FreshInv ==
  /\ \A j \in specJobs : j.generation <= generation
  /\ pc["worker"] = "sendError" => failed
  /\ ~stopped /\ ~failed => SpecOfOpen /\ SpecOfTaken /\ HypOfTaken /\ SentStands

FreshIInv == StopIInv /\ FreshInv

freshVars == <<pc["worker"], audio["worker"], hyp["worker"], start, received,
               snap, latest, generation, specJobs, sent, failed, stopped>>

LEMMA UntouchedFresh ==
  ASSUME FreshInv, UNCHANGED freshVars
  PROVE  FreshInv'
  BY DEF freshVars, FreshInv, SpecOfOpen, SpecOfTaken, HypOfTaken, SentStands,
         SpecMadeOf, MadeOf, NoSpec, Stands

\* How an open utterance grows: its first frame stays, or the cap moves it.
LEMMA HearMoves ==
  ASSUME StreamBounds, NEW n \in 1..MaxPayload, NEW speech \in BOOLEAN,
         Hear(n, speech), start # 0
  PROVE  /\ received \in Nat /\ start \in Nat /\ received' = received + n /\ n \in Nat
         /\ start' \in Nat /\ start' # 0
         /\ start' = start \/ received' + 1 - start' = UtteranceCap
         /\ received + 1 - start >= UtteranceCap
              => received' + 1 - start' >= UtteranceCap
  <1>1. /\ received' = received + n /\ n \in Nat /\ received \in Nat
        /\ start \in Nat /\ start <= received
        /\ start' = Later(start, Oldest(received', UtteranceCap))
    BY StreamAssumption DEF Hear, StreamBounds
  <1>2. PICK cap \in Nat : cap = UtteranceCap /\ cap >= 1
    BY StreamAssumption
  <1>3. PICK top \in Nat : top = received + n
    BY <1>1
  <1>4. PICK o \in Nat : o = Oldest(top, cap)
    BY <1>2, <1>3 DEF Oldest
  <1>5. start' = IF start >= o THEN start ELSE o
    BY <1>1, <1>2, <1>3, <1>4 DEF Later
  <1>6. (top <= cap /\ o = 1) \/ (top > cap /\ top + 1 - o = cap)
    BY <1>2, <1>3, <1>4 DEF Oldest
  <1> QED BY <1>1, <1>2, <1>3, <1>5, <1>6

\* An utterance that grows keeps what was recorded in it.
LEMMA HearKeeps ==
  ASSUME StreamBounds, NEW n \in 1..MaxPayload, NEW speech \in BOOLEAN,
         Hear(n, speech), start # 0, NEW x \in Intervals, MadeOf(x, start, received)
  PROVE  MadeOf(x, start', received')
  <1>1. x.from \in Nat /\ x.to \in Nat
    BY DEF Intervals
  <1>2. UtteranceCap \in Nat
    BY StreamAssumption
  <1> QED BY <1>1, <1>2, HearMoves DEF MadeOf

LEMMA HearFresh ==
  ASSUME FreshIInv, NEW n \in 1..MaxPayload, NEW speech \in BOOLEAN,
         ReceiveAudio(n, speech)
  PROVE  FreshInv'
  <1> USE DEF localVars, sessionVars, specVars
  <1>1. StreamBounds /\ AudioTypeOK
    BY DEF FreshIInv, StopIInv, OwnIInv, BridgeIInv
  <1>2. FreshInv /\ Hear(n, speech)
    BY DEF FreshIInv, ReceiveAudio
  <1>3. UNCHANGED <<pc, audio, hyp, snap, latest, generation, specJobs, sent, failed, stopped>>
    BY DEF ReceiveAudio
  <1>4. /\ snap \in Intervals /\ latest \in Intervals
        /\ \A j \in specJobs : j.audio \in Intervals
    BY <1>1 DEF AudioTypeOK
  <1>5. ASSUME ~stopped, ~failed PROVE SpecOfOpen'
    <2>1. SpecOfOpen
      BY <1>2, <1>5 DEF FreshInv
    <2>2. CASE start # 0
      <3>1. start' # 0
        BY <1>1, <1>2, <2>2, HearMoves
      <3>2. \A x \in Intervals : MadeOf(x, start, received) => MadeOf(x, start', received')
        BY <1>1, <1>2, <2>2, HearKeeps
      <3> QED BY <1>3, <1>4, <2>1, <2>2, <3>1, <3>2 DEF SpecOfOpen, SpecMadeOf
    <2>3. CASE start = 0
      BY <1>3, <2>1, <2>3 DEF SpecOfOpen, NoSpec, SpecMadeOf
    <2> QED BY <2>2, <2>3
  <1>6. ASSUME ~stopped, ~failed
        PROVE  SpecOfTaken' /\ HypOfTaken' /\ SentStands'
    BY <1>2, <1>3, <1>6 DEF FreshInv, SpecOfTaken, HypOfTaken, SentStands,
                            SpecMadeOf, MadeOf, Stands
  <1> QED BY <1>2, <1>3, <1>5, <1>6 DEF FreshInv

\* Clearing leaves nothing to deliver: every running job is of an old generation.
LEMMA ClearFresh ==
  ASSUME AudioTypeOK, \A j \in specJobs : j.generation <= generation, ClearSpeculative
  PROVE  /\ \A j \in specJobs' : j.generation <= generation'
         /\ \A j \in specJobs' : j.generation # generation'
         /\ latest' = NoAudio /\ snap' = snap
  <1>1. generation \in Nat /\ \A j \in specJobs : j.generation \in Nat
    BY DEF AudioTypeOK
  <1> QED BY <1>1 DEF ClearSpeculative

LEMMA ResetFresh ==
  ASSUME FreshIInv, ResetClear
  PROVE  FreshInv'
  <1> USE DEF localVars, sessionVars, streamVars
  <1>1. FreshInv /\ AudioTypeOK /\ PcTypeOK
    BY DEF FreshIInv, StopIInv, OwnIInv, BridgeIInv
  <1>2. /\ \A j \in specJobs' : j.generation <= generation'
        /\ \A j \in specJobs' : j.generation # generation'
        /\ latest' = NoAudio /\ snap' = snap
    BY <1>1, ClearFresh DEF FreshInv, ResetClear
  <1>3. /\ UNCHANGED <<audio, hyp, start, received, sent, failed, stopped>>
        /\ pc'["worker"] = pc["worker"]
    BY <1>1 DEF ResetClear, Goto, PcTypeOK, Threads
  <1> QED BY <1>1, <1>2, <1>3 DEF FreshInv, SpecOfOpen, SpecOfTaken, HypOfTaken,
             SentStands, SpecMadeOf, MadeOf, NoSpec, Stands

LEMMA SpeculateFresh ==
  ASSUME FreshIInv, NEW job \in specJobs, NEW outcome \in Outcomes,
         SpecFinish(job, outcome)
  PROVE  FreshInv'
  <1> USE DEF localVars, sessionVars, streamVars
  <1>1. FreshInv
    BY DEF FreshIInv
  <1>2. /\ specJobs' \subseteq specJobs
        /\ latest' = latest \/ (latest' = job.audio /\ job.generation = generation)
        /\ UNCHANGED <<pc, audio, hyp, start, received, snap, generation, sent, failed, stopped>>
    BY DEF SpecFinish
  <1> QED BY <1>1, <1>2 DEF FreshInv, SpecOfOpen, SpecOfTaken, HypOfTaken,
             SentStands, SpecMadeOf, MadeOf, NoSpec, Stands

LEMMA WorkerFresh ==
  ASSUME FreshIInv, WorkerStep
  PROVE  FreshInv'
  <1> USE DEF localVars, sessionVars, streamVars
  <1>1. FreshInv /\ AudioTypeOK /\ PcTypeOK /\ StreamBounds
    BY DEF FreshIInv, StopIInv, OwnIInv, BridgeIInv
  <1>2. "worker" \in DOMAIN pc
    BY <1>1 DEF PcTypeOK, Threads
  <1>3. CASE Poll
    <2>1. /\ UNCHANGED <<audio, hyp, start, received, snap, latest, generation, specJobs,
                         sent, failed, stopped>>
          /\ pc["worker"] = "poll" /\ pc'["worker"] \in {"exited", "snapshot"}
      BY <1>2, <1>3 DEF Poll, Goto, specVars
    <2> QED BY <1>1, <2>1 DEF FreshInv, SpecOfOpen, SpecOfTaken, HypOfTaken,
               SentStands, SpecMadeOf, MadeOf, NoSpec, Stands
  <1>4. CASE Snapshot
    <2>1. /\ UNCHANGED <<audio, hyp, start, received, latest, generation, specJobs,
                         sent, failed, stopped>>
          /\ pc["worker"] = "snapshot"
      BY <1>4 DEF Snapshot
    <2>2. CASE pc'["worker"] = "extract"
      BY <1>1, <2>1, <2>2 DEF FreshInv, SpecOfOpen, SpecOfTaken, HypOfTaken,
         SentStands, SpecMadeOf, MadeOf, NoSpec, Stands
    <2>3. CASE pc'["worker"] # "extract"
      <3>1. /\ pc'["worker"] = "specLock" /\ OpenLength >= MinWindow
            /\ snap' = [from |-> start, to |-> received]
        BY <1>2, <1>4, <2>3 DEF Snapshot, Goto
      <3>2. start # 0 /\ start >= 1 /\ start <= received
        BY <1>1, <3>1, StreamAssumption DEF OpenLength, StreamBounds
      <3>3. MadeOf(snap', start, received)
        BY <1>1, <3>1, <3>2 DEF MadeOf, StreamBounds
      <3> QED BY <1>1, <2>1, <3>1, <3>2, <3>3 DEF FreshInv, SpecOfOpen, SpecOfTaken,
                 HypOfTaken, SentStands, SpecMadeOf, MadeOf, Stands
    <2> QED BY <2>2, <2>3
  <1>5. ASSUME NEW elapsed \in BOOLEAN, SpecLock(elapsed) PROVE FreshInv'
    <2> DEFINE job == [audio |-> snap, generation |-> generation]
    <2>1. /\ UNCHANGED <<audio, hyp, start, received, snap, generation, sent, failed, stopped>>
          /\ pc["worker"] = "specLock" /\ pc'["worker"] = "extract"
          /\ latest' = latest \/ latest' = NoAudio
          /\ specJobs' = specJobs \/ specJobs' = specJobs \cup {job}
      BY <1>2, <1>5 DEF SpecLock, Goto
    <2>2. \A j \in specJobs' : j \in specJobs \/ (j.audio = snap /\ j.generation = generation)
      BY <2>1
    <2>3. generation <= generation
      BY <1>1 DEF AudioTypeOK
    <2> HIDE DEF job
    <2> QED BY <1>1, <2>1, <2>2, <2>3 DEF FreshInv, SpecOfOpen, SpecOfTaken,
               HypOfTaken, SentStands, SpecMadeOf, MadeOf, NoSpec, Stands
  <1>6. CASE Finalize
    <2>1. /\ UNCHANGED <<hyp, received, snap, latest, generation, specJobs, sent, failed, stopped>>
          /\ pc["worker"] = "extract"
      BY <1>6 DEF Finalize, Take, specVars
    <2>2. CASE CanTake(FALSE)
      <3>1. /\ pc'["worker"] = "match" /\ start # 0
            /\ audio'["worker"] = [from |-> start, to |-> received]
        BY <1>1, <1>2, <1>6, <2>2 DEF Finalize, CanTake, Goto, AudioTypeOK, Threads
      <3>2. audio'["worker"].from = start /\ audio'["worker"].to = received
            /\ start \in 1..received
        BY <1>1, <3>1 DEF StreamBounds
      <3> QED BY <1>1, <2>1, <3>1, <3>2 DEF FreshInv, SpecOfOpen, SpecOfTaken,
                 HypOfTaken, SentStands, SpecMadeOf, MadeOf, Stands
    <2>3. CASE ~CanTake(FALSE)
      <3>1. UNCHANGED <<audio, start>> /\ pc'["worker"] = "poll"
        BY <1>2, <1>6, <2>3 DEF Finalize, Goto
      <3> QED BY <1>1, <2>1, <3>1 DEF FreshInv, SpecOfOpen, SpecOfTaken,
                 HypOfTaken, SentStands, SpecMadeOf, MadeOf, NoSpec, Stands
    <2> QED BY <2>2, <2>3
  <1> QED BY <1>3, <1>4, <1>5, <1>6 DEF WorkerStep

\* The length test of _matching_speculative_result tells a result that stands
\* for the utterance from one that is too old, below the cap.
LEMMA MatchStands ==
  ASSUME AudioTypeOK, audio["worker"].from \in 1..audio["worker"].to,
         MadeOf(latest, audio["worker"].from, audio["worker"].to),
         SourceMatches(audio["worker"])
  PROVE  Stands(latest, audio["worker"])
  <1>1. PICK a \in Intervals, x \in Intervals : a = audio["worker"] /\ x = latest
    BY DEF AudioTypeOK, Threads
  <1>2. /\ a.from \in Nat /\ a.to \in Nat /\ x.from \in Nat /\ x.to \in Nat
        /\ UtteranceCap \in Nat /\ Tolerance \in Nat
    BY StreamAssumption, BridgeAssumption DEF Intervals
  <1>3. a.from >= 1 /\ x.from >= 1
    BY <1>1, <1>2 DEF MadeOf
  <1>4. Length(a) = a.to + 1 - a.from /\ Length(x) = x.to + 1 - x.from
    BY <1>3 DEF Length, NoAudio
  <1>5. /\ x.to <= a.to /\ x.from <= x.to
        /\ x.from = a.from \/ a.to + 1 - a.from >= UtteranceCap
    BY <1>1 DEF MadeOf
  <1>6. Length(a) <= Length(x) + Tolerance
    BY <1>1 DEF SourceMatches
  <1>7. Length(a) < UtteranceCap => x.from = a.from /\ x.to <= a.to /\ a.to <= x.to + Tolerance
    BY <1>2, <1>4, <1>5, <1>6
  <1> QED BY <1>1, <1>7 DEF Stands

LEMMA FinalFresh ==
  ASSUME FreshIInv, NEW t \in Threads, FinalStep(t)
  PROVE  FreshInv'
  <1> USE DEF localVars, sessionVars, streamVars
  <1>1. /\ FreshInv /\ AudioTypeOK /\ PcTypeOK /\ TextTypeOK /\ StopSeparates
        /\ sent \in Seq(Messages)
    BY DEF FreshIInv, StopIInv, OwnIInv, BridgeIInv, TextTypeOK
  <1>2. "worker" \in DOMAIN pc /\ "worker" \in DOMAIN hyp
    BY <1>1 DEF PcTypeOK, AudioTypeOK, Threads
  <1>3. UNCHANGED <<start, received, stopped>> /\ (failed => failed')
    <2>1. UNCHANGED <<start, received, stopped>>
      BY DEF FinalStep, Match, WaitMore, WaitOver, Transcribed, CommitRead, CommitStore,
             CommitReread, SendTranscript, SendError, Send, Clear
    <2>2. CASE \E outcome \in Outcomes : Transcribed(t, outcome)
      BY <2>1, <2>2 DEF Transcribed
    <2>3. CASE ~ \E outcome \in Outcomes : Transcribed(t, outcome)
      <3>1. failed' = failed
        BY <2>3 DEF FinalStep, Match, WaitMore, WaitOver, CommitRead, CommitStore,
           CommitReread, SendTranscript, SendError, Send, Clear
      <3> QED BY <2>1, <3>1
    <2> QED BY <2>2, <2>3
  <1>4. CASE t = "recv"
    <2>1. stopped
      BY <1>1, <1>4 DEF StopSeparates, Busy, FinalStep, Match, WaitMore, WaitOver, Transcribed,
         CommitRead, CommitStore, CommitReread, SendTranscript, SendError, Clear
    <2>2. pc'["worker"] = pc["worker"]
      BY <1>1, <1>2, <1>4 DEF FinalStep, Match, WaitMore, WaitOver, Transcribed, CommitRead,
         CommitStore, CommitReread, SendTranscript, SendError, Clear, Goto, PcTypeOK
    <2>3. \A j \in specJobs' : j.generation <= generation'
      <3>1. CASE Clear(t)
        BY <1>1, <3>1, ClearFresh DEF Clear, FreshInv
      <3>2. CASE ~Clear(t)
        BY <1>1, <3>2 DEF FinalStep, Match, WaitMore, WaitOver, Transcribed, CommitRead,
           CommitStore, CommitReread, SendTranscript, SendError, Send, specVars, FreshInv
      <3> QED BY <3>1, <3>2
    <2> QED BY <1>1, <1>3, <2>1, <2>2, <2>3 DEF FreshInv
  <1>5. ASSUME NEW trimmed \in BOOLEAN, Match("worker", trimmed) PROVE FreshInv'
    <2>1. /\ UNCHANGED <<audio, snap, latest, generation, specJobs, sent, failed>>
          /\ pc["worker"] = "match"
      BY <1>5 DEF Match, specVars
    <2>2. CASE SpeculativeEnabled /\ SourceMatches(audio["worker"]) /\ trimmed
      <3>1. pc'["worker"] = "commit" /\ hyp'["worker"] = latest
        BY <1>2, <1>5, <2>2 DEF Match, Goto
      <3>2. ~stopped /\ ~failed => Stands(latest, audio["worker"])
        BY <1>1, <2>1, <2>2, MatchStands DEF FreshInv, SpecOfTaken, SpecMadeOf, SourceMatches
      <3> QED BY <1>1, <1>3, <2>1, <3>1, <3>2 DEF FreshInv, SpecOfOpen, SpecOfTaken,
                 HypOfTaken, SentStands, Stands
    <2>3. CASE ~(SpeculativeEnabled /\ SourceMatches(audio["worker"]) /\ trimmed)
      <3>1. pc'["worker"] \in {"waitCheck", "stt"} /\ hyp' = hyp
        BY <1>2, <1>5, <2>3 DEF Match, Goto
      <3> QED BY <1>1, <1>3, <2>1, <3>1 DEF FreshInv, SpecOfOpen, SpecOfTaken,
                 HypOfTaken, SentStands, SpecMadeOf, MadeOf, Stands
    <2> QED BY <2>2, <2>3
  <1>6. CASE WaitMore("worker") \/ WaitOver("worker")
    <2>1. /\ UNCHANGED <<audio, hyp, snap, latest, generation, specJobs, sent, failed>>
          /\ pc["worker"] = "waitCheck" /\ pc'["worker"] \in {"match", "stt"}
      BY <1>2, <1>6 DEF WaitMore, WaitOver, Goto, specVars
    <2> QED BY <1>1, <1>3, <2>1 DEF FreshInv, SpecOfOpen, SpecOfTaken, HypOfTaken,
               SentStands, SpecMadeOf, MadeOf, Stands
  <1>7. ASSUME NEW outcome \in Outcomes, Transcribed("worker", outcome) PROVE FreshInv'
    <2>1. /\ UNCHANGED <<audio, snap, latest, generation, specJobs, sent>>
          /\ pc["worker"] = "stt" /\ hyp'["worker"] = audio["worker"]
          /\ pc'["worker"] \in {"commit", "clear", "sendError", "crashed"}
          /\ pc'["worker"] = "sendError" => failed'
      BY <1>2, <1>7, BridgeAssumption DEF Transcribed, Goto, specVars, Raise
    <2>2. ~stopped /\ ~failed => Stands(audio["worker"], audio["worker"])
      <3>1. audio["worker"].to \in Nat /\ Tolerance \in Nat
        BY <1>1, BridgeAssumption DEF AudioTypeOK, Threads, Intervals
      <3> QED BY <3>1 DEF Stands
    <2> QED BY <1>1, <1>3, <2>1, <2>2 DEF FreshInv, SpecOfOpen, SpecOfTaken, HypOfTaken,
               SentStands, Stands
  <1>8. CASE (\E novel \in Novelties : CommitRead("worker", novel))
             \/ CommitStore("worker") \/ CommitReread("worker")
    <2>1. /\ UNCHANGED <<audio, hyp, snap, latest, generation, specJobs, sent, failed>>
          /\ pc["worker"] \in {"commit", "store", "reread"}
          /\ pc'["worker"] \in {"store", "clear", "reread", "send"}
      BY <1>2, <1>8 DEF CommitRead, CommitStore, CommitReread, Goto, specVars
    <2> QED BY <1>1, <1>3, <2>1 DEF FreshInv, SpecOfOpen, SpecOfTaken, HypOfTaken,
               SentStands, Stands
  <1>9. ASSUME NEW raises \in BOOLEAN, SendTranscript("worker", raises) PROVE FreshInv'
    <2> DEFINE message == [kind |-> "transcript", audio |-> audio["worker"],
                           hyp |-> hyp["worker"], text |-> loaded["worker"]]
    <2>1. /\ UNCHANGED <<snap, latest, generation, specJobs, failed>>
          /\ pc["worker"] = "send" /\ pc'["worker"] \in {"clear", "dead"}
          /\ sent' = sent \/ sent' = Append(sent, message)
      BY <1>2, <1>9 DEF SendTranscript, Send, Goto, specVars, Raise
    <2>2. ~stopped /\ ~failed => SentStands'
      <3> SUFFICES ASSUME ~stopped, ~failed PROVE SentStands'
        OBVIOUS
      <3>1. Stands(message.hyp, message.audio) /\ SentStands
        BY <1>1, <2>1 DEF FreshInv, HypOfTaken
      <3> HIDE DEF message
      <3>2. CASE sent' = sent
        BY <3>1, <3>2 DEF SentStands, Stands
      <3>3. CASE sent' = Append(sent, message)
        <4>1. PICK k \in Nat : k = Len(sent)
          BY <1>1
        <4>2. /\ Len(sent') = k + 1 /\ sent'[k + 1] = message
              /\ \A i \in 1..k : sent'[i] = sent[i]
          BY <1>1, <3>3, <4>1
        <4>3. \A i \in 1..(k + 1) : i \in 1..k \/ i = k + 1
          BY <4>1
        <4> QED BY <3>1, <4>1, <4>2, <4>3 DEF SentStands, Stands
      <3> QED BY <2>1, <3>2, <3>3
    <2> QED BY <1>1, <1>3, <2>1, <2>2 DEF FreshInv, SpecOfOpen, SpecOfTaken, HypOfTaken
  <1>10. ASSUME NEW raises \in BOOLEAN, SendError("worker", raises) PROVE FreshInv'
    <2>1. /\ UNCHANGED <<generation, specJobs, failed>>
          /\ pc["worker"] = "sendError" /\ pc'["worker"] \in {"poll", "dead"}
      BY <1>2, <1>10 DEF SendError, Send, Goto, specVars, Raise, Return
    <2> QED BY <1>1, <2>1 DEF FreshInv
  <1>11. CASE Clear("worker")
    <2>1. /\ \A j \in specJobs' : j.generation <= generation'
          /\ \A j \in specJobs' : j.generation # generation'
          /\ latest' = NoAudio
      BY <1>1, <1>11, ClearFresh DEF Clear, FreshInv
    <2>2. UNCHANGED <<audio, hyp, sent, failed>> /\ pc'["worker"] = "poll"
      BY <1>2, <1>11 DEF Clear, Goto, Return
    <2> QED BY <1>1, <1>3, <2>1, <2>2 DEF FreshInv, SpecOfOpen, SpecOfTaken, HypOfTaken,
               SentStands, SpecMadeOf, NoSpec, Stands
  <1>12. t = "worker" \/ t = "recv"
    BY DEF Threads
  <1> QED BY <1>4, <1>5, <1>6, <1>7, <1>8, <1>9, <1>10, <1>11, <1>12 DEF FinalStep

LEMMA StepFresh == FreshIInv /\ [BridgeNext]_bridgeVars => FreshIInv'
  <1> SUFFICES ASSUME FreshIInv, [BridgeNext]_bridgeVars PROVE FreshIInv'
    OBVIOUS
  <1> USE DEF localVars, sessionVars, streamVars, specVars
  <1>1. FreshInv /\ PcTypeOK
    BY DEF FreshIInv, StopIInv, OwnIInv, BridgeIInv
  <1>2. ASSUME UNCHANGED freshVars PROVE FreshInv'
    BY <1>1, <1>2, UntouchedFresh
  <1>3. ASSUME ReceiveStop PROVE FreshInv'
    <2>1. stopped' = TRUE /\ UNCHANGED <<failed, generation, specJobs>>
      BY <1>3 DEF ReceiveStop
    <2>2. pc'["worker"] = pc["worker"]
      BY <1>1, <1>3 DEF ReceiveStop, Goto, PcTypeOK, Threads
    <2> QED BY <1>1, <2>1, <2>2 DEF FreshInv
  <1>4. ASSUME ReceiveReset PROVE FreshInv'
    BY <1>1, <1>2, <1>4 DEF ReceiveReset, freshVars, Goto, PcTypeOK
  <1>5. ASSUME RecvStep, ~ResetClear PROVE FreshInv'
    <2>1. pc'["worker"] = pc["worker"]
      BY <1>1, <1>5 DEF RecvStep, SendReady, ReceiveEnd, SetClosed, CloseSocket,
         Goto, PcTypeOK, Threads
    <2> QED BY <1>2, <1>5, <2>1 DEF RecvStep, SendReady, ReceiveEnd, SetClosed,
               CloseSocket, freshVars
  <1>6. ASSUME PeerLeaves \/ Silence \/ UNCHANGED bridgeVars PROVE FreshInv'
    BY <1>2, <1>6 DEF PeerLeaves, Silence, FallSilent, bridgeVars, freshVars
  <1>7. FreshInv'
    BY <1>3, <1>4, <1>5, <1>6, HearFresh, ResetFresh, SpeculateFresh, WorkerFresh,
       FinalFresh DEF BridgeNext, RecvStep, Speculate
  <1> QED BY <1>7, StepStopIInv DEF FreshIInv

LEMMA InitFresh == BridgeInit => FreshIInv
  <1> SUFFICES ASSUME BridgeInit PROVE FreshIInv
    OBVIOUS
  <1>1. /\ pc["worker"] = "poll" /\ specJobs = {} /\ latest = NoAudio
        /\ sent = <<>> /\ start = 0
    BY DEF BridgeInit, StreamInit, Threads
  <1>2. FreshInv
    BY <1>1 DEF FreshInv, SpecOfOpen, SpecOfTaken, HypOfTaken, SentStands, NoSpec
  <1> QED BY <1>2, InitStop DEF FreshIInv

\* No transcript ever stands for speech it was not made from, whatever the
\* speculative threads, resets and exceptions do, unless a "stop", a failed
\* transcription or the cap came first.
THEOREM BridgeSpeculationIsFresh == BridgeSpec => []SpeculationIsFresh
  <1>1. FreshIInv => SpeculationIsFresh
    BY DEF FreshIInv, FreshInv, SentStands, Stands, SpeculationIsFresh
  <1> QED BY <1>1, InitFresh, StepFresh, PTL DEF BridgeSpec
=============================================================================
