---------------------------- MODULE LiveSttBridge ----------------------------
(* LiveSttBridge of backend/inbound_ai/live_stt.py: one WebSocket session.    *)
(* The receiving thread (`run`) appends audio and handles "stop" and "reset"; *)
(* the worker (`_infer_loop`) starts speculative transcriptions and ends      *)
(* utterances on silence; speculative threads come and go.  On "stop" the     *)
(* receiving thread itself runs `_transcribe_final_utterance`, so that        *)
(* procedure, and the commit and the send in it, run in two threads at once.  *)
(* Audio is an interval of the stream (UtteranceStream); a hypothesis is      *)
(* named by the audio it was made from; whether removing the confirmed words  *)
(* leaves anything of it is a choice, made in module TranscriptState's terms. *)
EXTENDS UtteranceStream, Sequences

CONSTANTS
  MinForced,           \* MIN_FORCED_WINDOW_SECONDS in frames
  SpeculativeEnabled,  \* SPECULATIVE_ENABLED
  Tolerance,           \* SPECULATIVE_REUSE_TOLERANCE_SECONDS in frames
  MinNewAudio,         \* SPECULATIVE_MIN_NEW_AUDIO_SECONDS in frames
  Outcomes,            \* what a transcription may return
  Novelties,           \* whether a hypothesis may hold new words, or none
  MaxResets            \* bound: "reset" messages

ASSUME BridgeAssumption ==
  /\ MinForced \in Nat /\ Tolerance \in Nat /\ MinNewAudio \in Nat
  /\ MaxResets \in Nat /\ SpeculativeEnabled \in BOOLEAN
  /\ Outcomes \subseteq {"ok", "empty", "error", "raise"}
  /\ Novelties \subseteq BOOLEAN

Threads == {"recv", "worker"}

\* Program points of _transcribe_final_utterance and what it calls.
Busy == {"match", "waitCheck", "stt", "commit", "store", "reread", "send",
         "sendError", "clear"}

Labels == Busy \cup {"start", "lost", "receive", "resetClear", "setClosed"}
               \cup {"closeSock", "gone"}
               \cup {"poll", "snapshot", "specLock", "extract", "exited"}
               \cup {"crashed", "dead"}

Intervals == [from : Nat, to : Nat]
NoAudio   == [from |-> 0, to |-> 0]
Length(a) == IF a = NoAudio THEN 0 ELSE a.to + 1 - a.from
Disjoint(a, b) == a.to < b.from \/ b.to < a.from

States == 1..(MaxResets + 1)     \* the TranscriptState objects, in turn

VARIABLES
  pc,          \* program point of each thread
  audio,       \* utterance each thread is transcribing
  hyp,         \* audio its hypothesis was made from
  held,        \* TranscriptState a thread loaded from self.state
  loaded,      \* final_text it loaded from there
  state,       \* self.state
  text,        \* final_text of every TranscriptState, as audio committed
  closed,      \* the Event `closed`
  sockOpen,    \* our side of the WebSocket
  peer,        \* the client is there
  sent,        \* what the client received
  stopped,     \* history: a "stop" was handled
  failed,      \* history: a final transcription returned an error
  snap,        \* the worker's snapshot for speculation
  inflight, latest, lastSource, generation,   \* under speculative_lock
  specJobs     \* running speculative threads

sessionVars == <<state, text, closed, sockOpen, peer, sent, stopped, failed>>
specVars    == <<snap, inflight, latest, lastSource, generation, specJobs>>
localVars   == <<audio, hyp, held, loaded>>
bridgeVars  == <<streamVars, pc, localVars, sessionVars, specVars>>

Messages == [kind : {"transcript", "error"}, audio : Intervals,
             hyp : Intervals, text : Seq(Intervals)]

BridgeInit ==
  /\ StreamInit
  /\ pc = [t \in Threads |-> IF t = "recv" THEN "start" ELSE "poll"]
  /\ audio = [t \in Threads |-> NoAudio] /\ hyp = [t \in Threads |-> NoAudio]
  /\ held = [t \in Threads |-> 1] /\ loaded = [t \in Threads |-> <<>>]
  /\ state = 1 /\ text = [s \in States |-> <<>>]
  /\ closed = FALSE /\ sockOpen = TRUE /\ peer = TRUE /\ sent = <<>>
  /\ stopped = FALSE /\ failed = FALSE
  /\ snap = NoAudio /\ inflight = FALSE /\ latest = NoAudio
  /\ lastSource = 0 /\ generation = 0 /\ specJobs = {}

Goto(t, label) == pc' = [pc EXCEPT ![t] = label]

\* Where a thread goes when _transcribe_final_utterance returns.
Return(t) == IF t = "worker" THEN "poll" ELSE "setClosed"

\* Where an exception takes it: `run` has a finally, the worker has nothing.
\* A worker ended by its transcription is told from one ended by a send.
Raise(t, end) == IF t = "worker" THEN end ELSE "setClosed"

-----------------------------------------------------------------------------
(* The receiving thread: run, _handle_text.                                   *)

\* The worker has been started; the "ready" message goes out ahead of the `try`,
\* so when the client left already, nobody sets `closed`.
SendReady(raises) ==
  /\ pc["recv"] = "start" /\ (raises => ~peer)
  /\ Goto("recv", IF raises THEN "lost" ELSE "receive")
  /\ UNCHANGED <<streamVars, localVars, sessionVars, specVars>>

ReceiveAudio(n, speech) ==
  /\ pc["recv"] = "receive" /\ received + n <= MaxReceived
  /\ Hear(n, speech)
  /\ UNCHANGED <<pc, localVars, sessionVars, specVars>>

ReceiveStop_Faulty ==         \* the final extraction waits for silence
  /\ pc["recv"] = "receive"
  /\ stopped' = TRUE
  /\ IF CanTake(FALSE)
     THEN /\ Take(FALSE)
          /\ audio' = [audio EXCEPT !["recv"] = [from |-> start, to |-> received]]
          /\ Goto("recv", IF OpenLength >= MinForced THEN "match" ELSE "setClosed")
     ELSE /\ Goto("recv", "setClosed")
          /\ UNCHANGED <<streamVars, audio>>
  /\ UNCHANGED <<hyp, held, loaded, state, text, closed, sockOpen, peer, sent,
                 failed, specVars>>

\* "stop": the forced extraction, then the transcription in this thread.
ReceiveStop ==
  /\ pc["recv"] = "receive"
  /\ stopped' = TRUE
  /\ IF CanTake(TRUE)
     THEN /\ Take(TRUE)
          /\ audio' = [audio EXCEPT !["recv"] = [from |-> start, to |-> received]]
          /\ Goto("recv", IF OpenLength >= MinForced THEN "match" ELSE "setClosed")
     ELSE /\ Goto("recv", "setClosed")
          /\ UNCHANGED <<streamVars, audio>>
  /\ UNCHANGED <<hyp, held, loaded, state, text, closed, sockOpen, peer, sent,
                 failed, specVars>>

ReceiveReset_Faulty ==        \* the text is wiped in place
  /\ pc["recv"] = "receive" /\ state <= MaxResets
  /\ text' = [text EXCEPT ![state] = <<>>]
  /\ Goto("recv", "resetClear")
  /\ UNCHANGED <<streamVars, localVars, state, closed, sockOpen, peer, sent,
                 stopped, failed, specVars>>

\* "reset": a new TranscriptState; the ring and a transcription under way stay.
ReceiveReset ==
  /\ pc["recv"] = "receive" /\ state <= MaxResets
  /\ state' = state + 1
  /\ Goto("recv", "resetClear")
  /\ UNCHANGED <<streamVars, localVars, text, closed, sockOpen, peer, sent,
                 stopped, failed, specVars>>

\* _clear_speculative_result, under speculative_lock.
ClearSpeculative ==
  /\ generation' = generation + 1 /\ latest' = NoAudio /\ lastSource' = 0
  /\ UNCHANGED <<snap, inflight, specJobs>>

ResetClear ==
  /\ pc["recv"] = "resetClear"
  /\ ClearSpeculative
  /\ Goto("recv", "receive")
  /\ UNCHANGED <<streamVars, localVars, sessionVars>>

\* recv_message returns None or raises once the client is gone, and a frame or a
\* message it cannot read ends the loop of a client that is still there.
ReceiveEnd ==
  /\ pc["recv"] = "receive"
  /\ Goto("recv", "setClosed")
  /\ UNCHANGED <<streamVars, localVars, sessionVars, specVars>>

SetClosed ==
  /\ pc["recv"] = "setClosed"
  /\ closed' = TRUE
  /\ Goto("recv", "closeSock")
  /\ UNCHANGED <<streamVars, localVars, state, text, sockOpen, peer, sent,
                 stopped, failed, specVars>>

CloseSocket ==
  /\ pc["recv"] = "closeSock"
  /\ sockOpen' = FALSE
  /\ Goto("recv", "gone")
  /\ UNCHANGED <<streamVars, localVars, state, text, closed, peer, sent,
                 stopped, failed, specVars>>

-----------------------------------------------------------------------------
(* The worker: _infer_loop.                                                   *)

Poll_Faulty ==                \* `closed` is not tested
  /\ pc["worker"] = "poll"
  /\ Goto("worker", "snapshot")
  /\ UNCHANGED <<streamVars, localVars, sessionVars, specVars>>

\* `while not self.closed.is_set()`, then the sleep.
Poll ==
  /\ pc["worker"] = "poll"
  /\ Goto("worker", IF closed THEN "exited" ELSE "snapshot")
  /\ UNCHANGED <<streamVars, localVars, sessionVars, specVars>>

Snapshot_Faulty ==            \* the window is not looked at, and starts one frame early
  /\ pc["worker"] = "snapshot"
  /\ snap' = [from |-> start - 1, to |-> received]
  /\ Goto("worker", IF SpeculativeEnabled THEN "specLock" ELSE "extract")
  /\ UNCHANGED <<streamVars, localVars, sessionVars, inflight, latest,
                 lastSource, generation, specJobs>>

\* _maybe_start_speculative_transcription, up to the lock.
Snapshot ==
  /\ pc["worker"] = "snapshot"
  /\ IF SpeculativeEnabled /\ OpenLength >= MinWindow
     THEN /\ snap' = [from |-> start, to |-> received]
          /\ Goto("worker", "specLock")
     ELSE /\ snap' = NoAudio
          /\ Goto("worker", "extract")
  /\ UNCHANGED <<streamVars, localVars, sessionVars, inflight, latest,
                 lastSource, generation, specJobs>>

SpecLock_Faulty(elapsed) ==   \* speculative_inflight is not looked at
  /\ pc["worker"] = "specLock"
  /\ specJobs' = IF elapsed THEN specJobs \cup {[audio |-> snap, generation |-> generation]}
                 ELSE specJobs
  /\ inflight' = (inflight \/ elapsed)
  /\ lastSource' = IF elapsed THEN Length(snap) ELSE lastSource
  /\ Goto("worker", "extract")
  /\ UNCHANGED <<streamVars, localVars, sessionVars, snap, latest, generation>>

\* Its part under speculative_lock, and the start of the thread.  `elapsed`:
\* SPECULATIVE_INTERVAL_SECONDS have gone by since the last start.
SpecLock(elapsed) ==
  LET shrunk  == Length(snap) < lastSource
      latest1 == IF shrunk THEN NoAudio ELSE latest
      source1 == IF shrunk THEN 0 ELSE lastSource
      starts  == /\ ~inflight /\ elapsed
                 /\ latest1 = NoAudio \/ Length(snap) >= source1 + MinNewAudio
  IN
  /\ pc["worker"] = "specLock"
  /\ latest' = latest1
  /\ lastSource' = IF starts THEN Length(snap) ELSE source1
  /\ inflight' = (inflight \/ starts)
  /\ specJobs' = IF starts
                 THEN specJobs \cup {[audio |-> snap, generation |-> generation]}
                 ELSE specJobs
  /\ Goto("worker", "extract")
  /\ UNCHANGED <<streamVars, localVars, sessionVars, snap, generation>>

Finalize_Faulty ==            \* a snapshot is transcribed, the ring keeps it
  /\ pc["worker"] = "extract"
  /\ IF CanTake(FALSE)
     THEN /\ audio' = [audio EXCEPT !["worker"] = [from |-> start, to |-> received]]
          /\ Goto("worker", "match")
     ELSE /\ Goto("worker", "poll")
          /\ UNCHANGED audio
  /\ UNCHANGED <<streamVars, hyp, held, loaded, sessionVars, specVars>>

\* _maybe_finalize_on_silence.  The length test that opens
\* _transcribe_final_utterance repeats the extraction's, so it holds here.
Finalize ==
  /\ pc["worker"] = "extract"
  /\ IF CanTake(FALSE)
     THEN /\ Take(FALSE)
          /\ audio' = [audio EXCEPT !["worker"] = [from |-> start, to |-> received]]
          /\ Goto("worker", "match")
     ELSE /\ Goto("worker", "poll")
          /\ UNCHANGED <<streamVars, audio>>
  /\ UNCHANGED <<hyp, held, loaded, sessionVars, specVars>>

-----------------------------------------------------------------------------
(* A speculative thread: _run_speculative_transcription.                      *)

SpecFinish_Faulty(job, outcome) ==     \* the generation is not compared
  /\ job \in specJobs
  /\ specJobs' = specJobs \ {job}
  /\ inflight' = (outcome = "raise" /\ inflight)
  /\ latest' = IF outcome = "ok" THEN job.audio ELSE latest
  /\ UNCHANGED <<streamVars, pc, localVars, sessionVars, snap, lastSource,
                 generation>>

\* An exception in _transcribe_pcm ends the thread before it takes the lock.
SpecFinish(job, outcome) ==
  /\ job \in specJobs
  /\ specJobs' = specJobs \ {job}
  /\ inflight' = (outcome = "raise" /\ inflight)
  /\ latest' = IF outcome = "ok" /\ job.generation = generation
               THEN job.audio ELSE latest
  /\ UNCHANGED <<streamVars, pc, localVars, sessionVars, snap, lastSource,
                 generation>>

-----------------------------------------------------------------------------
(* _transcribe_final_utterance in thread t.                                   *)

SourceMatches(a) == latest # NoAudio /\ Length(a) <= Length(latest) + Tolerance

\* _matching_speculative_result.  `trimmed`: the trimmed lengths agree too.
Match(t, trimmed) ==
  /\ pc[t] = "match"
  /\ IF SpeculativeEnabled /\ SourceMatches(audio[t]) /\ trimmed
     THEN /\ hyp' = [hyp EXCEPT ![t] = latest]
          /\ Goto(t, "commit")
     ELSE /\ Goto(t, IF SpeculativeEnabled THEN "waitCheck" ELSE "stt")
          /\ UNCHANGED hyp
  /\ UNCHANGED <<streamVars, audio, held, loaded, sessionVars, specVars>>

\* The loop of _wait_for_matching_speculative_result goes round again ...
WaitMore(t) ==
  /\ pc[t] = "waitCheck" /\ inflight
  /\ Goto(t, "match")
  /\ UNCHANGED <<streamVars, localVars, sessionVars, specVars>>

WaitOver_Faulty(t) ==         \* no deadline
  /\ pc[t] = "waitCheck" /\ ~inflight
  /\ Goto(t, "stt")
  /\ UNCHANGED <<streamVars, localVars, sessionVars, specVars>>

\* ... until nothing is in flight or SPECULATIVE_WAIT_SECONDS have passed.
WaitOver(t) ==
  /\ pc[t] = "waitCheck"
  /\ Goto(t, "stt")
  /\ UNCHANGED <<streamVars, localVars, sessionVars, specVars>>

\* _transcribe_pcm returns, or raises.
Transcribed(t, outcome) ==
  /\ pc[t] = "stt"
  /\ hyp' = [hyp EXCEPT ![t] = audio[t]]
  /\ failed' = (failed \/ outcome = "error")
  /\ Goto(t, CASE outcome = "ok"    -> "commit"
               [] outcome = "empty" -> "clear"
               [] outcome = "error" -> "sendError"
               [] OTHER             -> Raise(t, "crashed"))
  /\ UNCHANGED <<streamVars, audio, held, loaded, state, text, closed,
                 sockOpen, peer, sent, stopped, specVars>>

\* commit_final_delta up to join_words: self.state and its final_text are read.
CommitRead(t, novel) ==
  /\ pc[t] = "commit"
  /\ held' = [held EXCEPT ![t] = state]
  /\ loaded' = [loaded EXCEPT ![t] = text[state]]
  /\ Goto(t, IF novel THEN "store" ELSE "clear")
  /\ UNCHANGED <<streamVars, audio, hyp, sessionVars, specVars>>

\* The assignment to final_text.
CommitStore(t) ==
  /\ pc[t] = "store"
  /\ text' = [text EXCEPT ![held[t]] = Append(loaded[t], hyp[t])]
  /\ Goto(t, "reread")
  /\ UNCHANGED <<streamVars, localVars, state, closed, sockOpen, peer, sent,
                 stopped, failed, specVars>>

\* `return self.final_text, new_part`.
CommitReread(t) ==
  /\ pc[t] = "reread"
  /\ loaded' = [loaded EXCEPT ![t] = text[held[t]]]
  /\ Goto(t, "send")
  /\ UNCHANGED <<streamVars, audio, hyp, held, sessionVars, specVars>>

\* websocket.send_json raises on a closed socket, and may once the client left.
Send(t, message, raises) ==
  /\ raises => ~sockOpen \/ ~peer
  /\ ~sockOpen => raises
  /\ sent' = IF raises \/ ~peer THEN sent ELSE Append(sent, message)
  /\ UNCHANGED <<streamVars, localVars, state, text, closed, sockOpen, peer,
                 stopped, failed, specVars>>

SendTranscript(t, raises) ==
  /\ pc[t] = "send"
  /\ Send(t, [kind |-> "transcript", audio |-> audio[t], hyp |-> hyp[t],
              text |-> loaded[t]], raises)
  /\ Goto(t, IF raises THEN Raise(t, "dead") ELSE "clear")

SendError_Faulty(t, raises) ==      \* the worker's loop ends with an error reported
  /\ pc[t] = "sendError"
  /\ Send(t, [kind |-> "error", audio |-> audio[t], hyp |-> NoAudio,
              text |-> <<>>], raises)
  /\ Goto(t, Raise(t, "dead"))

\* After an error the speculative result is left where it is.
SendError(t, raises) ==
  /\ pc[t] = "sendError"
  /\ Send(t, [kind |-> "error", audio |-> audio[t], hyp |-> NoAudio,
              text |-> <<>>], raises)
  /\ Goto(t, IF raises THEN Raise(t, "dead") ELSE Return(t))

Clear(t) ==
  /\ pc[t] = "clear"
  /\ ClearSpeculative
  /\ Goto(t, Return(t))
  /\ UNCHANGED <<streamVars, localVars, sessionVars>>

-----------------------------------------------------------------------------
PeerLeaves ==
  /\ peer /\ peer' = FALSE
  /\ UNCHANGED <<streamVars, pc, localVars, state, text, closed, sockOpen,
                 sent, stopped, failed, specVars>>

Silence ==
  /\ FallSilent
  /\ UNCHANGED <<pc, localVars, sessionVars, specVars>>

FinalStep(t) ==
  \/ \E trimmed \in BOOLEAN : Match(t, trimmed)
  \/ WaitMore(t)
  \/ WaitOver(t)
  \/ \E outcome \in Outcomes : Transcribed(t, outcome)
  \/ \E novel \in Novelties : CommitRead(t, novel)
  \/ CommitStore(t)
  \/ CommitReread(t)
  \/ \E raises \in BOOLEAN : SendTranscript(t, raises) \/ SendError(t, raises)
  \/ Clear(t)

RecvStep   == (\E raises \in BOOLEAN : SendReady(raises))
                \/ ResetClear \/ ReceiveEnd \/ SetClosed \/ CloseSocket
WorkerStep == Poll \/ Snapshot \/ (\E elapsed \in BOOLEAN : SpecLock(elapsed))
                \/ Finalize
Speculate  == \E job \in specJobs, outcome \in Outcomes : SpecFinish(job, outcome)

BridgeNext ==
  \/ \E n \in 1..MaxPayload, speech \in BOOLEAN : ReceiveAudio(n, speech)
  \/ ReceiveStop
  \/ ReceiveReset
  \/ RecvStep
  \/ WorkerStep
  \/ Speculate
  \/ \E t \in Threads : FinalStep(t)
  \/ PeerLeaves
  \/ Silence

BridgeSpec == BridgeInit /\ [][BridgeNext]_bridgeVars

\* Threads are scheduled, transcriptions return (audio_stt gives every request
\* a timeout), and a wait for a speculative result has a deadline.  A client
\* that is there may say nothing for ever, which leaves `run` in its receive.
BridgeFairness ==
  /\ WF_bridgeVars((pc["recv"] = "receive" => ~peer) /\ RecvStep)
  /\ WF_bridgeVars(WorkerStep)
  /\ WF_bridgeVars(Speculate)
  /\ \A t \in Threads : WF_bridgeVars(FinalStep(t)) /\ SF_bridgeVars(WaitOver(t))

FairBridgeSpec == BridgeSpec /\ BridgeFairness

-----------------------------------------------------------------------------
\* Types of every variable.
BridgeTypeOK ==
  /\ StreamTypeOK
  /\ pc \in [Threads -> Labels]
  /\ audio \in [Threads -> Intervals] /\ hyp \in [Threads -> Intervals]
  /\ held \in [Threads -> States] /\ loaded \in [Threads -> Seq(Intervals)]
  /\ state \in States /\ text \in [States -> Seq(Intervals)]
  /\ closed \in BOOLEAN /\ sockOpen \in BOOLEAN /\ peer \in BOOLEAN
  /\ stopped \in BOOLEAN /\ failed \in BOOLEAN
  /\ sent \in Seq(Messages)
  /\ snap \in Intervals /\ latest \in Intervals /\ inflight \in BOOLEAN
  /\ lastSource \in Nat /\ generation \in Nat
  /\ specJobs \subseteq [audio : Intervals, generation : Nat]

\* An utterance is answered at most once, and never transcribed by one thread
\* while another has answered or is transcribing any frame of it: the worker's
\* extraction and the "stop" extraction never share a frame, however the two
\* threads race (extract_utterance_if_ready empties the ring under its lock).
AnsweredOnce ==
  /\ \A i, j \in 1..Len(sent) : i # j => Disjoint(sent[i].audio, sent[j].audio)
  /\ \A t \in Threads :
       pc[t] \in Busy \ {"clear"} =>
         \A i \in 1..Len(sent) : Disjoint(audio[t], sent[i].audio)
  /\ \A t, u \in Threads :
       t # u /\ {pc[t], pc[u]} \subseteq Busy => Disjoint(audio[t], audio[u])

\* As long as no "stop" was handled, answers arrive in the order of the speech
\* (one worker, one utterance at a time, in _infer_loop).
AnswersInOrder ==
  ~stopped => \A i, j \in 1..Len(sent) :
                i < j => sent[i].audio.to < sent[j].audio.from

\* At most one speculative transcription runs, and while it runs the flag that
\* says so is up, across resets, generations and threads that die
\* (speculative_inflight under speculative_lock).
OneSpeculation ==
  /\ \A a, b \in specJobs : a = b
  /\ specJobs # {} => inflight

\* A transcript was made from the utterance it is delivered for, from its first
\* frame on and but for the tolerated end, though it may come from a speculation
\* started while the utterance was open: no result of an earlier utterance is
\* left or stored late (_clear_speculative_result, the generation), and the test
\* on lengths tells an old result.  Where the code does deliver older speech is
\* excluded: after a failed final transcription and after a "stop", which leave
\* a result behind, and in an utterance at its cap, whose length tells nothing.
SpeculationIsFresh ==
  ~stopped /\ ~failed =>
    \A i \in 1..Len(sent) :
      sent[i].kind = "transcript" /\ Length(sent[i].audio) < UtteranceCap =>
        /\ sent[i].hyp.from = sent[i].audio.from
        /\ sent[i].hyp.to <= sent[i].audio.to
        /\ sent[i].audio.to <= sent[i].hyp.to + Tolerance

\* A session that ended by "stop" leaves no speech in the ring that nobody
\* took, whatever the worker was doing (the forced extraction in _handle_text).
StopTakesTheRest == (stopped /\ pc["recv"] = "gone") => start = 0

\* Confirmed text is never lost: every TranscriptState's text only grows, across
\* resets and however the two threads race to commit; but for the one commit
\* that the thread of "stop" and the worker may overwrite, each with its own
\* (commit_final_delta, _handle_text).
ConfirmedTextGrows ==
  [][\A s \in States :
       LET kept == IF stopped THEN Len(text[s]) - 1 ELSE Len(text[s]) IN
       /\ Len(text'[s]) >= Len(text[s])
       /\ SubSeq(text'[s], 1, kept) = SubSeq(text[s], 1, kept)]_bridgeVars

\* An utterance that is long enough and has been followed by silence is taken
\* for transcription unless speech resumes, the session ends, the client leaves
\* or a transcription ended the worker: a send that fails never costs a client
\* that is still served its next utterance (_infer_loop, send_json).
SpeechIsTaken ==
  (start # 0 /\ quiet /\ OpenLength >= MinWindow)
    ~> (start = 0 \/ ~quiet \/ closed \/ ~peer \/ pc["worker"] = "crashed")

\* "stop" always ends in a closed socket, whatever speculation or
\* transcription is under way (_handle_text, run's finally).
StopClosesSocket == stopped ~> ~sockOpen

\* Once the session is closed the worker ends; no thread outlives it
\* (_infer_loop's test of `closed`).
WorkerEnds == closed ~> pc["worker"] \in {"exited", "crashed", "dead"}

\* scripts/bench_live_ws.py takes a close before any transcript for a failure
\* ("no transcript received"): when the client stays connected and every
\* transcription yields new words, an utterance taken before or by "stop" has
\* its transcript delivered before the socket closes.
TranscriptBeforeClose == (stopped /\ ~sockOpen /\ peer /\ done # 0) => sent # <<>>
=============================================================================
