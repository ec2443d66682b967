---------------------------- MODULE WhisperServer ----------------------------
(* The HTTP server of whisper.cpp/examples/server/server.cpp.  Every request  *)
(* runs in a thread of httplib's pool; /inference, /inference-pcm and /load   *)
(* hold `whisper_mutex` for the whole handler, /health only reads the atomic  *)
(* `state`.  All of them share one whisper_context, whose default state keeps *)
(* results, VAD mapping and timers between calls, and one `params` record,    *)
(* which /inference overwrites with the fields of its request.  A transcript, *)
(* a setting and a timing are named by the request they come from.            *)
EXTENDS Naturals

CONSTANTS
  Requests,     \* requests a run of the server may receive
  NoRequest,
  Kinds,        \* endpoints the clients call
  Processors,   \* --processors, no request can change it
  DefaultVad,   \* --vad
  Hanging       \* requests whose audio may keep the engine at work for ever

ASSUME ServerAssumption ==
  /\ NoRequest \notin Requests
  /\ Kinds \subseteq {"inference", "pcm", "load", "health"}
  /\ Processors \in Nat \ {0} /\ DefaultVad \in BOOLEAN
  /\ Hanging \subseteq Requests

VARIABLES
  up,        \* "listening", "stopping" (a signal came), "exited"
  state,     \* server_state
  ctx,       \* the whisper_context: "loaded", "freed", "null"
  params,    \* whose fields the shared whisper_params hold, and its vad flag
  mutex,     \* holder of whisper_mutex
  pc,        \* program point of each request's handler
  kind,      \* endpoint of each request
  local,     \* whose fields its request_params hold (/inference-pcm)
  timed,     \* include_timings
  reply,     \* what the client got
  results,   \* request that left result_all as it is
  mapping,   \* request whose VAD wrote vad_mapping_table
  timers     \* requests whose work the timers count

engineVars == <<results, mapping, timers>>
handlerVars == <<kind, local, timed>>
serverVars == <<up, state, ctx, params, mutex, pc, handlerVars, reply, engineVars>>

Default == [from |-> {}, vad |-> DefaultVad]
Settings == [from : SUBSET Requests, vad : BOOLEAN]
Owner == Requests \cup {NoRequest}

Replies == [status : {0, 200, 400, 404, 500}, text : Owner,
            from : SUBSET Requests, mapping : Owner, timers : SUBSET Requests]

NoText(status) == [status |-> status, text |-> NoRequest, from |-> {},
                   mapping |-> NoRequest, timers |-> {}]
NoReply == NoText(0)

\* The server listens only after its first model is loaded.
ServerInit ==
  /\ up = "listening" /\ state = "READY" /\ ctx = "loaded"
  /\ params = Default /\ mutex = NoRequest
  /\ pc = [r \in Requests |-> "none"]
  /\ kind \in [Requests -> Kinds]
  /\ local = [r \in Requests |-> {}] /\ timed = [r \in Requests |-> FALSE]
  /\ reply = [r \in Requests |-> NoReply]
  /\ results = NoRequest /\ mapping = NoRequest /\ timers = {}

-----------------------------------------------------------------------------
\* The error handler's rewriting of an error status.
ErrorHandler(status) == IF status < 400 \/ status \in {400, 500} THEN status ELSE 404

\* The handler of r ends: reply sent, lock_guard released.
Answer_KeepsLock_Faulty(r, message) ==
  /\ reply' = [reply EXCEPT ![r] = message]
  /\ pc' = [pc EXCEPT ![r] = "done"]
  /\ mutex' = IF mutex = r /\ message.status # 500 THEN NoRequest ELSE mutex
Answer(r, message) ==
  /\ reply' = [reply EXCEPT ![r] = message]
  /\ pc' = [pc EXCEPT ![r] = "done"]
  /\ mutex' = IF mutex = r THEN NoRequest ELSE mutex

AnswerError(r, status) == Answer(r, NoText(ErrorHandler(status)))

At(r, label) == up # "exited" /\ pc[r] = label
Go(r, label) == pc' = [pc EXCEPT ![r] = label]

\* The pool hands a request to a thread.
Arrive(r) ==
  /\ up = "listening" /\ pc[r] = "none"
  /\ Go(r, "waiting")
  /\ UNCHANGED <<up, state, ctx, params, mutex, handlerVars, reply, engineVars>>

Health(r) ==
  /\ At(r, "waiting") /\ kind[r] = "health"
  /\ IF state = "READY" THEN Answer(r, NoText(200)) ELSE AnswerError(r, 503)
  /\ UNCHANGED <<up, state, ctx, params, handlerVars, engineVars>>

Acquire_Faulty(r) ==
  /\ At(r, "waiting") /\ kind[r] # "health"
  /\ kind[r] # "pcm" => mutex = NoRequest
  /\ mutex' = IF kind[r] = "pcm" THEN mutex ELSE r
  /\ Go(r, IF kind[r] = "load" THEN "mark" ELSE "fields")
  /\ UNCHANGED <<up, state, ctx, params, handlerVars, reply, engineVars>>
Acquire(r) ==
  /\ At(r, "waiting") /\ kind[r] # "health"
  /\ mutex = NoRequest /\ mutex' = r
  /\ Go(r, IF kind[r] = "load" THEN "mark" ELSE "fields")
  /\ UNCHANGED <<up, state, ctx, params, handlerVars, reply, engineVars>>

-----------------------------------------------------------------------------
(* /inference and /inference-pcm                                              *)

\* Settings p after request r wrote none or some of its fields over them.
Overridden(r, p) ==
  {p} \cup [from : {p.from \cup {r}}, vad : BOOLEAN]

\* get_query_parameters knows no vad field and starts from default_params.
FieldsOverDefaults_Faulty(r) == {q.from : q \in Overridden(r, params)}
FieldsOverDefaults(r) == {q.from : q \in Overridden(r, Default)}

\* /inference without a file: 400 before any field is read.
MissingFile(r) ==
  /\ At(r, "fields") /\ kind[r] = "inference"
  /\ AnswerError(r, 400)
  /\ UNCHANGED <<up, state, ctx, params, handlerVars, engineVars>>

\* The handlers read their request's fields, into `params` itself or a copy.
TakeFields(r) ==
  /\ At(r, "fields")
  /\ \/ /\ kind[r] = "inference"
        /\ params' \in Overridden(r, params)
        /\ UNCHANGED <<local, timed>>
     \/ /\ kind[r] = "pcm"
        /\ \E own \in FieldsOverDefaults(r), t \in BOOLEAN :
             /\ local' = [local EXCEPT ![r] = own]
             /\ timed' = [timed EXCEPT ![r] = t]
        /\ UNCHANGED params
  /\ Go(r, "audio")
  /\ UNCHANGED <<up, state, ctx, mutex, kind, reply, engineVars>>

\* std::stoi or std::stof throws: fields read so far stay, httplib answers 500.
BadField(r) ==
  /\ At(r, "fields")
  /\ \/ kind[r] = "inference" /\ params' \in Overridden(r, params)
     \/ kind[r] = "pcm" /\ UNCHANGED params
  /\ AnswerError(r, 500)
  /\ UNCHANGED <<up, state, ctx, handlerVars, engineVars>>

\* No audio can be read from the request: 400, or 500 when ffmpeg fails.
BadAudio(r) ==
  /\ At(r, "audio")
  /\ \E status \in IF kind[r] = "inference" THEN {400, 500} ELSE {400} :
       AnswerError(r, status)
  /\ UNCHANGED <<up, state, ctx, params, handlerVars, engineVars>>

\* The audio is there; /inference-pcm resets the timers when asked to time.
TakeAudio_Faulty(r) ==
  /\ At(r, "audio")
  /\ Go(r, IF kind[r] = "inference" /\ params.vad THEN "vad" ELSE "full")
  /\ UNCHANGED <<up, state, ctx, params, mutex, handlerVars, reply, engineVars>>
TakeAudio(r) ==
  /\ At(r, "audio")
  /\ Go(r, IF kind[r] = "inference" /\ params.vad THEN "vad" ELSE "full")
  /\ timers' = IF timed[r] THEN {} ELSE timers
  /\ UNCHANGED <<up, state, ctx, params, mutex, handlerVars, reply, results, mapping>>

\* whisper_full or whisper_full_parallel did not return 0: 499 if the
\* connection is closed, 500 if not.
EngineFailed(r) == \E status \in {499, 500} : AnswerError(r, status)

\* whisper_vad forgets the old mapping, and writes a new one if it hears speech.
Vad(r) ==
  /\ At(r, "vad")
  /\ \/ mapping' = NoRequest /\ EngineFailed(r) /\ UNCHANGED results
     \/ /\ mapping' = r /\ Go(r, "full")
        /\ UNCHANGED <<mutex, reply, results>>
     \/ /\ mapping' = NoRequest /\ Go(r, "respond")
        \* whisper_full clears result_all, whisper_full_parallel does not
        /\ results' = IF Processors = 1 THEN r ELSE results
        /\ UNCHANGED <<mutex, reply>>
  /\ UNCHANGED <<up, state, ctx, params, handlerVars, timers>>

\* whisper_full_with_state clears result_all and fills it from this audio.
\* A run that only detects the language is one of these: it returns 0 with the
\* results cleared, which is its transcript.
Full(r) ==
  /\ At(r, "full")
  /\ results' = r /\ timers' = timers \cup {r}
  /\ \/ EngineFailed(r)
     \/ Go(r, "respond") /\ UNCHANGED <<mutex, reply>>
  /\ UNCHANGED <<up, state, ctx, params, handlerVars, mapping>>

\* What is sent back is read from the context, /inference's with time stamps.
Transcript(r) ==
  [status |-> 200, text |-> results,
   from |-> IF kind[r] = "inference" THEN params.from ELSE local[r],
   mapping |-> IF kind[r] = "inference" THEN mapping ELSE NoRequest,
   timers |-> IF timed[r] THEN timers ELSE {}]

Respond(r) ==
  /\ At(r, "respond")
  /\ Answer(r, Transcript(r))
  /\ params' = IF kind[r] = "inference" THEN Default ELSE params
  /\ UNCHANGED <<up, state, ctx, handlerVars, engineVars>>

-----------------------------------------------------------------------------
(* /load                                                                      *)

\* The state is LOADING from here on, a bad request or not.
LoadMark_Faulty(r) ==
  /\ At(r, "mark")
  /\ \/ AnswerError(r, 400)
     \/ Go(r, "free") /\ UNCHANGED <<mutex, reply>>
  /\ UNCHANGED <<up, state, ctx, params, handlerVars, engineVars>>
LoadMark(r) ==
  /\ At(r, "mark")
  /\ state' = "LOADING"
  /\ \/ AnswerError(r, 400)
     \/ Go(r, "free") /\ UNCHANGED <<mutex, reply>>
  /\ UNCHANGED <<up, ctx, params, handlerVars, engineVars>>

LoadFree(r) ==
  /\ At(r, "free")
  /\ ctx' = "freed" /\ Go(r, "init")
  /\ UNCHANGED <<up, state, params, mutex, handlerVars, reply, engineVars>>

\* A new context has a new, empty state; without one the process exits.
LoadInit(r) ==
  /\ At(r, "init")
  /\ \/ /\ ctx' = "loaded" /\ Go(r, "ready")
        /\ results' = NoRequest /\ mapping' = NoRequest /\ timers' = {}
        /\ UNCHANGED up
     \/ ctx' = "null" /\ up' = "exited" /\ UNCHANGED <<pc, engineVars>>
  /\ UNCHANGED <<state, params, mutex, handlerVars, reply>>

LoadReady(r) ==
  /\ At(r, "ready")
  /\ state' = "READY" /\ Answer(r, NoText(200))
  /\ UNCHANGED <<up, ctx, params, handlerVars, engineVars>>

-----------------------------------------------------------------------------
(* Shutdown                                                                   *)

\* The first signal stops the listener, a second one ends the process.
Signal ==
  /\ \/ up = "listening" /\ up' = "stopping"
     \/ up = "stopping" /\ up' = "exited"
  /\ UNCHANGED <<state, ctx, params, mutex, pc, handlerVars, reply, engineVars>>

\* The listening thread has joined the pool: no handler runs any more.
CleanUp_Faulty ==
  /\ up = "stopping"
  /\ ctx' = "freed" /\ up' = "exited"
  /\ UNCHANGED <<state, params, mutex, pc, handlerVars, reply, engineVars>>
CleanUp ==
  /\ up = "stopping" /\ \A r \in Requests : pc[r] \in {"none", "done"}
  /\ ctx' = "freed" /\ up' = "exited"
  /\ UNCHANGED <<state, params, mutex, pc, handlerVars, reply, engineVars>>

-----------------------------------------------------------------------------
Handle(r) ==
  \/ Health(r) \/ Acquire(r)
  \/ MissingFile(r) \/ TakeFields(r) \/ BadField(r) \/ BadAudio(r) \/ TakeAudio(r)
  \/ Vad(r) \/ Full(r) \/ Respond(r)
  \/ LoadMark(r) \/ LoadFree(r) \/ LoadInit(r) \/ LoadReady(r)

ServerNext ==
  \/ \E r \in Requests : Arrive(r) \/ Handle(r)
  \/ Signal \/ CleanUp

ServerSpec == ServerInit /\ [][ServerNext]_serverVars

\* A request whose audio the engine never comes to an end with.
Stuck(r) == r \in Hanging /\ At(r, "full")

\* The threads of the pool run on, but for those stuck in the engine, and the
\* main thread comes out of its join.
FairServerSpec ==
  ServerSpec /\ WF_serverVars(CleanUp)
             /\ \A r \in Requests : WF_serverVars(~Stuck(r) /\ Handle(r))

-----------------------------------------------------------------------------
(* Properties                                                                 *)

UsesContext(r) == pc[r] \in {"audio", "vad", "full", "respond"}
ReplacesContext(r) == pc[r] \in {"mark", "free", "init", "ready"}
InEngine(r) == UsesContext(r) \/ ReplacesContext(r)
Transcribed(r) == reply[r].status = 200 /\ kind[r] \in {"inference", "pcm"}

\* Type invariant; clients see no status but those the error handler lets pass.
ServerTypeOK ==
  /\ up \in {"listening", "stopping", "exited"} /\ state \in {"LOADING", "READY"}
  /\ ctx \in {"loaded", "freed", "null"} /\ params \in Settings /\ mutex \in Owner
  /\ pc \in [Requests -> {"none", "waiting", "fields", "audio", "vad", "full",
                          "respond", "mark", "free", "init", "ready", "done"}]
  /\ kind \in [Requests -> Kinds] /\ local \in [Requests -> SUBSET Requests]
  /\ timed \in [Requests -> BOOLEAN] /\ reply \in [Requests -> Replies]
  /\ results \in Owner /\ mapping \in Owner /\ timers \in SUBSET Requests

\* whisper_context is not thread safe: never two handlers inside of it, of
\* whichever endpoints, on whichever way the last one left its own.
EngineHasOneUser == \A r, s \in Requests : InEngine(r) /\ InEngine(s) => r = s

\* No handler is left with a context that /load or the shutdown freed.
EngineIsLoaded == \A r \in Requests : UsesContext(r) => ctx = "loaded"

\* /health answers "ok" without the mutex: whenever it may, there is a model.
ReadyMeansLoaded == state = "READY" /\ up # "exited" => ctx = "loaded"

\* A transcript sent back was made from the audio of that very request, though
\* it is read from the shared context after the run (one processor).  A context
\* no request has written holds the empty transcript.
TextIsOwn ==
  \A r \in Requests : Transcribed(r) => reply[r].text \in {r, NoRequest}

\* /inference-pcm is shaped by the defaults and its own query, never by fields
\* that a failed /inference left in the shared params.
PcmSettingsAreOwn ==
  \A r \in Requests : Transcribed(r) /\ kind[r] = "pcm" => reply[r].from \subseteq {r}

\* The timings reported to a client count its own run and no other.
TimingsAreOwn ==
  \A r \in Requests : Transcribed(r) /\ timed[r] => reply[r].timers = {r}

SomeStuck == \E r \in Requests : Stuck(r)

\* Every request a thread took is answered, or the process ends, or a request
\* is stuck in the engine: no way out of a handler, early return or exception,
\* keeps the mutex.
EveryRequestAnswered ==
  \A r \in Requests :
    pc[r] = "waiting" ~> pc[r] = "done" \/ up = "exited" \/ SomeStuck

\* After the first signal the server comes to its end, if the engine does.
SignalEndsServer == up = "stopping" ~> up = "exited" \/ SomeStuck

-----------------------------------------------------------------------------
(* What comments of the source say and the code does not keep                 *)

\* server.cpp:856 "store default params so we can reset after each inference
\* request": between two requests the shared params are the defaults.
ParamsAreReset == mutex = NoRequest => params = Default

\* server.cpp:31 "Server is starting up, model not fully loaded yet": with no
\* /load running, a state of LOADING means that no model is loaded.
LoadingMeansUnloaded == state = "LOADING" /\ mutex = NoRequest => ctx # "loaded"

\* whisper.h:624 "Result is stored in the default state of the context", so the
\* text read from there is the request's own, however many processors there are.
ResultIsStored == TextIsOwn

\* whisper.cpp:7976 "If VAD wasn't used, return the original timestamp": no time
\* stamp is mapped by the speech that VAD found in another request's audio.
TimesAreOwn ==
  \A r \in Requests : Transcribed(r) => reply[r].mapping \in {NoRequest, r}
=============================================================================
