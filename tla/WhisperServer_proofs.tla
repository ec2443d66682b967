------------------------ MODULE WhisperServer_proofs ------------------------
(* Proofs about WhisperServer for any set of requests.                        *)
EXTENDS WhisperServer, TLAPS

Loading(r) == pc[r] \in {"free", "init", "ready"}

\* Whoever runs inside of a handler holds the mutex.
HolderInside == \A r \in Requests : InEngine(r) \/ pc[r] = "fields" => mutex = r

\* Where the model is while a handler runs.
ContextKnown ==
  /\ up # "exited" /\ ctx # "loaded" => \E r \in Requests : pc[r] = "init"
  /\ \A r \in Requests : UsesContext(r) \/ pc[r] = "ready" => ctx = "loaded"
  /\ \A r \in Requests : Loading(r) => state = "LOADING"

\* Which handler a program point belongs to.
PointsKnown == \A r \in Requests :
  /\ ReplacesContext(r) => kind[r] = "load"
  /\ pc[r] = "fields" \/ UsesContext(r) => kind[r] \in {"inference", "pcm"}
  /\ pc[r] = "vad" => kind[r] = "inference"
  /\ timed[r] => kind[r] = "pcm"

\* What the engine holds when a handler is about to answer.
EngineOwned == \A r \in Requests :
  /\ pc[r] = "full" /\ timed[r] => timers = {}
  /\ pc[r] = "respond" /\ timed[r] => timers = {r}
  /\ pc[r] = "respond" /\ Processors = 1 => results = r

AnswersOwned == \A r \in Requests :
  /\ kind[r] = "pcm" => local[r] \subseteq {r}
  /\ reply[r].status # 0 => pc[r] = "done"
  /\ Transcribed(r) /\ timed[r] => reply[r].timers = {r}
  /\ Transcribed(r) /\ kind[r] = "pcm" => reply[r].from \subseteq {r}
  /\ Transcribed(r) /\ Processors = 1 => reply[r].text = r

ServerInd ==
  /\ ServerTypeOK /\ HolderInside /\ ContextKnown
  /\ PointsKnown /\ EngineOwned /\ AnswersOwned

LEMMA InitInd == ServerInit => ServerInd
  BY ServerAssumption DEF ServerInit, ServerInd, ServerTypeOK, HolderInside,
     ContextKnown,
     PointsKnown, EngineOwned, AnswersOwned, UsesContext, ReplacesContext, InEngine, Loading,
     Transcribed, Default, Settings, Owner, Replies, NoReply, NoText

\* The answers handlers give are replies a client can get.
LEMMA AnswerTyped ==
  /\ \A status \in {400, 499, 500, 503} : NoText(ErrorHandler(status)) \in Replies
  /\ NoText(200) \in Replies
  BY DEF NoText, ErrorHandler, Replies, Owner

LEMMA StepType ==
  ServerInd /\ [ServerNext]_serverVars => ServerTypeOK'
  <1> SUFFICES ASSUME ServerInd, [ServerNext]_serverVars
               PROVE  ServerTypeOK'
    OBVIOUS
  <1> USE ServerAssumption DEF ServerInd
  <1>1. ASSUME NEW r \in Requests, Arrive(r) PROVE ServerTypeOK'
    BY <1>1 DEF Arrive, Go, engineVars, handlerVars, ServerTypeOK
  <1>2. ASSUME NEW r \in Requests, Health(r) PROVE ServerTypeOK'
    <2>1. PICK message \in Replies : Answer(r, message)
      BY <1>2, AnswerTyped DEF Health, AnswerError
    <2> QED BY <1>2, <2>1 DEF Health, Answer, handlerVars, engineVars, ServerTypeOK,
       Owner
  <1>3. ASSUME NEW r \in Requests, Acquire(r) PROVE ServerTypeOK'
    BY <1>3 DEF Acquire, Go, engineVars, handlerVars, ServerTypeOK, Owner
  <1>4. ASSUME NEW r \in Requests, MissingFile(r) PROVE ServerTypeOK'
    BY <1>4 DEF MissingFile, AnswerError, Answer, engineVars, handlerVars,
       ServerTypeOK, Owner, NoText, ErrorHandler, Replies
  <1>5. ASSUME NEW r \in Requests, TakeFields(r) PROVE ServerTypeOK'
    <2>1. params' \in Settings
      BY <1>5 DEF TakeFields, Overridden, Settings, ServerTypeOK
    <2>2. local' \in [Requests -> SUBSET Requests] /\ timed' \in [Requests -> BOOLEAN]
      BY <1>5 DEF TakeFields, FieldsOverDefaults, Overridden, Default, ServerTypeOK
    <2> QED BY <1>5, <2>1, <2>2 DEF TakeFields, Go, engineVars, ServerTypeOK
  <1>6. ASSUME NEW r \in Requests, BadField(r) PROVE ServerTypeOK'
    BY <1>6 DEF BadField, AnswerError, Answer, engineVars, handlerVars,
       ServerTypeOK, Owner, Settings, NoText, ErrorHandler, Replies, Overridden
  <1>7. ASSUME NEW r \in Requests, BadAudio(r) PROVE ServerTypeOK'
    BY <1>7 DEF BadAudio, AnswerError, Answer, engineVars, handlerVars,
       ServerTypeOK, Owner, NoText, ErrorHandler, Replies
  <1>8. ASSUME NEW r \in Requests, TakeAudio(r) PROVE ServerTypeOK'
    BY <1>8 DEF TakeAudio, Go, handlerVars, ServerTypeOK
  <1>9. ASSUME NEW r \in Requests, Vad(r) PROVE ServerTypeOK'
    <2>1. CASE EngineFailed(r)
      <3>1. PICK message \in Replies : Answer(r, message)
        BY <2>1, AnswerTyped DEF EngineFailed, AnswerError
      <3> QED BY <1>9, <3>1 DEF Vad, Go, Answer, handlerVars, ServerTypeOK, Owner
    <2>2. CASE ~EngineFailed(r)
      BY <1>9, <2>2 DEF Vad, Go, handlerVars, ServerTypeOK, Owner
    <2> QED BY <2>1, <2>2
  <1>10. ASSUME NEW r \in Requests, Full(r) PROVE ServerTypeOK'
    BY <1>10 DEF Full, At, Go, EngineFailed, AnswerError, Answer, handlerVars,
       ServerTypeOK, Owner, Settings, NoText, ErrorHandler, Replies
  <1>11. ASSUME NEW r \in Requests, Respond(r) PROVE ServerTypeOK'
    BY <1>11 DEF Respond, Answer, engineVars, handlerVars, ServerTypeOK, Owner,
       Settings, Replies, Transcript, Default
  <1>12. ASSUME NEW r \in Requests, LoadMark(r) PROVE ServerTypeOK'
    <2>1. CASE AnswerError(r, 400)
      <3>1. PICK message \in Replies : Answer(r, message)
        BY <2>1, AnswerTyped DEF AnswerError
      <3> QED BY <1>12, <3>1 DEF LoadMark, Answer, handlerVars, engineVars,
         ServerTypeOK, Owner
    <2>2. CASE Go(r, "free") /\ UNCHANGED <<mutex, reply>>
      BY <1>12, <2>2 DEF LoadMark, Go, handlerVars, engineVars, ServerTypeOK
    <2> QED BY <1>12, <2>1, <2>2 DEF LoadMark
  <1>13. ASSUME NEW r \in Requests, LoadFree(r) PROVE ServerTypeOK'
    BY <1>13 DEF LoadFree, Go, engineVars, handlerVars, ServerTypeOK
  <1>14. ASSUME NEW r \in Requests, LoadInit(r) PROVE ServerTypeOK'
    BY <1>14 DEF LoadInit, Go, engineVars, handlerVars, ServerTypeOK, Owner
  <1>15. ASSUME NEW r \in Requests, LoadReady(r) PROVE ServerTypeOK'
    BY <1>15 DEF LoadReady, Answer, engineVars, handlerVars, ServerTypeOK, Owner,
       NoText, Replies
  <1>16. CASE Signal
    BY <1>16 DEF Signal, engineVars, handlerVars, ServerTypeOK
  <1>17. CASE CleanUp
    BY <1>17 DEF CleanUp, engineVars, handlerVars, ServerTypeOK
  <1>18. CASE UNCHANGED serverVars
    BY <1>18 DEF serverVars, engineVars, handlerVars, ServerTypeOK
  <1> QED BY <1>1, <1>2, <1>3, <1>4, <1>5, <1>6, <1>7, <1>8, <1>9, <1>10, <1>11,
     <1>12, <1>13, <1>14, <1>15, <1>16, <1>17, <1>18 DEF ServerNext, Handle

LEMMA StepHolder ==
  ServerInd /\ [ServerNext]_serverVars => HolderInside'
  <1> SUFFICES ASSUME ServerInd, [ServerNext]_serverVars
               PROVE  HolderInside'
    OBVIOUS
  <1> USE ServerAssumption DEF ServerInd
  <1>1. ASSUME NEW r \in Requests, Arrive(r) PROVE HolderInside'
    BY <1>1 DEF Arrive, Go, HolderInside, InEngine, UsesContext, ReplacesContext
  <1>2. ASSUME NEW r \in Requests, Health(r) PROVE HolderInside'
    BY <1>2 DEF Health, Answer, AnswerError, ServerTypeOK, HolderInside, InEngine,
       UsesContext, ReplacesContext
  <1>3. ASSUME NEW r \in Requests, Acquire(r) PROVE HolderInside'
    BY <1>3 DEF Acquire, Go, HolderInside, InEngine, UsesContext, ReplacesContext
  <1>4. ASSUME NEW r \in Requests, MissingFile(r) PROVE HolderInside'
    BY <1>4 DEF MissingFile, AnswerError, Answer, ServerTypeOK, HolderInside,
       InEngine, UsesContext, ReplacesContext
  <1>5. ASSUME NEW r \in Requests, TakeFields(r) PROVE HolderInside'
    BY <1>5 DEF TakeFields, At, Go, HolderInside, InEngine, UsesContext, ReplacesContext
  <1>6. ASSUME NEW r \in Requests, BadField(r) PROVE HolderInside'
    BY <1>6 DEF BadField, AnswerError, Answer, ServerTypeOK, HolderInside, InEngine,
       UsesContext, ReplacesContext
  <1>7. ASSUME NEW r \in Requests, BadAudio(r) PROVE HolderInside'
    BY <1>7 DEF BadAudio, AnswerError, Answer, ServerTypeOK, HolderInside, InEngine,
       UsesContext, ReplacesContext
  <1>8. ASSUME NEW r \in Requests, TakeAudio(r) PROVE HolderInside'
    BY <1>8 DEF TakeAudio, At, Go, HolderInside, InEngine, UsesContext, ReplacesContext
  <1>9. ASSUME NEW r \in Requests, Vad(r) PROVE HolderInside'
    BY <1>9 DEF Vad, At, Go, EngineFailed, AnswerError, Answer, ServerTypeOK,
       HolderInside, InEngine, UsesContext, ReplacesContext
  <1>10. ASSUME NEW r \in Requests, Full(r) PROVE HolderInside'
    BY <1>10 DEF Full, At, Go, EngineFailed, AnswerError, Answer, ServerTypeOK,
       HolderInside, InEngine, UsesContext, ReplacesContext
  <1>11. ASSUME NEW r \in Requests, Respond(r) PROVE HolderInside'
    BY <1>11 DEF Respond, Answer, ServerTypeOK, HolderInside, InEngine, UsesContext,
       ReplacesContext
  <1>12. ASSUME NEW r \in Requests, LoadMark(r) PROVE HolderInside'
    BY <1>12 DEF LoadMark, At, Go, AnswerError, Answer, ServerTypeOK, HolderInside,
       InEngine, UsesContext, ReplacesContext
  <1>13. ASSUME NEW r \in Requests, LoadFree(r) PROVE HolderInside'
    BY <1>13 DEF LoadFree, At, Go, HolderInside, InEngine, UsesContext, ReplacesContext
  <1>14. ASSUME NEW r \in Requests, LoadInit(r) PROVE HolderInside'
    BY <1>14 DEF LoadInit, At, Go, ServerTypeOK, HolderInside, InEngine,
       UsesContext, ReplacesContext
  <1>15. ASSUME NEW r \in Requests, LoadReady(r) PROVE HolderInside'
    BY <1>15 DEF LoadReady, Answer, ServerTypeOK, HolderInside, InEngine,
       UsesContext, ReplacesContext
  <1>16. CASE Signal
    BY <1>16 DEF Signal, HolderInside, InEngine, UsesContext, ReplacesContext
  <1>17. CASE CleanUp
    BY <1>17 DEF CleanUp, HolderInside, InEngine, UsesContext, ReplacesContext
  <1>18. CASE UNCHANGED serverVars
    BY <1>18 DEF serverVars, HolderInside, InEngine, UsesContext, ReplacesContext
  <1> QED BY <1>1, <1>2, <1>3, <1>4, <1>5, <1>6, <1>7, <1>8, <1>9, <1>10, <1>11,
     <1>12, <1>13, <1>14, <1>15, <1>16, <1>17, <1>18 DEF ServerNext, Handle

LEMMA StepContext ==
  ServerInd /\ [ServerNext]_serverVars => ContextKnown'
  <1> SUFFICES ASSUME ServerInd, [ServerNext]_serverVars
               PROVE  ContextKnown'
    OBVIOUS
  <1> USE ServerAssumption DEF ServerInd
  <1>1. ASSUME NEW r \in Requests, Arrive(r) PROVE ContextKnown'
    BY <1>1 DEF Arrive, Go, ContextKnown, UsesContext, Loading
  <1>2. ASSUME NEW r \in Requests, Health(r) PROVE ContextKnown'
    BY <1>2 DEF Health, Answer, AnswerError, At, ServerTypeOK, ContextKnown,
       UsesContext, Loading
  <1>3. ASSUME NEW r \in Requests, Acquire(r) PROVE ContextKnown'
    BY <1>3 DEF Acquire, At, Go, ContextKnown, UsesContext, Loading
  <1>4. ASSUME NEW r \in Requests, MissingFile(r) PROVE ContextKnown'
    BY <1>4 DEF MissingFile, At, AnswerError, Answer, ContextKnown, UsesContext, Loading
  <1>5. ASSUME NEW r \in Requests, TakeFields(r) PROVE ContextKnown'
    BY <1>5 DEF TakeFields, At, Go, HolderInside, ContextKnown, InEngine,
       ReplacesContext, Loading
  <1>6. ASSUME NEW r \in Requests, BadField(r) PROVE ContextKnown'
    BY <1>6 DEF BadField, At, AnswerError, Answer, ContextKnown, UsesContext, Loading
  <1>7. ASSUME NEW r \in Requests, BadAudio(r) PROVE ContextKnown'
    BY <1>7 DEF BadAudio, At, AnswerError, Answer, ContextKnown, UsesContext, Loading
  <1>8. ASSUME NEW r \in Requests, TakeAudio(r) PROVE ContextKnown'
    BY <1>8 DEF TakeAudio, At, Go, ContextKnown, UsesContext, Loading
  <1>9. ASSUME NEW r \in Requests, Vad(r) PROVE ContextKnown'
    BY <1>9 DEF Vad, At, Go, EngineFailed, AnswerError, Answer, ServerTypeOK,
       ContextKnown, UsesContext, Loading
  <1>10. ASSUME NEW r \in Requests, Full(r) PROVE ContextKnown'
    BY <1>10 DEF Full, At, Go, EngineFailed, AnswerError, Answer, ServerTypeOK,
       ContextKnown, UsesContext, Loading
  <1>11. ASSUME NEW r \in Requests, Respond(r) PROVE ContextKnown'
    BY <1>11 DEF Respond, At, Answer, ContextKnown, UsesContext, Loading
  <1>12. ASSUME NEW r \in Requests, LoadMark(r) PROVE ContextKnown'
    BY <1>12 DEF LoadMark, At, HolderInside, ContextKnown, InEngine, ReplacesContext
  <1>13. ASSUME NEW r \in Requests, LoadFree(r) PROVE ContextKnown'
    BY <1>13 DEF LoadFree, At, Go, ServerTypeOK, HolderInside, ContextKnown,
       InEngine, UsesContext, ReplacesContext, Loading
  <1>14. ASSUME NEW r \in Requests, LoadInit(r) PROVE ContextKnown'
    BY <1>14 DEF LoadInit, At, HolderInside, ContextKnown, InEngine, UsesContext,
       ReplacesContext, Loading
  <1>15. ASSUME NEW r \in Requests, LoadReady(r) PROVE ContextKnown'
    BY <1>15 DEF LoadReady, At, Answer, ServerTypeOK, HolderInside, ContextKnown,
       InEngine, ReplacesContext, Loading
  <1>16. CASE Signal
    BY <1>16 DEF Signal, ContextKnown, UsesContext, Loading
  <1>17. CASE CleanUp
    BY <1>17 DEF CleanUp, ContextKnown, UsesContext, Loading
  <1>18. CASE UNCHANGED serverVars
    BY <1>18 DEF serverVars, ContextKnown, UsesContext, Loading
  <1> QED BY <1>1, <1>2, <1>3, <1>4, <1>5, <1>6, <1>7, <1>8, <1>9, <1>10, <1>11,
     <1>12, <1>13, <1>14, <1>15, <1>16, <1>17, <1>18 DEF ServerNext, Handle

LEMMA StepPoints ==
  ServerInd /\ [ServerNext]_serverVars => PointsKnown'
  <1> SUFFICES ASSUME ServerInd, [ServerNext]_serverVars
               PROVE  PointsKnown'
    OBVIOUS
  <1> USE ServerAssumption DEF ServerInd
  <1>1. ASSUME NEW r \in Requests, Arrive(r) PROVE PointsKnown'
    BY <1>1 DEF Arrive, Go, handlerVars, PointsKnown, UsesContext, ReplacesContext
  <1>2. ASSUME NEW r \in Requests, Health(r) PROVE PointsKnown'
    BY <1>2 DEF Health, Answer, AnswerError, handlerVars, ServerTypeOK, PointsKnown,
       UsesContext, ReplacesContext
  <1>3. ASSUME NEW r \in Requests, Acquire(r) PROVE PointsKnown'
    BY <1>3 DEF Acquire, Go, handlerVars, ServerTypeOK, PointsKnown, UsesContext,
       ReplacesContext
  <1>4. ASSUME NEW r \in Requests, MissingFile(r) PROVE PointsKnown'
    BY <1>4 DEF MissingFile, AnswerError, Answer, handlerVars, PointsKnown,
       UsesContext, ReplacesContext
  <1>5. ASSUME NEW r \in Requests, TakeFields(r) PROVE PointsKnown'
    BY <1>5 DEF TakeFields, Go, ServerTypeOK, PointsKnown, UsesContext, ReplacesContext
  <1>6. ASSUME NEW r \in Requests, BadField(r) PROVE PointsKnown'
    BY <1>6 DEF BadField, AnswerError, Answer, handlerVars, PointsKnown,
       UsesContext, ReplacesContext
  <1>7. ASSUME NEW r \in Requests, BadAudio(r) PROVE PointsKnown'
    BY <1>7 DEF BadAudio, AnswerError, Answer, handlerVars, PointsKnown,
       UsesContext, ReplacesContext
  <1>8. ASSUME NEW r \in Requests, TakeAudio(r) PROVE PointsKnown'
    BY <1>8 DEF TakeAudio, At, Go, handlerVars, PointsKnown, UsesContext,
       ReplacesContext
  <1>9. ASSUME NEW r \in Requests, Vad(r) PROVE PointsKnown'
    BY <1>9 DEF Vad, At, Go, EngineFailed, AnswerError, Answer, handlerVars,
       ServerTypeOK, PointsKnown, UsesContext, ReplacesContext
  <1>10. ASSUME NEW r \in Requests, Full(r) PROVE PointsKnown'
    BY <1>10 DEF Full, At, Go, EngineFailed, AnswerError, Answer, handlerVars,
       ServerTypeOK, PointsKnown, UsesContext, ReplacesContext
  <1>11. ASSUME NEW r \in Requests, Respond(r) PROVE PointsKnown'
    BY <1>11 DEF Respond, Answer, handlerVars, PointsKnown, UsesContext, ReplacesContext
  <1>12. ASSUME NEW r \in Requests, LoadMark(r) PROVE PointsKnown'
    BY <1>12 DEF LoadMark, At, Go, AnswerError, Answer, handlerVars, ServerTypeOK,
       PointsKnown, UsesContext, ReplacesContext
  <1>13. ASSUME NEW r \in Requests, LoadFree(r) PROVE PointsKnown'
    BY <1>13 DEF LoadFree, At, Go, handlerVars, PointsKnown, UsesContext,
       ReplacesContext
  <1>14. ASSUME NEW r \in Requests, LoadInit(r) PROVE PointsKnown'
    BY <1>14 DEF LoadInit, At, Go, handlerVars, ServerTypeOK, PointsKnown,
       UsesContext, ReplacesContext
  <1>15. ASSUME NEW r \in Requests, LoadReady(r) PROVE PointsKnown'
    BY <1>15 DEF LoadReady, Answer, handlerVars, PointsKnown, UsesContext,
       ReplacesContext
  <1>16. CASE Signal
    BY <1>16 DEF Signal, handlerVars, PointsKnown, UsesContext, ReplacesContext
  <1>17. CASE CleanUp
    BY <1>17 DEF CleanUp, handlerVars, PointsKnown, UsesContext, ReplacesContext
  <1>18. CASE UNCHANGED serverVars
    BY <1>18 DEF serverVars, handlerVars, PointsKnown, UsesContext, ReplacesContext
  <1> QED BY <1>1, <1>2, <1>3, <1>4, <1>5, <1>6, <1>7, <1>8, <1>9, <1>10, <1>11,
     <1>12, <1>13, <1>14, <1>15, <1>16, <1>17, <1>18 DEF ServerNext, Handle

LEMMA StepEngine ==
  ServerInd /\ [ServerNext]_serverVars => EngineOwned'
  <1> SUFFICES ASSUME ServerInd, [ServerNext]_serverVars
               PROVE  EngineOwned'
    OBVIOUS
  <1> USE ServerAssumption DEF ServerInd
  <1>1. ASSUME NEW r \in Requests, Arrive(r) PROVE EngineOwned'
    BY <1>1 DEF Arrive, Go, engineVars, handlerVars, EngineOwned
  <1>2. ASSUME NEW r \in Requests, Health(r) PROVE EngineOwned'
    BY <1>2 DEF Health, Answer, AnswerError, engineVars, handlerVars, ServerTypeOK,
       EngineOwned
  <1>3. ASSUME NEW r \in Requests, Acquire(r) PROVE EngineOwned'
    BY <1>3 DEF Acquire, Go, engineVars, handlerVars, EngineOwned
  <1>4. ASSUME NEW r \in Requests, MissingFile(r) PROVE EngineOwned'
    BY <1>4 DEF MissingFile, At, AnswerError, Answer, HolderInside, EngineOwned,
       InEngine, UsesContext
  <1>5. ASSUME NEW r \in Requests, TakeFields(r) PROVE EngineOwned'
    BY <1>5 DEF TakeFields, Go, engineVars, ServerTypeOK, EngineOwned
  <1>6. ASSUME NEW r \in Requests, BadField(r) PROVE EngineOwned'
    BY <1>6 DEF BadField, At, AnswerError, Answer, HolderInside, EngineOwned,
       InEngine, UsesContext
  <1>7. ASSUME NEW r \in Requests, BadAudio(r) PROVE EngineOwned'
    BY <1>7 DEF BadAudio, At, AnswerError, Answer, HolderInside, EngineOwned,
       InEngine, UsesContext
  <1>8. ASSUME NEW r \in Requests, TakeAudio(r) PROVE EngineOwned'
    BY <1>8 DEF TakeAudio, At, Go, handlerVars, HolderInside, EngineOwned, InEngine,
       UsesContext
  <1>9. ASSUME NEW r \in Requests, Vad(r) PROVE EngineOwned'
    BY <1>9 DEF Vad, At, Go, EngineFailed, AnswerError, Answer, handlerVars,
       ServerTypeOK, HolderInside, PointsKnown, EngineOwned, InEngine, UsesContext
  <1>10. ASSUME NEW r \in Requests, Full(r) PROVE EngineOwned'
    BY <1>10 DEF Full, At, Go, EngineFailed, AnswerError, Answer, handlerVars,
       ServerTypeOK, HolderInside, EngineOwned, InEngine, UsesContext
  <1>11. ASSUME NEW r \in Requests, Respond(r) PROVE EngineOwned'
    BY <1>11 DEF Respond, Answer, engineVars, handlerVars, EngineOwned
  <1>12. ASSUME NEW r \in Requests, LoadMark(r) PROVE EngineOwned'
    BY <1>12 DEF LoadMark, Go, AnswerError, Answer, engineVars, handlerVars,
       ServerTypeOK, EngineOwned
  <1>13. ASSUME NEW r \in Requests, LoadFree(r) PROVE EngineOwned'
    BY <1>13 DEF LoadFree, Go, engineVars, handlerVars, EngineOwned
  <1>14. ASSUME NEW r \in Requests, LoadInit(r) PROVE EngineOwned'
    BY <1>14 DEF LoadInit, At, Go, ServerTypeOK, HolderInside, EngineOwned,
       InEngine, UsesContext, ReplacesContext
  <1>15. ASSUME NEW r \in Requests, LoadReady(r) PROVE EngineOwned'
    BY <1>15 DEF LoadReady, Answer, engineVars, handlerVars, EngineOwned
  <1>16. CASE Signal
    BY <1>16 DEF Signal, engineVars, handlerVars, EngineOwned
  <1>17. CASE CleanUp
    BY <1>17 DEF CleanUp, EngineOwned
  <1>18. CASE UNCHANGED serverVars
    BY <1>18 DEF serverVars, engineVars, handlerVars, EngineOwned
  <1> QED BY <1>1, <1>2, <1>3, <1>4, <1>5, <1>6, <1>7, <1>8, <1>9, <1>10, <1>11,
     <1>12, <1>13, <1>14, <1>15, <1>16, <1>17, <1>18 DEF ServerNext, Handle

LEMMA StepAnswers ==
  ServerInd /\ [ServerNext]_serverVars => AnswersOwned'
  <1> SUFFICES ASSUME ServerInd, [ServerNext]_serverVars
               PROVE  AnswersOwned'
    OBVIOUS
  <1> USE ServerAssumption DEF ServerInd
  <1>1. ASSUME NEW r \in Requests, Arrive(r) PROVE AnswersOwned'
    BY <1>1 DEF Arrive, Go, handlerVars, AnswersOwned, Transcribed
  <1>2. ASSUME NEW r \in Requests, Health(r) PROVE AnswersOwned'
    BY <1>2 DEF Health, Answer, AnswerError, handlerVars, ServerTypeOK,
       AnswersOwned, Transcribed
  <1>3. ASSUME NEW r \in Requests, Acquire(r) PROVE AnswersOwned'
    BY <1>3 DEF Acquire, At, Go, handlerVars, AnswersOwned, Transcribed
  <1>4. ASSUME NEW r \in Requests, MissingFile(r) PROVE AnswersOwned'
    BY <1>4 DEF MissingFile, AnswerError, Answer, handlerVars, ServerTypeOK, NoText,
       ErrorHandler, AnswersOwned, Transcribed
  <1>5. ASSUME NEW r \in Requests, TakeFields(r) PROVE AnswersOwned'
    BY <1>5 DEF TakeFields, At, Go, ServerTypeOK, AnswersOwned, Transcribed,
       Overridden, FieldsOverDefaults, Default
  <1>6. ASSUME NEW r \in Requests, BadField(r) PROVE AnswersOwned'
    BY <1>6 DEF BadField, AnswerError, Answer, handlerVars, ServerTypeOK, NoText,
       ErrorHandler, AnswersOwned, Transcribed
  <1>7. ASSUME NEW r \in Requests, BadAudio(r) PROVE AnswersOwned'
    BY <1>7 DEF BadAudio, AnswerError, Answer, handlerVars, ServerTypeOK, NoText,
       ErrorHandler, AnswersOwned, Transcribed
  <1>8. ASSUME NEW r \in Requests, TakeAudio(r) PROVE AnswersOwned'
    BY <1>8 DEF TakeAudio, At, Go, handlerVars, AnswersOwned, Transcribed
  <1>9. ASSUME NEW r \in Requests, Vad(r) PROVE AnswersOwned'
    BY <1>9 DEF Vad, At, Go, EngineFailed, AnswerError, Answer, handlerVars,
       ServerTypeOK, NoText, ErrorHandler, AnswersOwned, Transcribed
  <1>10. ASSUME NEW r \in Requests, Full(r) PROVE AnswersOwned'
    BY <1>10 DEF Full, At, Go, EngineFailed, AnswerError, Answer, handlerVars,
       ServerTypeOK, NoText, ErrorHandler, AnswersOwned, Transcribed
  <1>11. ASSUME NEW r \in Requests, Respond(r) PROVE AnswersOwned'
    BY <1>11 DEF Respond, At, Answer, handlerVars, ServerTypeOK, EngineOwned,
       AnswersOwned, Transcribed, Transcript
  <1>12. ASSUME NEW r \in Requests, LoadMark(r) PROVE AnswersOwned'
    BY <1>12 DEF LoadMark, At, Go, AnswerError, Answer, handlerVars, ServerTypeOK,
       PointsKnown, AnswersOwned, ReplacesContext, Transcribed
  <1>13. ASSUME NEW r \in Requests, LoadFree(r) PROVE AnswersOwned'
    BY <1>13 DEF LoadFree, At, Go, handlerVars, AnswersOwned, Transcribed
  <1>14. ASSUME NEW r \in Requests, LoadInit(r) PROVE AnswersOwned'
    BY <1>14 DEF LoadInit, At, Go, handlerVars, ServerTypeOK, AnswersOwned, Transcribed
  <1>15. ASSUME NEW r \in Requests, LoadReady(r) PROVE AnswersOwned'
    BY <1>15 DEF LoadReady, At, Answer, handlerVars, ServerTypeOK, PointsKnown,
       AnswersOwned, ReplacesContext, Transcribed
  <1>16. CASE Signal
    BY <1>16 DEF Signal, handlerVars, AnswersOwned, Transcribed
  <1>17. CASE CleanUp
    BY <1>17 DEF CleanUp, handlerVars, AnswersOwned, Transcribed
  <1>18. CASE UNCHANGED serverVars
    BY <1>18 DEF serverVars, handlerVars, AnswersOwned, Transcribed
  <1> QED BY <1>1, <1>2, <1>3, <1>4, <1>5, <1>6, <1>7, <1>8, <1>9, <1>10, <1>11,
     <1>12, <1>13, <1>14, <1>15, <1>16, <1>17, <1>18 DEF ServerNext, Handle

LEMMA ServerInductive == ServerSpec => []ServerInd
  <1>1. ServerInd /\ [ServerNext]_serverVars => ServerInd'
    BY StepType, StepHolder, StepContext, StepPoints, StepEngine, StepAnswers DEF
       ServerInd
  <1> QED BY InitInd, <1>1, PTL DEF ServerSpec

\* The variables keep their types, whatever statuses handlers set.
THEOREM ServerTypeCorrect == ServerSpec => []ServerTypeOK
  <1>1. ServerInd => ServerTypeOK
    BY DEF ServerInd
  <1> QED BY ServerInductive, <1>1, PTL

\* Two handlers are never inside of the context together.
THEOREM ServerOneUser == ServerSpec => []EngineHasOneUser
  <1>1. ServerInd => EngineHasOneUser
    BY DEF ServerInd, HolderInside, EngineHasOneUser
  <1> QED BY ServerInductive, <1>1, PTL

\* A handler inside of the context finds it loaded.
THEOREM ServerEngineIsLoaded == ServerSpec => []EngineIsLoaded
  <1>1. ServerInd => EngineIsLoaded
    BY DEF ServerInd, ContextKnown, EngineIsLoaded
  <1> QED BY ServerInductive, <1>1, PTL

\* /health, without the mutex, says "ok" only with a model loaded.
THEOREM ServerReadyMeansLoaded == ServerSpec => []ReadyMeansLoaded
  <1>1. ServerInd => ReadyMeansLoaded
    BY DEF ServerInd, ContextKnown, ReadyMeansLoaded, Loading
  <1> QED BY ServerInductive, <1>1, PTL

\* With one processor every transcript is that of the request's own audio.
THEOREM ServerTextIsOwn ==
  ASSUME Processors = 1
  PROVE  ServerSpec => []TextIsOwn
  <1>1. ServerInd => TextIsOwn
    BY DEF ServerInd, AnswersOwned, TextIsOwn
  <1> QED BY ServerInductive, <1>1, PTL

\* No field of another request shapes an answer of /inference-pcm.
THEOREM ServerPcmSettingsAreOwn == ServerSpec => []PcmSettingsAreOwn
  <1>1. ServerInd => PcmSettingsAreOwn
    BY DEF ServerInd, AnswersOwned, PcmSettingsAreOwn
  <1> QED BY ServerInductive, <1>1, PTL

\* Reported timings count the request's own run only.
THEOREM ServerTimingsAreOwn == ServerSpec => []TimingsAreOwn
  <1>1. ServerInd => TimingsAreOwn
    BY DEF ServerInd, AnswersOwned, TimingsAreOwn
  <1> QED BY ServerInductive, <1>1, PTL
=============================================================================
