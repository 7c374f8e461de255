------------------------- MODULE CallSessionProofs --------------------------
(***************************************************************************)
(* Theorems about CallSession (C), for any speech queue with room for a    *)
(* request and any number of tool calls in one answer of the LLM.          *)
(***************************************************************************)
EXTENDS WorkerCall, TLAPS

\* What the theorems assume of the constants.
Sizes == QueueSize \in Nat \ {0} /\ MaxTools \in Nat
----------------------------------------------------------------------------
(***************************************************************************)
(* The inductive invariant.  Speech: while a request is streamed the       *)
(* cancel event is set exactly if this request was interrupted, and none   *)
(* of its chunks followed; only the padded rest can, which ends it.        *)
(* Tools: a terminal tool leaves the conversation to its end, and the      *)
(* conversation begins without one; a transfer or a callback is recorded   *)
(* after ViciDial has done it.  TypeOK is in two parts: the flags, whose   *)
(* steps are propositional, and the rest.                                  *)
(***************************************************************************)
Flags ==
  /\ callEnded \in BOOLEAN
  /\ reader \in BOOLEAN /\ writer \in BOOLEAN
  /\ frames \in BOOLEAN
  /\ cutoff \in BOOLEAN /\ interrupted \in BOOLEAN
  /\ forced \in BOOLEAN

Places ==
  /\ run \in {"connect", "context", "load", "running", "gather", "done",
              "failed", "cut"} \cup C!Cleanup
  /\ peer \in {"on", "over", "reset"}
  /\ aout \in {"get", "stream", "over"}
  /\ queued \in 0..QueueSize /\ late \in Nat
  /\ conv \in {"wait", "delay", "llm", "tool", "follow", "drain", "over"}
  /\ tool \in C!Tools /\ todo \in 0..MaxTools
  /\ terminal \in {"none", "error", "end"} \cup C!Asking
  /\ effect \subseteq C!Asking
  /\ dispo \in {"none", "abandon", "error", "end"} \cup C!Asking

SpeechInStep ==
  /\ aout = "stream" => (cutoff <=> interrupted) /\ late = 0
  /\ late <= 1

TerminalIsLast ==
  /\ terminal # "none" => conv \in {"drain", "over"}
  /\ run \in {"connect", "context", "load"} => conv = "over" /\ terminal = "none"

TerminalIsTrue ==
  /\ terminal \in {"transfer", "callback"} => terminal \in effect
  /\ dispo \in {"transfer", "callback"} => dispo \in effect

Facts == Places /\ SpeechInStep /\ TerminalIsLast /\ TerminalIsTrue

Inv == Flags /\ Facts
----------------------------------------------------------------------------
\* The two parts are the type invariant of the runs.
LEMMA TypeInParts == C!TypeOK <=> Flags /\ Places
BY Zenon DEF C!TypeOK, Flags, Places

LEMMA InitInv == ASSUME Sizes PROVE C!Init => Inv
<1>1. C!Init => Flags
  BY Zenon DEF C!Init, Flags
<1>2. C!Init => Facts
  BY DEF Sizes, C!Init, Facts, Places, SpeechInStep, TerminalIsLast, TerminalIsTrue, C!Asking,
         C!Tools, C!Cleanup
<1> QED
  BY <1>1, <1>2 DEF Inv

\* _enqueue_speech keeps the queue within its size.
LEMMA EnqueueIsBounded ==
  ASSUME Sizes, NEW n \in Nat, queued \in 0..QueueSize
  PROVE  C!Enqueue(n) \in 0..QueueSize
BY DEF Sizes, C!Enqueue

\* Going on with the tool calls that are left, the conversation is at one of its awaits.
LEMMA DispatchIsTyped ==
  ASSUME Sizes, NEW n \in 0..MaxTools, C!Dispatch(n), tool \in C!Tools, todo \in 0..MaxTools
  PROVE  conv' \in {"wait", "tool", "over"} /\ todo' \in 0..MaxTools /\ tool' \in C!Tools
BY DEF Sizes, C!Dispatch, C!ConvDies
----------------------------------------------------------------------------
\* No step takes a flag out of BOOLEAN.
LEMMA FlagsStep == Flags /\ [C!Next]_C!vars => Flags'
<1> SUFFICES ASSUME Flags, [C!Next]_C!vars PROVE Flags'
  OBVIOUS
<1>1. CASE C!SetUp
  BY Zenon, <1>1 DEF Flags, C!SetUp, C!sipVars, C!speechVars
<1>2. CASE C!Ready
  BY Zenon, <1>2 DEF Flags, C!Ready
<1>3. CASE C!PeerLeaves
  BY Zenon, <1>3 DEF Flags, C!PeerLeaves, C!speechVars
<1>4. CASE C!ReadEnds
  BY Zenon, <1>4 DEF Flags, C!ReadEnds, C!speechVars
<1>5. CASE C!WriteFrame
  BY Zenon, <1>5 DEF Flags, C!WriteFrame
<1>6. CASE C!NextSpeech
  BY Zenon, <1>6 DEF Flags, C!NextSpeech, C!sipVars
<1>7. CASE C!StreamChunk
  BY Zenon, <1>7 DEF Flags, C!StreamChunk, C!sipVars, C!QueueFrames
<1>8. CASE C!StreamCut
  BY Zenon, <1>8 DEF Flags, C!StreamCut, C!sipVars
<1>9. CASE C!StreamEnd
  BY Zenon, <1>9 DEF Flags, C!StreamEnd, C!sipVars, C!QueueFrames
<1>10. CASE C!BargeIn
  BY Zenon, <1>10 DEF Flags, C!BargeIn, C!sipVars
<1>11. CASE C!TakeFinal
  BY Zenon, <1>11 DEF Flags, C!TakeFinal, C!sipVars, C!speechVars
<1>12. CASE C!DelayOver
  BY Zenon, <1>12 DEF Flags, C!DelayOver, C!sipVars, C!speechVars
<1>13. CASE C!LlmReplies
  BY Zenon, <1>13 DEF Flags, C!LlmReplies, C!sipVars, C!speechVars, C!LlmAnswers, C!LlmFails,
     C!LlmCrashes
<1>14. CASE C!ToolReplies
  BY Zenon, <1>14 DEF Flags, C!ToolReplies, C!sipVars, C!speechVars, C!ToolOk, C!ToolFails,
     C!EndTool,
     C!BadTool, C!KbReply, C!Terminate
<1>15. CASE C!FollowUp
  BY Zenon, <1>15 DEF Flags, C!FollowUp, C!sipVars, C!speechVars, C!FollowAnswers, C!FollowFails
<1>16. CASE C!DrainOver
  BY Zenon, <1>16 DEF Flags, C!DrainOver, C!sipVars, C!speechVars
<1>17. CASE C!CallEnds
  BY Zenon, <1>17 DEF Flags, C!CallEnds, C!CancelTasks
<1>18. CASE C!Gathered
  BY Zenon, <1>18 DEF Flags, C!Gathered, C!sipVars, C!speechVars
<1>19. CASE C!CleanUp
  BY Zenon, <1>19 DEF Flags, C!CleanUp, C!sipVars, C!speechVars
<1>20. CASE C!ForceCancel
  BY Zenon, <1>20 DEF Flags, C!ForceCancel, C!CancelTasks
<1>21. CASE UNCHANGED C!vars
  BY Zenon, <1>21 DEF Flags, C!vars
<1> QED
  BY <1>1, <1>2, <1>3, <1>4, <1>5, <1>6, <1>7, <1>8, <1>9, <1>10, <1>11, <1>12, <1>13,
     <1>14, <1>15, <1>16, <1>17, <1>18, <1>19, <1>20, <1>21 DEF C!Next
----------------------------------------------------------------------------
\* Set-up and socket: the conversation begins after set-up, without a terminal tool.
LEMMA SocketStep ==
  ASSUME Sizes, Inv, C!SetUp \/ C!Ready \/ C!PeerLeaves \/ C!ReadEnds \/ C!WriteFrame
  PROVE  Facts'
<1>1. CASE C!SetUp
  BY <1>1 DEF Inv, Flags, Facts, Places, SpeechInStep, TerminalIsLast, TerminalIsTrue,
     C!SetUp, C!sipVars, C!speechVars, C!convVars
<1>2. CASE C!Ready
  BY <1>2 DEF Inv, Flags, Facts, Places, SpeechInStep, TerminalIsLast, TerminalIsTrue,
     C!Ready, Sizes, C!Cleanup
<1>3. CASE C!PeerLeaves
  BY <1>3 DEF Inv, Flags, Facts, Places, SpeechInStep, TerminalIsLast, TerminalIsTrue,
     C!PeerLeaves, C!speechVars, C!convVars
<1>4. CASE C!ReadEnds
  BY <1>4 DEF Inv, Flags, Facts, Places, SpeechInStep, TerminalIsLast, TerminalIsTrue,
     C!ReadEnds, C!speechVars, C!convVars
<1>5. CASE C!WriteFrame
  BY <1>5 DEF Inv, Flags, Facts, Places, SpeechInStep, TerminalIsLast, TerminalIsTrue,
     C!WriteFrame, C!convVars
<1> QED
  BY <1>1, <1>2, <1>3, <1>4, <1>5

\* Speech: NextSpeech clears the event and the history together, a barge-in sets both, and
\* the rest that StreamEnd queues is the last of its request.
LEMMA SpeechStep ==
  ASSUME Sizes, Inv, C!NextSpeech \/ C!StreamChunk \/ C!StreamCut \/ C!StreamEnd \/ C!BargeIn
  PROVE  Facts'
<1>1. CASE C!NextSpeech
  BY <1>1 DEF Inv, Flags, Facts, Places, SpeechInStep, TerminalIsLast, TerminalIsTrue,
     C!NextSpeech, Sizes, C!sipVars, C!convVars
<1>2. CASE C!StreamChunk
  BY <1>2 DEF Inv, Flags, Facts, Places, SpeechInStep, TerminalIsLast, TerminalIsTrue,
     C!StreamChunk, C!QueueFrames, C!sipVars, C!convVars
<1>3. CASE C!StreamCut
  BY <1>3 DEF Inv, Flags, Facts, Places, SpeechInStep, TerminalIsLast, TerminalIsTrue,
     C!StreamCut, C!sipVars, C!convVars
<1>4. CASE C!StreamEnd
  BY <1>4 DEF Inv, Flags, Facts, Places, SpeechInStep, TerminalIsLast, TerminalIsTrue,
     C!StreamEnd, C!QueueFrames, C!sipVars, C!convVars
<1>5. CASE C!BargeIn
  BY <1>5 DEF Inv, Flags, Facts, Places, SpeechInStep, TerminalIsLast, TerminalIsTrue,
     C!BargeIn, C!sipVars, C!convVars
<1> QED
  BY <1>1, <1>2, <1>3, <1>4, <1>5

\* The turns with the LLM: without a terminal tool they may go on, and an error ends them.
LEMMA LlmStep ==
  ASSUME Sizes, Inv, C!TakeFinal \/ C!DelayOver \/ C!LlmReplies \/ C!FollowUp \/ C!DrainOver
  PROVE  Facts'
<1>1. queued \in 0..QueueSize /\ todo \in 0..MaxTools /\ tool \in C!Tools
  BY DEF Inv, Facts, Places
<1>2. \A n \in {0, 1} : C!Enqueue(n) \in 0..QueueSize
  BY <1>1, EnqueueIsBounded
<1>3. \A n \in 0..MaxTools : C!Dispatch(n) =>
        conv' \in {"wait", "tool", "over"} /\ todo' \in 0..MaxTools /\ tool' \in C!Tools
  BY <1>1, DispatchIsTyped
<1>4. CASE C!TakeFinal
  BY <1>1, <1>2, <1>3, <1>4 DEF Inv, Flags, Facts, Places, SpeechInStep, TerminalIsLast,
     TerminalIsTrue, Sizes, C!TakeFinal, C!sipVars, C!speechVars
<1>5. CASE C!DelayOver
  BY <1>1, <1>2, <1>3, <1>5 DEF Inv, Flags, Facts, Places, SpeechInStep, TerminalIsLast,
     TerminalIsTrue, Sizes, C!DelayOver, C!sipVars, C!speechVars
<1>6. CASE C!LlmAnswers
  BY <1>1, <1>2, <1>3, <1>6 DEF Inv, Flags, Facts, Places, SpeechInStep, TerminalIsLast,
     TerminalIsTrue, Sizes, C!LlmAnswers, C!sipVars
<1>7. CASE C!LlmFails
  BY <1>1, <1>2, <1>3, <1>7 DEF Inv, Flags, Facts, Places, SpeechInStep, TerminalIsLast,
     TerminalIsTrue, Sizes, C!LlmFails, C!sipVars, C!Asking
<1>8. CASE C!LlmCrashes
  BY <1>1, <1>2, <1>3, <1>8 DEF Inv, Flags, Facts, Places, SpeechInStep, TerminalIsLast,
     TerminalIsTrue, Sizes, C!LlmCrashes, C!ConvDies, C!sipVars, C!speechVars
<1>9. CASE C!FollowAnswers
  BY <1>1, <1>2, <1>3, <1>9 DEF Inv, Flags, Facts, Places, SpeechInStep, TerminalIsLast,
     TerminalIsTrue, Sizes, C!FollowAnswers, C!sipVars
<1>10. CASE C!FollowFails
  BY <1>1, <1>2, <1>3, <1>10 DEF Inv, Flags, Facts, Places, SpeechInStep, TerminalIsLast,
     TerminalIsTrue, Sizes, C!FollowFails, C!ConvDies, C!sipVars, C!speechVars
<1>11. CASE C!DrainOver
  BY <1>1, <1>2, <1>3, <1>11 DEF Inv, Flags, Facts, Places, SpeechInStep, TerminalIsLast,
     TerminalIsTrue, Sizes, C!DrainOver, C!sipVars, C!speechVars
<1> QED
  BY <1>4, <1>5, <1>6, <1>7, <1>8, <1>9, <1>10, <1>11 DEF C!LlmReplies, C!FollowUp

\* The tools: what becomes terminal was carried out, but for dnc, and none follows it.
LEMMA ToolStep ==
  ASSUME Sizes, Inv, C!ToolReplies
  PROVE  Facts'
<1>1. queued \in 0..QueueSize /\ todo \in 0..MaxTools /\ tool \in C!Tools
  BY DEF Inv, Facts, Places
<1>2. \A n \in {0, 1} : C!Enqueue(n) \in 0..QueueSize
  BY <1>1, EnqueueIsBounded
<1>3. \A n \in 0..MaxTools : C!Dispatch(n) =>
        conv' \in {"wait", "tool", "over"} /\ todo' \in 0..MaxTools /\ tool' \in C!Tools
  BY <1>1, DispatchIsTyped
<1>4. CASE C!ToolOk
  BY <1>1, <1>2, <1>3, <1>4 DEF Inv, Flags, Facts, Places, SpeechInStep, TerminalIsLast,
     TerminalIsTrue, Sizes, C!ToolOk, C!Terminate, C!Asking, C!sipVars
<1>5. CASE C!ToolFails
  BY <1>1, <1>2, <1>3, <1>5 DEF Inv, Flags, Facts, Places, SpeechInStep, TerminalIsLast,
     TerminalIsTrue, Sizes, C!ToolFails, C!Terminate, C!Asking, C!sipVars
<1>6. CASE C!EndTool
  BY <1>1, <1>2, <1>3, <1>6 DEF Inv, Flags, Facts, Places, SpeechInStep, TerminalIsLast,
     TerminalIsTrue, Sizes, C!EndTool, C!Terminate, C!Asking, C!sipVars
<1>7. CASE C!BadTool
  BY <1>1, <1>2, <1>3, <1>7 DEF Inv, Flags, Facts, Places, SpeechInStep, TerminalIsLast,
     TerminalIsTrue, Sizes, C!BadTool, C!sipVars, C!speechVars
<1>8. CASE C!KbReply
  BY <1>1, <1>2, <1>3, <1>8 DEF Inv, Flags, Facts, Places, SpeechInStep, TerminalIsLast,
     TerminalIsTrue, Sizes, C!KbReply, C!sipVars, C!speechVars
<1> QED
  BY <1>4, <1>5, <1>6, <1>7, <1>8 DEF C!ToolReplies

\* The end of the call: what was carried out stays so, and the disposition is the terminal tool.
LEMMA EndStep ==
  ASSUME Sizes, Inv, C!CallEnds \/ C!Gathered \/ C!CleanUp \/ C!ForceCancel
  PROVE  Facts'
<1>1. CASE C!CallEnds
  BY <1>1 DEF Inv, Flags, Facts, Places, SpeechInStep, TerminalIsLast, TerminalIsTrue,
     C!CallEnds, C!CancelTasks, C!AbandonRequest, C!SpeakerAfterCancel, C!Cleanup
<1>2. CASE C!Gathered
  BY <1>2 DEF Inv, Flags, Facts, Places, SpeechInStep, TerminalIsLast, TerminalIsTrue,
     C!Gathered, C!sipVars, C!speechVars, C!convVars, C!Cleanup
<1>3. CASE C!CleanUp
  BY <1>3 DEF Inv, Flags, Facts, Places, SpeechInStep, TerminalIsLast, TerminalIsTrue,
     C!CleanUp, C!sipVars, C!speechVars, C!convVars, C!Cleanup
<1>4. CASE C!ForceCancel
  BY <1>4 DEF Inv, Flags, Facts, Places, SpeechInStep, TerminalIsLast, TerminalIsTrue,
     C!ForceCancel, C!CancelTasks, C!AbandonRequest, C!SpeakerAfterCancel, C!Cleanup
<1> QED
  BY <1>1, <1>2, <1>3, <1>4

LEMMA StepInv == ASSUME Sizes PROVE Inv /\ [C!Next]_C!vars => Inv'
<1> SUFFICES ASSUME Inv, [C!Next]_C!vars PROVE Inv'
  OBVIOUS
<1>1. Flags'
  BY FlagsStep DEF Inv
<1>2. ASSUME UNCHANGED C!vars PROVE Facts'
  BY <1>2 DEF Inv, Facts, Places, SpeechInStep, TerminalIsLast, TerminalIsTrue, C!vars
<1>3. ASSUME C!Next PROVE Facts'
  BY <1>3, SocketStep, SpeechStep, LlmStep, ToolStep, EndStep DEF C!Next
<1> QED
  BY <1>1, <1>2, <1>3 DEF Inv
----------------------------------------------------------------------------
LEMMA Invariance == ASSUME Sizes PROVE C!Spec => []Inv
BY InitInv, StepInv, PTL DEF C!Spec

\* A barge-in silences the request the caller spoke over and no later one, whenever it comes:
\* at most the padded rest of that request is still queued (_barge_in_loop, _stream_tts).
THEOREM BargeInSilences == ASSUME Sizes PROVE C!Spec => []BargeInIsClean
<1>1. Inv => BargeInIsClean
  BY TypeInParts DEF Inv, Facts, SpeechInStep, BargeInIsClean, C!BargeInIsClean,
     C!BargeInHitsItsTarget,
                     C!QuietAfterBargeIn
<1> QED
  BY <1>1, Invariance, PTL

\* A call is disposed as transferred or as to be called back only if ViciDial has done that,
\* whatever answer was lost and whatever was cancelled on the way (_cleanup).
THEOREM DispositionIsHonest == ASSUME Sizes PROVE C!Spec => []HonestDisposition
<1>1. Inv => HonestDisposition
  BY DEF Inv, Facts, TerminalIsTrue, HonestDisposition, C!HonestDisposition
<1> QED
  BY <1>1, Invariance, PTL

\* After a terminal tool no tool is dispatched, the LLM is not asked again, and nothing more
\* is done in ViciDial (_handle_llm_response).
THEOREM TerminalToolIsLast == ASSUME Sizes PROVE C!Spec => C!NothingAfterTerminal
<1>1. ASSUME Inv, [C!Next]_C!vars, terminal # "none"
      PROVE  conv' \in {"drain", "over"} /\ effect' = effect
  <2>1. conv \in {"drain", "over"} /\ run \notin {"connect", "context", "load"}
    BY <1>1 DEF Inv, Facts, TerminalIsLast
  <2>2. CASE UNCHANGED C!vars
    BY <2>1, <2>2 DEF C!vars
  <2>3. CASE C!SetUp \/ C!PeerLeaves \/ C!ReadEnds \/ C!WriteFrame
    BY <2>1, <2>3 DEF C!SetUp, C!PeerLeaves, C!ReadEnds, C!WriteFrame, C!convVars
  <2>4. CASE C!NextSpeech \/ C!StreamChunk \/ C!StreamCut \/ C!StreamEnd \/ C!BargeIn
    BY <2>1, <2>4 DEF C!NextSpeech, C!StreamChunk, C!StreamCut, C!StreamEnd, C!BargeIn,
       C!convVars
  <2>5. CASE \/ C!Ready \/ C!TakeFinal \/ C!DelayOver
             \/ C!LlmReplies \/ C!ToolReplies \/ C!FollowUp
    BY <2>1, <2>5 DEF C!Ready, C!TakeFinal, C!DelayOver, C!LlmReplies, C!LlmAnswers, C!LlmFails,
                      C!LlmCrashes, C!ToolReplies, C!ToolOk, C!ToolFails, C!EndTool,
                      C!BadTool, C!KbReply,
                      C!FollowUp, C!FollowAnswers, C!FollowFails
  <2>6. CASE C!DrainOver \/ C!Gathered \/ C!CleanUp
    BY <2>1, <2>6 DEF C!DrainOver, C!Gathered, C!CleanUp, C!convVars
  <2>7. CASE C!CallEnds \/ C!ForceCancel
    BY <2>1, <2>7 DEF C!CallEnds, C!ForceCancel, C!CancelTasks, C!AbandonRequest
  <2> QED
    BY <1>1, <2>2, <2>3, <2>4, <2>5, <2>6, <2>7 DEF C!Next
<1> QED
  BY <1>1, Invariance, PTL DEF C!Spec, C!NothingAfterTerminal
=============================================================================
