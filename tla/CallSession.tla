----------------------------- MODULE CallSession -----------------------------
(***************************************************************************)
(* One call in the worker process.                                         *)
(*   call_session.py  CallSession: set-up, the tasks of run(), clean-up    *)
(*   conversation.py  ConversationLoop: the turns with the LLM, the tools  *)
(*   audio_out.py     AudioOutPipeline: speech to frames                   *)
(*   barge_in.py      the caller interrupts the agent                      *)
(*   tools.py         the tools that ask ViciDial for something            *)
(*                                                                         *)
(* All tasks run on one event loop: code between two awaits is one step.   *)
(* The sip service, ViciDial, the LLM, STT and TTS are the environment.    *)
(***************************************************************************)
EXTENDS Naturals

CONSTANTS
  QueueSize,  \* maxsize of _speech_queue: 16 in the code
  MaxTools    \* bound: tool calls in one answer of the LLM

VARIABLES
  run,         \* where _run_one_call is: __aenter__, run(), __aexit__
  peer,        \* the sip service's end of the socket, as the worker sees it
  callEnded,   \* _call_ended
  reader,      \* _sip_read_loop is alive
  writer,      \* _sip_write_loop is alive
  frames,      \* _frames_out holds a frame
  aout,        \* where AudioOutPipeline.run is
  queued,      \* requests in _speech_queue
  cutoff,      \* _tts_cancel
  interrupted, \* history: the caller interrupted the request being spoken
  late,        \* history: batches of its frames that were queued after that
  conv,        \* where ConversationLoop.run is
  tool,        \* the tool under way
  todo,        \* tool calls of this answer that come after it
  terminal,    \* terminal_result
  effect,      \* what ViciDial has carried out for this call
  dispo,       \* the disposition _cleanup decided on
  forced       \* the supervisor's drain has cancelled the task

speechVars == <<frames, aout, queued, cutoff, interrupted, late>>
convVars   == <<conv, tool, todo, terminal, effect>>
sipVars    == <<peer, reader, writer>>
vars == <<run, peer, callEnded, reader, writer, frames, aout, queued, cutoff,
          interrupted, late, conv, tool, todo, terminal, effect,
          dispo, forced>>

Asking == {"transfer", "callback", "dnc"}      \* tools that ask ViciDial
Tools  == Asking \cup {"end", "kb", "bad"}     \* "end": end_call, dispose_*
                                               \* "bad": unknown, or wrong args
Cleanup == {"close", "hangup", "dispo", "record", "row"}

TypeOK ==
  /\ run \in {"connect", "context", "load", "running", "gather", "done",
              "failed", "cut"} \cup Cleanup
  /\ peer \in {"on", "over", "reset"}
  /\ callEnded \in BOOLEAN
  /\ reader \in BOOLEAN /\ writer \in BOOLEAN
  /\ frames \in BOOLEAN
  /\ aout \in {"get", "stream", "over"}
  /\ queued \in 0..QueueSize
  /\ cutoff \in BOOLEAN
  /\ interrupted \in BOOLEAN
  /\ late \in Nat
  /\ conv \in {"wait", "delay", "llm", "tool", "follow", "drain", "over"}
  /\ tool \in Tools
  /\ todo \in 0..MaxTools
  /\ terminal \in {"none", "error", "end"} \cup Asking
  /\ effect \subseteq Asking
  /\ dispo \in {"none", "abandon", "error", "end"} \cup Asking
  /\ forced \in BOOLEAN

Init ==
  /\ run = "connect"
  /\ peer = "on"
  /\ callEnded = FALSE
  /\ reader = FALSE /\ writer = FALSE
  /\ frames = FALSE
  /\ aout = "over"
  /\ queued = 0
  /\ cutoff = FALSE
  /\ interrupted = FALSE
  /\ late = 0
  /\ conv = "over"
  /\ tool = "bad"
  /\ todo = 0
  /\ terminal = "none"
  /\ effect = {}
  /\ dispo = "none"
  /\ forced = FALSE

\* _enqueue_speech, n times: a full queue drops the request.
Enqueue(n) == IF queued + n <= QueueSize THEN queued + n ELSE QueueSize
----------------------------------------------------------------------------
(***************************************************************************)
(* Set-up.  What fails in __aenter__ raises: __aexit__ is not called then. *)
(***************************************************************************)
SetUp ==
  /\ \/ /\ run = "connect"
        /\ \/ peer = "on" /\ run' = "context"
           \/ run' = "failed"
     \/ /\ run = "context"
        /\ \/ run' = "load"                  \* a frame, or 5 s without one
           \/ peer # "on" /\ run' = "failed"
     \/ run = "load" /\ run' = "failed"      \* the recorder, or the prompt
  /\ UNCHANGED <<sipVars, callEnded, speechVars, convVars, dispo, forced>>

\* The end of __aenter__, with or without an opener, and the head of run().
Ready ==
  /\ run = "load"
  /\ run' = "running"
  /\ queued' \in {0, 1}
  /\ reader' = TRUE /\ writer' = TRUE
  /\ aout' = "get"
  /\ conv' = "wait"
  /\ UNCHANGED <<peer, callEnded, frames, cutoff, interrupted, late, tool, todo,
                 terminal, effect, dispo, forced>>
----------------------------------------------------------------------------
(***************************************************************************)
(* The socket of the sip service.                                          *)
(***************************************************************************)
\* HANGUP or the end of the stream; or a reset, when it closes with our
\* frames unread.
PeerLeaves ==
  /\ peer = "on"
  /\ peer' \in {"over", "reset"}
  /\ UNCHANGED <<run, callEnded, reader, writer, speechVars, convVars, dispo,
                 forced>>

\* _sip_read_loop; read_frame does not catch a ConnectionResetError.
ReadEnds ==
  /\ reader /\ peer # "on"
  /\ reader' = FALSE
  /\ callEnded' = (callEnded \/ peer = "over")
  /\ UNCHANGED <<run, peer, writer, speechVars, convVars, dispo, forced>>

\* _sip_write_loop: a frame is sent, or cannot be; the loop ends with the call.
WriteFrame ==
  /\ writer /\ frames
  /\ frames' \in BOOLEAN
  /\ \/ UNCHANGED <<writer, callEnded>>
     \/ peer # "on" /\ writer' = FALSE /\ callEnded' = TRUE
  /\ UNCHANGED <<run, peer, reader, aout, queued, cutoff, interrupted, late,
                 convVars, dispo, forced>>
----------------------------------------------------------------------------
(***************************************************************************)
(* AudioOutPipeline.run and _stream_tts; _barge_in_loop.                   *)
(***************************************************************************)
\* Mutant of NextSpeech: the cancel event of the last request stays set.
StickyNextSpeech ==
  /\ aout = "get" /\ queued > 0
  /\ aout' = "stream"
  /\ queued' = queued - 1
  /\ interrupted' = FALSE
  /\ late' = 0
  /\ UNCHANGED <<run, sipVars, callEnded, frames, cutoff, convVars, dispo, forced>>

NextSpeech ==
  /\ aout = "get" /\ queued > 0
  /\ aout' = "stream"
  /\ queued' = queued - 1
  /\ cutoff' = FALSE
  /\ interrupted' = FALSE
  /\ late' = 0
  /\ UNCHANGED <<run, sipVars, callEnded, frames, convVars, dispo, forced>>

QueueFrames ==
  /\ frames' = TRUE
  /\ late' = IF interrupted THEN late + 1 ELSE late

\* One chunk of the response: its whole frames are queued without an await.
StreamChunk ==
  /\ aout = "stream" /\ ~cutoff
  /\ QueueFrames
  /\ UNCHANGED <<run, sipVars, callEnded, aout, queued, cutoff, interrupted,
                 convVars, dispo, forced>>

\* The chunk that comes after a barge-in is dropped, and the rest with it.
StreamCut ==
  /\ aout = "stream" /\ cutoff
  /\ aout' = "get"
  /\ UNCHANGED <<run, sipVars, callEnded, frames, queued, cutoff, interrupted,
                 late, convVars, dispo, forced>>

\* The response ends, or fails; a rest shorter than a frame is padded and
\* queued, whatever happened since the last chunk.
StreamEnd ==
  /\ aout = "stream"
  /\ aout' = "get"
  /\ QueueFrames \/ UNCHANGED <<frames, late>>
  /\ UNCHANGED <<run, sipVars, callEnded, queued, cutoff, interrupted, convVars,
                 dispo, forced>>

AudioOut == NextSpeech \/ StreamChunk \/ StreamCut \/ StreamEnd

\* should_barge_in says yes.  _is_speaking is set exactly while a request is
\* streamed: no await lies between the two.
BargeIn ==
  /\ run = "running" /\ aout = "stream"
  /\ cutoff' = TRUE
  /\ interrupted' = TRUE
  /\ frames' = FALSE
  /\ UNCHANGED <<run, sipVars, callEnded, aout, queued, late, convVars, dispo,
                 forced>>
----------------------------------------------------------------------------
(***************************************************************************)
(* ConversationLoop.run.  ViciDial is enabled in the configuration.        *)
(***************************************************************************)
\* A final transcript that is not empty.
TakeFinal ==
  /\ conv = "wait"
  /\ conv' = "delay"
  /\ UNCHANGED <<run, sipVars, callEnded, speechVars, tool, todo, terminal,
                 effect, dispo, forced>>

\* The pause of response_delay_ms; then _call_llm.
DelayOver ==
  /\ conv = "delay"
  /\ conv' = "llm"
  /\ UNCHANGED <<run, sipVars, callEnded, speechVars, tool, todo, terminal,
                 effect, dispo, forced>>

\* An exception that nobody expects ends the task of the conversation, and nothing else.
ConvDies == conv' = "over" /\ UNCHANGED <<tool, todo>>

\* The loop over tool_calls goes on with n of them left; one that is no object raises.
Dispatch(n) ==
  \/ n = 0 /\ conv' = "wait" /\ todo' = 0 /\ UNCHANGED tool
  \/ n > 0 /\ ConvDies
  \/ n > 0 /\ conv' = "tool" /\ todo' = n - 1 /\ tool' \in Tools

\* _handle_llm_response: content is queued for speech, then the tools run.
LlmAnswers ==
  /\ conv = "llm"
  /\ \E content \in 0..1 : queued' = Enqueue(content)
  /\ \E n \in 0..MaxTools : Dispatch(n)
  /\ UNCHANGED <<run, sipVars, callEnded, frames, aout, cutoff, interrupted,
                 late, terminal, effect, dispo, forced>>

\* _LLMFailure: an apology is queued and the call is over at once.
LlmFails ==
  /\ conv = "llm"
  /\ queued' = Enqueue(1)
  /\ terminal' = "error"
  /\ callEnded' = TRUE
  /\ conv' = "over"
  /\ UNCHANGED <<run, sipVars, frames, aout, cutoff, interrupted, late, tool,
                 todo, effect, dispo, forced>>

\* An answer of another shape, such as a message that is null.
LlmCrashes ==
  /\ conv = "llm"
  /\ ConvDies
  /\ UNCHANGED <<run, sipVars, callEnded, speechVars, terminal, effect, dispo, forced>>

\* A terminal tool: its speech is queued, no further tool is dispatched.
Terminate ==
  /\ terminal' = tool
  /\ queued' = Enqueue(1)
  /\ conv' = "drain"
  /\ UNCHANGED <<tool, todo>>

\* Mutant of ToolOk: the loop over the tool calls does not return.
ChattyToolOk ==
  /\ conv = "tool" /\ tool \in Asking
  /\ effect' = effect \cup {tool}
  /\ terminal' = tool
  /\ queued' = Enqueue(1)
  /\ Dispatch(todo)
  /\ UNCHANGED <<run, sipVars, callEnded, frames, aout, cutoff, interrupted,
                 late, dispo, forced>>

\* ViciDial does what the tool asks for and says so.
ToolOk ==
  /\ conv = "tool" /\ tool \in Asking
  /\ effect' = effect \cup {tool}
  /\ Terminate
  /\ UNCHANGED <<run, sipVars, callEnded, frames, aout, cutoff, interrupted,
                 late, dispo, forced>>

\* Mutant of ToolFails: what _post returns is not looked at.
TrustingToolFails ==
  /\ conv = "tool" /\ tool \in Asking
  /\ effect' \in {effect, effect \cup {tool}}
  /\ Terminate
  /\ UNCHANGED <<run, sipVars, callEnded, frames, aout, cutoff, interrupted,
                 late, dispo, forced>>

\* ViciDial refuses, or its answer is lost and it may have done it all the
\* same.  mark_dnc does not look at the result.
ToolFails ==
  /\ conv = "tool" /\ tool \in Asking
  /\ effect' \in {effect, effect \cup {tool}}
  /\ \/ tool = "dnc" /\ Terminate
     \/ tool # "dnc" /\ Dispatch(todo) /\ UNCHANGED <<terminal, queued>>
  /\ UNCHANGED <<run, sipVars, callEnded, frames, aout, cutoff, interrupted,
                 late, dispo, forced>>

\* A tool that only says how the call went.
EndTool ==
  /\ conv = "tool" /\ tool = "end"
  /\ Terminate
  /\ UNCHANGED <<run, sipVars, callEnded, frames, aout, cutoff, interrupted,
                 late, effect, dispo, forced>>

\* Feedback for the LLM, which asks for nothing.
BadTool ==
  /\ conv = "tool" /\ tool = "bad"
  /\ Dispatch(todo)
  /\ UNCHANGED <<run, sipVars, callEnded, speechVars, terminal, effect, dispo,
                 forced>>

\* search_kb: the LLM is called once more, with the result.
KbReply ==
  /\ conv = "tool" /\ tool = "kb"
  /\ conv' = "follow"
  /\ UNCHANGED <<run, sipVars, callEnded, speechVars, tool, todo, terminal,
                 effect, dispo, forced>>

FollowAnswers ==
  /\ conv = "follow"
  /\ \E content \in 0..1 : queued' = Enqueue(content)
  /\ Dispatch(todo)
  /\ UNCHANGED <<run, sipVars, callEnded, frames, aout, cutoff, interrupted,
                 late, terminal, effect, dispo, forced>>

\* A failure here drops the tool calls that are left; an answer of another shape raises.
FollowFails ==
  /\ conv = "follow"
  /\ Dispatch(0) \/ ConvDies
  /\ UNCHANGED <<run, sipVars, callEnded, speechVars, terminal, effect, dispo,
                 forced>>

\* _await_speech_drain: the queue is empty, or 6 s have passed.
DrainOver ==
  /\ conv = "drain"
  /\ callEnded' = TRUE
  /\ conv' = "over"
  /\ UNCHANGED <<run, sipVars, speechVars, tool, todo, terminal, effect, dispo,
                 forced>>

LlmReplies  == LlmAnswers \/ LlmFails \/ LlmCrashes
ToolReplies == ToolOk \/ ToolFails \/ EndTool \/ BadTool \/ KbReply
FollowUp    == FollowAnswers \/ FollowFails
----------------------------------------------------------------------------
(***************************************************************************)
(* The end of the call.                                                    *)
(***************************************************************************)
\* A request that is cancelled may still be carried out.
AbandonRequest ==
  effect' \in {effect, IF conv = "tool" /\ tool \in Asking
                       THEN effect \cup {tool} ELSE effect}

\* _stream_tts catches the CancelledError: run() goes on to the next request.
SpeakerAfterCancel == IF aout = "stream" THEN "get" ELSE "over"

\* t.cancel() on every task; each meets it at the await it is in.
CancelTasks ==
  /\ reader' = FALSE /\ writer' = FALSE
  /\ aout' = SpeakerAfterCancel
  /\ conv' = "over"
  /\ AbandonRequest

\* run() wakes up; its finally cancels the tasks and gathers them.
CallEnds ==
  /\ run = "running" /\ callEnded
  /\ run' = "gather"
  /\ CancelTasks
  /\ UNCHANGED <<peer, callEnded, frames, queued, cutoff, interrupted, late, tool,
                 todo, terminal, dispo, forced>>

\* __aexit__: _cleanup first reads terminal_result.
Gathered ==
  /\ run = "gather"
  /\ ~reader /\ ~writer /\ aout = "over" /\ conv = "over"
  /\ run' = "close"
  /\ dispo' = IF terminal = "none" THEN "abandon" ELSE terminal
  /\ UNCHANGED <<sipVars, callEnded, speechVars, convVars, forced>>

\* The pipelines, HANGUP and close, the disposition, the recording, the row of
\* the call: a step that fails is logged and the next one follows.
CleanUp ==
  /\ \/ run = "close"  /\ run' = "hangup"
     \/ run = "hangup" /\ run' = "dispo"
     \/ run = "dispo"  /\ run' = "record"
     \/ run = "record" /\ run' = "row"
     \/ run = "row"    /\ run' = "done"
  /\ UNCHANGED <<sipVars, callEnded, speechVars, convVars, dispo, forced>>

\* The supervisor's drain ran out of time: it cancels this call's task, once.
ForceCancel ==
  /\ ~forced
  /\ forced' = TRUE
  /\ \/ /\ run \in {"connect", "context", "load"}
        /\ run' = "failed"
        /\ UNCHANGED <<reader, writer, aout, conv, effect>>
     \/ /\ run \in {"running", "gather"}
        /\ run' = "gather"
        /\ CancelTasks
     \/ /\ run \in Cleanup
        /\ run' = "cut"
        /\ UNCHANGED <<reader, writer, aout, conv, effect>>
  /\ UNCHANGED <<peer, callEnded, frames, queued, cutoff, interrupted, late, tool,
                 todo, terminal, dispo>>
----------------------------------------------------------------------------
Next ==
  \/ SetUp \/ Ready \/ PeerLeaves \/ ReadEnds \/ WriteFrame
  \/ NextSpeech \/ StreamChunk \/ StreamCut \/ StreamEnd \/ BargeIn
  \/ TakeFinal \/ DelayOver \/ LlmReplies \/ ToolReplies \/ FollowUp \/ DrainOver
  \/ CallEnds \/ Gathered \/ CleanUp \/ ForceCancel

Spec == Init /\ [][Next]_vars

(***************************************************************************)
(* Fairness: the event loop runs what can run, timers fire, and the HTTP   *)
(* clients have time-outs, so a request is answered or fails and a stream  *)
(* of speech ends.  Nobody has to speak, to hang up or to stop the worker. *)
(***************************************************************************)
Fairness ==
  /\ WF_vars(SetUp \/ Ready)
  /\ WF_vars(ReadEnds) /\ WF_vars(WriteFrame)
  /\ WF_vars(NextSpeech) /\ WF_vars(StreamCut \/ StreamEnd)
  /\ WF_vars(DelayOver) /\ WF_vars(LlmReplies) /\ WF_vars(ToolReplies)
  /\ WF_vars(FollowUp) /\ WF_vars(DrainOver)
  /\ WF_vars(CallEnds) /\ WF_vars(Gathered) /\ WF_vars(CleanUp)

FairSpec == Spec /\ Fairness
----------------------------------------------------------------------------
(***************************************************************************)
(* Properties.                                                             *)
(***************************************************************************)
\* A barge-in cuts off the request the caller spoke over and never a later
\* one: whenever a request is being spoken with the cancel event set, this
\* very request was interrupted (audio_out.py clears the event per request).
BargeInHitsItsTarget == aout = "stream" /\ cutoff => interrupted

\* After a barge-in at most the padded rest of the interrupted request is
\* still queued for the caller: no further chunk of it (_stream_tts).
QuietAfterBargeIn == late <= 1

\* A barge-in silences the request it hits, and no other, in a speech queue that is bounded.
BargeInIsClean == TypeOK /\ BargeInHitsItsTarget /\ QuietAfterBargeIn

\* Once a tool has ended the call, no tool is dispatched and the LLM is not
\* asked again ("Don't dispatch any further tool calls past a terminal one").
NothingAfterTerminal ==
  [][terminal # "none" => conv' \in {"drain", "over"} /\ effect' = effect]_vars

\* A call is disposed as transferred, or as to be called back, only if
\* ViciDial has done that, whatever was lost, late or cancelled on the way.
HonestDisposition == dispo \in {"transfer", "callback"} => dispo \in effect

\* A tool that ends the call does end it: run() goes on to stop its tasks,
\* also when the speech queue is full or the caller interrupts.
TerminalEndsCall == (terminal # "none") ~> (run # "running")

\* The speaker's task was cancelled while it streamed, and waits for a request
\* that nobody will queue (audio_out.py:153).
DeafSpeaker == run = "gather" /\ aout = "get" /\ queued = 0

\* A call that has ended, or whose task was cancelled, reaches the end of its
\* clean-up, unless that is cut off by the supervisor; the only thing that can
\* keep it from that is a deaf speaker.
EndedIsCleanedUp ==
  (callEnded \/ forced) ~> (run \in {"done", "cut", "failed"} \/ DeafSpeaker)

\* The life of a call ends once: with its terminal tool, then its tasks, then its clean-up.
CallEndsOnce == NothingAfterTerminal /\ TerminalEndsCall /\ EndedIsCleanedUp

\* "run() returns when the call has fully ended (caller hangup, AI-terminal
\* tool, error fallback, or shutdown)" (call_session.py:8).
RunReturns == callEnded ~> (run \notin {"running", "gather"})
=============================================================================
