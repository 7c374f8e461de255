------------------------------ MODULE WorkerCall ------------------------------
(***************************************************************************)
(* What the worker process does for one call: the session of CallSession,  *)
(* for MCWorker, which runs it beside the pool of calls, and for           *)
(* CallSessionProofs.                                                      *)
(***************************************************************************)
EXTENDS Naturals

CONSTANTS QueueSize, MaxTools     \* of CallSession

VARIABLES run, peer, callEnded, reader, writer, frames, aout, queued, cutoff, interrupted,
          late, conv, tool, todo, terminal, effect, dispo, forced
callVars == <<run, peer, callEnded, reader, writer, frames, aout, queued, cutoff, interrupted,
     late, conv, tool, todo, terminal, effect, dispo, forced>>
C == INSTANCE CallSession

\* A barge-in silences the request it hits, and no other (_barge_in_loop, _stream_tts).
BargeInIsClean == C!BargeInIsClean
\* A call is disposed as what ViciDial has done for it (_cleanup).
HonestDisposition == C!HonestDisposition
\* The life of a call ends once: its terminal tool, its tasks, its clean-up (run, __aexit__).
CallEndsOnce == C!CallEndsOnce
==============================================================================
