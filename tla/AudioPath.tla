----------------------------- MODULE AudioPath -----------------------------
(***************************************************************************)
(* The audio of one bridged call (audio_bridge.py): PJSIP's media thread   *)
(* puts the caller's frames in _inbound, the writer thread moves them to   *)
(* the worker's unix socket; the reader thread moves the worker's frames   *)
(* from the socket to _outbound, from which the media thread plays them.   *)
(* Frames are numbered per direction.  One action is one critical section  *)
(* of _lock or one socket call.  The other frame types are in SipCalls.    *)
(***************************************************************************)
EXTENDS Naturals, Sequences, FiniteSets

CONSTANTS Frames,          \* bound: frames of each direction
          QUEUE_MAX_FRAMES,
          WireMax          \* frames the socket's buffer takes before sendall blocks

\* A deque of maxlen 0 would take no frame; the code's has room for 50.
ASSUME SizeAssumption == QUEUE_MAX_FRAMES \in Nat \ {0}

VARIABLES rtp,       \* frames of the caller so far (onFrameReceived)
          inbound,   \* _inbound
          hand,      \* the frame the writer has taken and is sending, or 0
          wireIn,    \* sent to the worker, not yet read by it
          heard,     \* frames the worker has read
          speech,    \* frames the worker has sent so far
          wireOut,   \* sent by the worker, not yet read
          outbound,  \* _outbound
          played,    \* frames played to the caller
          dropped,   \* aipanel_sip_audio_frames_dropped_total
          lost,      \* frames gone with the socket, per direction
          setup,     \* the bridge's: "listening", "accepted", "attached" (the call's media)
          peer,      \* the worker's end of the socket is open
          shutdown,  \* _shutdown
          closed     \* close() has run

inVars  == <<rtp, inbound, hand, wireIn, heard>>
outVars == <<speech, wireOut, outbound, played>>
endVars == <<setup, peer, shutdown, closed>>
vars    == <<inVars, outVars, endVars, dropped, lost>>

Init == /\ rtp = 0 /\ inbound = <<>> /\ hand = 0 /\ wireIn = <<>> /\ heard = <<>>
        /\ speech = 0 /\ wireOut = <<>> /\ outbound = <<>> /\ played = <<>>
        /\ dropped = 0 /\ lost = [in |-> 0, out |-> 0]
        /\ setup = "listening" /\ peer = FALSE /\ shutdown = FALSE /\ closed = FALSE

\* accept_worker(): the socket's two threads start; a worker that does not come in
\* time leaves Close.
AcceptWorker == /\ setup = "listening" /\ ~closed
                /\ setup' = "accepted" /\ peer' = TRUE
                /\ UNCHANGED <<inVars, outVars, dropped, lost, shutdown, closed>>

\* onCallMediaState: the media of an answered call is attached, once; what the worker
\* says before that waits in the queue, or overflows it.
AttachMedia == /\ setup = "accepted" /\ ~closed
               /\ setup' = "attached"
               /\ UNCHANGED <<inVars, outVars, dropped, lost, peer, shutdown, closed>>

\* A full deque gives up its oldest frame.
Enqueue(q, f) == Append(IF Len(q) >= QUEUE_MAX_FRAMES THEN Tail(q) ELSE q, f)

Overflows(q) == IF Len(q) >= QUEUE_MAX_FRAMES THEN 1 ELSE 0

\* Mutant of EnqueueInbound: a full queue refuses the newest frame instead.
StaleEnqueueInbound == /\ rtp' = rtp + 1
                       /\ inbound' = IF Len(inbound) >= QUEUE_MAX_FRAMES THEN inbound
                                     ELSE Append(inbound, rtp + 1)
                       /\ dropped' = dropped + Overflows(inbound)
                       /\ UNCHANGED <<hand, wireIn, heard, outVars, endVars, lost>>

EnqueueInbound == /\ rtp' = rtp + 1
                  /\ inbound' = Enqueue(inbound, rtp + 1)
                  /\ dropped' = dropped + Overflows(inbound)
                  /\ UNCHANGED <<hand, wireIn, heard, outVars, endVars, lost>>

\* The port's callbacks, once the media is attached and until close() stops the port; a
\* request that finds the queue empty is answered with silence.
OnFrameReceived == setup = "attached" /\ ~closed /\ rtp < Frames /\ EnqueueInbound

DequeueOutbound == /\ outbound # <<>>
                   /\ played' = Append(played, Head(outbound))
                   /\ outbound' = Tail(outbound)
                   /\ UNCHANGED <<inVars, speech, wireOut, endVars, dropped, lost>>

OnFrameRequested == setup = "attached" /\ ~closed /\ DequeueOutbound

WriterTakes == /\ ~shutdown /\ hand = 0 /\ inbound # <<>>
               /\ hand' = Head(inbound)
               /\ inbound' = Tail(inbound)
               /\ UNCHANGED <<rtp, wireIn, heard, outVars, endVars, dropped, lost>>

\* Mutant of WriterSends: a failed send is retried, behind what came meanwhile.
RetryingWriterSends == /\ hand # 0
                       /\ hand' = 0
                       /\ IF Len(wireIn) < WireMax
                          THEN /\ wireIn' = Append(wireIn, hand)
                               /\ UNCHANGED inbound
                          ELSE /\ inbound' = Append(inbound, hand)
                               /\ UNCHANGED wireIn
                       /\ UNCHANGED <<rtp, heard, outVars, endVars, dropped, lost>>

\* _send(): sendall blocks on a full buffer and raises once either end is closed.
WriterSends == /\ hand # 0
               /\ hand' = 0
               /\ IF closed \/ ~peer
                  THEN /\ shutdown' = TRUE
                       /\ lost' = [lost EXCEPT !.in = @ + 1]
                       /\ UNCHANGED wireIn
                  ELSE /\ Len(wireIn) < WireMax
                       /\ wireIn' = Append(wireIn, hand)
                       /\ UNCHANGED <<shutdown, lost>>
               /\ UNCHANGED <<rtp, inbound, heard, outVars, setup, peer, closed, dropped>>

\* The reader's critical section for AUDIO_OUT (read_frame took it from the socket).
ReaderEnqueues == /\ ~shutdown /\ wireOut # <<>>
                  /\ outbound' = Enqueue(outbound, Head(wireOut))
                  /\ dropped' = dropped + Overflows(outbound)
                  /\ wireOut' = Tail(wireOut)
                  /\ UNCHANGED <<inVars, speech, played, endVars, lost>>

\* close(): the port stops, the sockets close; what the worker has not read yet it
\* still can, what it sent is gone.
Close == /\ ~closed
         /\ closed' = TRUE /\ shutdown' = TRUE
         /\ lost' = [lost EXCEPT !.out = @ + Len(wireOut)]
         /\ wireOut' = <<>>
         /\ UNCHANGED <<inVars, speech, outbound, played, setup, peer, dropped>>

----------------------------------------------------------------------------
(* The worker's end: CallSession reads AUDIO_IN and writes AUDIO_OUT. *)

WorkerReads == /\ peer /\ wireIn # <<>>
               /\ heard' = Append(heard, Head(wireIn))
               /\ wireIn' = Tail(wireIn)
               /\ UNCHANGED <<rtp, inbound, hand, outVars, endVars, dropped, lost>>

WorkerSpeaks == /\ peer /\ ~closed /\ speech < Frames /\ Len(wireOut) < WireMax
                /\ speech' = speech + 1
                /\ wireOut' = Append(wireOut, speech + 1)
                /\ UNCHANGED <<inVars, outbound, played, endVars, dropped, lost>>

WorkerLeaves == /\ peer
                /\ peer' = FALSE
                /\ lost' = [lost EXCEPT !.in = @ + Len(wireIn)]
                /\ wireIn' = <<>>
                /\ UNCHANGED <<rtp, inbound, hand, heard, outVars, setup, shutdown, closed, dropped>>

Next == \/ AcceptWorker \/ AttachMedia \/ OnFrameReceived \/ OnFrameRequested
        \/ WriterTakes \/ WriterSends \/ ReaderEnqueues \/ Close
        \/ WorkerReads \/ WorkerSpeaks \/ WorkerLeaves

Spec == Init /\ [][Next]_vars

Fairness == /\ WF_vars(WriterTakes) /\ WF_vars(WriterSends)
            /\ WF_vars(ReaderEnqueues) /\ WF_vars(OnFrameRequested) /\ WF_vars(WorkerReads)

FairSpec == Spec /\ Fairness

----------------------------------------------------------------------------
(* Each direction is a lossy queue that keeps the order. *)

CallerToWorker == INSTANCE LossyFifo WITH produced <- rtp, arrived <- heard
WorkerToCaller == INSTANCE LossyFifo WITH produced <- speech, arrived <- played

\* Neither the writer's hand-over outside the lock nor the overflow reorders or repeats
\* a frame, whatever the threads do (_write_loop, _read_loop).
AudioKeepsOrder == CallerToWorker!Spec /\ WorkerToCaller!Spec

\* The drop counter is exact: every frame is in a queue, on the wire, arrived, counted
\* as dropped, or gone with the socket (popleft and _on_dropped under one lock).
FramesAreAccounted ==
  rtp + speech = dropped + lost.in + lost.out + (IF hand = 0 THEN 0 ELSE 1)
                 + Len(inbound) + Len(wireIn) + Len(heard)
                 + Len(wireOut) + Len(outbound) + Len(played)

\* An overflow costs the oldest audio, never the newest: what the caller said last is
\* still on its way, whatever the backlog, unless the socket is gone.
LatestSpeechSurvives ==
  rtp # 0 /\ lost.in = 0 => \E s \in {inbound, wireIn, heard, <<hand>>} :
                              s # <<>> /\ s[Len(s)] = rtp

\* The worker gets what the caller says last unless the call ends or the worker leaves.
CallerIsHeard ==
  \A n \in 1..Frames :
    rtp = n ~> (shutdown \/ ~peer \/ (heard # <<>> /\ heard[Len(heard)] >= n))

\* Types, and the bound of the queues.
TypeOK == /\ rtp \in 0..Frames /\ speech \in 0..Frames /\ hand \in 0..Frames
          /\ \A q \in {inbound, outbound} : q \in Seq(1..Frames) /\ Len(q) <= QUEUE_MAX_FRAMES
          /\ \A q \in {wireIn, wireOut} : q \in Seq(1..Frames) /\ Len(q) <= WireMax
          /\ heard \in Seq(1..Frames) /\ played \in Seq(1..Frames)
          /\ dropped \in Nat /\ lost \in [in : Nat, out : Nat]
          /\ setup \in {"listening", "accepted", "attached"}
          /\ peer \in BOOLEAN /\ shutdown \in BOOLEAN /\ closed \in BOOLEAN

\* No audio is lost but by an overflow or with the socket, and the newest gets through.
LatestAudioArrives == [](TypeOK /\ FramesAreAccounted /\ LatestSpeechSurvives) /\ CallerIsHeard
=============================================================================
