---------------------------- MODULE SpeechStream ----------------------------
(***************************************************************************)
(* The caller's speech on its way to text: the worker's AudioInPipeline    *)
(* (audio_in.py) and the recognition server's websocket (streaming.py).    *)
(* Audio is numbered blocks of the voice detector's size.  The detector    *)
(* sees where speech starts and ends; its events come once, and a segment  *)
(* that the cap closed does not start again until the detector has ended.  *)
(***************************************************************************)
EXTENDS Naturals, Sequences, SequencesExt, FiniteSetsExt

CONSTANTS Blocks,     \* bound on the caller's blocks
          FramesMax,  \* maxsize of _frames_in
          CapBlocks   \* a segment may reach max_segment_sec after this many blocks

VARIABLES fed,        \* blocks that feed() was called with
          frames,     \* _frames_in
          socket,     \* connecting, open, ended (the client sent "end"), closed
          wire,       \* messages to the server
          talking,    \* the detector is between start and end
          active,     \* speech_started_at is set
          buffer,     \* speech_buffer
          handler,    \* receive, partial, final, closing: where stream() is
          last,       \* last_partial_text, partial_repeat_count
          partials,   \* history: the partials sent of the open segment
          spoken,     \* blocks the detector takes for speech
          capped,     \* blocks of speech after the cap, dropped
          finals      \* segments that came back as a final

worker == <<fed, frames>>
segment == <<talking, active, buffer, spoken, capped, last, partials>>
vars == <<worker, socket, wire, handler, segment, finals>>

\* What Whisper makes of a segment so far: any text, an empty one too.
Texts == {<<>>, <<"a">>, <<"a", "b">>}
NoText == [text |-> <<>>, repeats |-> 0]

Init == /\ fed = 0 /\ frames = <<>> /\ socket = "connecting" /\ wire = <<>>
        /\ talking = FALSE /\ active = FALSE /\ buffer = <<>> /\ handler = "receive"
        /\ spoken = {} /\ capped = {} /\ finals = <<>>
        /\ last = NoText /\ partials = <<>>

----------------------------------------------------------------------------
(* The worker. *)

\* feed(): a full queue refuses the newest frame; after run() is over it only fills up.
Feed == /\ fed < Blocks
        /\ fed' = fed + 1
        /\ frames' = IF Len(frames) < FramesMax THEN Append(frames, fed + 1) ELSE frames
        /\ UNCHANGED <<socket, wire, handler, segment, finals>>

\* run(): a connection that fails is not tried again.
Connect == /\ socket = "connecting"
           /\ socket' \in {"open", "closed"}
           /\ UNCHANGED <<worker, wire, handler, segment, finals>>

Send == /\ socket = "open" /\ frames # <<>>
        /\ wire' = Append(wire, Head(frames))
        /\ frames' = Tail(frames)
        /\ UNCHANGED <<fed, socket, handler, segment, finals>>

\* stop(): "end", and the close of the socket behind it.
Stop == /\ socket = "open"
        /\ socket' = "ended"
        /\ UNCHANGED <<worker, wire, handler, segment, finals>>

\* The connection breaks; both ends find out.
Break == /\ socket \in {"open", "ended"}
         /\ socket' = "closed" /\ wire' = <<>>
         /\ UNCHANGED <<worker, handler, segment, finals>>

----------------------------------------------------------------------------
(* stream(): one message at a time. *)

Clear == active' = FALSE /\ buffer' = <<>> /\ last' = NoText /\ partials' = <<>>

\* What _handle_audio does with a block and the detector's event before it emits: the
\* block of the start event and that of the end event belong to the speech.
Hear(block, event) ==
  /\ talking' = CASE event = "start" -> TRUE [] event = "end" -> FALSE [] OTHER -> talking
  /\ spoken' = IF talking \/ event # "none" THEN spoken \cup {block} ELSE spoken
  /\ capped' = IF talking /\ ~active THEN capped \cup {block} ELSE capped
  /\ buffer' = IF active \/ event # "none" THEN Append(buffer, block) ELSE buffer
  /\ active' = (active \/ event = "start")
  /\ last' = IF event = "start" /\ ~active THEN NoText ELSE last

HandleAudio ==
  /\ handler = "receive" /\ socket \in {"open", "ended"} /\ wire # <<>>
  /\ wire' = Tail(wire)
  /\ \E event \in IF talking THEN {"none", "end"} ELSE {"none", "start"} :
       /\ Hear(Head(wire), event)
       /\ \/ handler' = IF event = "end" /\ active THEN "final" ELSE "receive"
          \/ /\ active' /\ Len(buffer') >= CapBlocks   \* the cap: at once, or later
             /\ event = "none"
             /\ handler' = "final"
          \/ /\ active' /\ event # "end"              \* the partial's interval is over
             /\ handler' = "partial"
  /\ UNCHANGED <<worker, socket, partials, finals>>

\* How far a partial is trusted, in tenths: barge-in waits for a high one.
Stability(prev, text, repeats) ==
  IF text = <<>> THEN 0
  ELSE IF text = prev THEN IF repeats < 4 THEN 5 + repeats ELSE 9
  ELSE IF prev # <<>> /\ IsPrefix(prev, text) THEN 7 ELSE 4

Partial(text) ==
  LET repeats == IF text = last.text THEN last.repeats + 1 ELSE 0 IN
    /\ last' = [text |-> text, repeats |-> repeats]
    /\ partials' = Append(partials, [text |-> text,
                                     stability |-> Stability(last.text, text, repeats)])

\* _emit_partial: too little audio makes none.
EmitPartial ==
  /\ handler = "partial"
  /\ handler' = "receive"
  /\ \/ UNCHANGED <<last, partials>>
     \/ \E text \in Texts : Partial(text)
  /\ UNCHANGED <<worker, socket, wire, talking, active, buffer, spoken, capped, finals>>

\* _emit_final and _reset_segment, after whisper; to a client that is gone, nothing.
EmitFinal ==
  /\ handler = "final"
  /\ finals' = IF socket \in {"open", "ended"} THEN Append(finals, buffer) ELSE finals
  /\ Clear
  /\ handler' = "receive"
  /\ UNCHANGED <<worker, socket, wire, talking, spoken, capped>>

\* Mutant of Finalize: the client's end closes the socket at once.
AbruptFinalize == /\ handler = "receive" /\ socket = "ended" /\ wire = <<>>
                  /\ handler' = "closing"
                  /\ UNCHANGED <<worker, socket, wire, segment, finals>>

\* The "end" message: the open segment is emitted, then stream() closes.
Finalize == /\ handler = "receive" /\ socket = "ended" /\ wire = <<>>
            /\ finals' = IF active /\ buffer # <<>> THEN Append(finals, buffer) ELSE finals
            /\ Clear
            /\ handler' = "closing"
            /\ UNCHANGED <<worker, socket, wire, talking, spoken, capped>>

\* Whisper raises: the handler crashes, reports and closes the socket.
Crash == /\ handler \in {"partial", "final"} /\ socket \in {"open", "ended"}
         /\ handler' = "closing" /\ socket' = "closed" /\ wire' = <<>>
         /\ UNCHANGED <<worker, segment, finals>>

Close == /\ \/ socket = "closed" /\ handler = "receive"
            \/ socket # "closed" /\ handler = "closing"
         /\ handler' = "closing" /\ socket' = "closed" /\ wire' = <<>>
         /\ UNCHANGED <<worker, segment, finals>>

Server == HandleAudio \/ EmitPartial \/ EmitFinal \/ Finalize \/ Close

Next == Feed \/ Connect \/ Send \/ Stop \/ Break \/ Server \/ Crash

Spec == Init /\ [][Next]_vars
\* Both loops run; the caller need not speak, and the detector need not see an end.
FairSpec == Spec /\ WF_vars(Send) /\ WF_vars(Server)

----------------------------------------------------------------------------
Heard == UNION {ToSet(finals[i]) : i \in DOMAIN finals}

\* No block is transcribed twice, and the text comes in the order it was spoken.
TextInOrder == LET all == FlattenSeq(finals) \o buffer IN
  \A i, j \in DOMAIN all : i < j => all[i] < all[j]

\* While the socket lives the server loses no speech it has seen but what follows the cap
\* within one utterance.
SpeechIsKept == socket \in {"open", "ended"} /\ handler # "closing" =>
  spoken \subseteq Heard \cup ToSet(buffer) \cup capped

\* A partial is trusted more than a first hearing only when the partial before it, of the
\* same utterance, said the same or its beginning: what stops the agent's speech is never
\* text of an earlier utterance, or heard once (_stability, _reset_segment).
StableIsHeardTwice ==
  \A i \in DOMAIN partials : partials[i].stability > 4 =>
    i > 1 /\ partials[i - 1].text # <<>> /\ IsPrefix(partials[i - 1].text, partials[i].text)

\* "end" lets the open segment come out: what was spoken when the client stopped is in a
\* final, unless the connection breaks first.
LastWordsComeOut ==
  socket = "ended" /\ handler = "closing" => spoken \subseteq Heard \cup capped

\* The end of an utterance is followed by its text, and the client's end by the close.
SegmentComesBack ==
  /\ handler = "final" ~> handler # "final"
  /\ socket = "ended" ~> socket = "closed"

\* What the call may rely on of the recognition of one side of it (streaming.py).
SpeechIsTranscribed ==
  /\ [](TextInOrder /\ SpeechIsKept /\ StableIsHeardTwice /\ LastWordsComeOut)
  /\ SegmentComesBack
=============================================================================
