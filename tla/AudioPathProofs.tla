--------------------------- MODULE AudioPathProofs ---------------------------
(***************************************************************************)
(* Each direction of a call's audio implements LossyFifo, for any number   *)
(* of frames and any sizes of the queues.                                  *)
(***************************************************************************)
EXTENDS AudioPath, TLAPS

Numbers == Nat \ {0}

\* The frames in a queue, and queues whose frames are in order.
In(q) == {q[i] : i \in DOMAIN q}
Ordered(q) == \A i, j \in DOMAIN q : i < j => q[i] < q[j]
Precede(S, T) == \A x \in S, y \in T : x < y
Queue(q) == q \in Seq(Numbers) /\ Ordered(q)

Held == IF hand = 0 THEN {} ELSE {hand}

\* The places of a direction, from the consumer back to the producer: what is in one was
\* produced before what is in the next.
CallerInOrder ==
  /\ rtp \in Nat /\ hand \in Nat
  /\ Queue(heard) /\ Queue(wireIn) /\ Queue(inbound)
  /\ Precede(In(heard), In(wireIn) \cup Held \cup In(inbound))
  /\ Precede(In(wireIn), Held \cup In(inbound))
  /\ Precede(Held, In(inbound))
  /\ \A x \in In(heard) \cup In(wireIn) \cup Held \cup In(inbound) : x <= rtp

AgentInOrder ==
  /\ speech \in Nat
  /\ Queue(played) /\ Queue(outbound) /\ Queue(wireOut)
  /\ Precede(In(played), In(outbound) \cup In(wireOut))
  /\ Precede(In(outbound), In(wireOut))
  /\ \A x \in In(played) \cup In(outbound) \cup In(wireOut) : x <= speech

InOrder == CallerInOrder /\ AgentInOrder

----------------------------------------------------------------------------
(* Queues. *)

\* An empty queue is in order.
LEMMA EmptyQueue == Queue(<<>>) /\ In(<<>>) = {}
  BY DEF Queue, In, Ordered, Numbers

\* Frames are numbers.
LEMMA InNumbers == ASSUME NEW q, Queue(q) PROVE In(q) \subseteq Numbers
  BY DEF Queue, In

\* A newer frame at the end keeps the order (deque.append, the socket).
LEMMA AppendQueue ==
  ASSUME NEW q, Queue(q), NEW f \in Numbers, \A x \in In(q) : x < f
  PROVE  Queue(Append(q, f)) /\ In(Append(q, f)) = In(q) \cup {f}
  <1> DEFINE r == Append(q, f)
  <1>1. q \in Seq(Numbers) /\ Len(q) \in Nat /\ DOMAIN q = 1..Len(q)
    BY DEF Queue
  <1>2. /\ r \in Seq(Numbers) /\ DOMAIN r = 1..Len(q) + 1
        /\ \A i \in DOMAIN q : r[i] = q[i]
        /\ r[Len(q) + 1] = f
    BY <1>1
  <1> HIDE DEF r
  <1>3. \A i \in DOMAIN q : q[i] < f
    BY DEF In
  <1>4. \A i \in DOMAIN r : i \in DOMAIN q \/ i = Len(q) + 1
    BY <1>1, <1>2
  <1>5. Ordered(r)
    BY <1>1, <1>2, <1>3, <1>4 DEF Ordered, Queue
  <1>6. In(r) = In(q) \cup {f}
    BY <1>1, <1>2, <1>4 DEF In
  <1> QED BY <1>2, <1>5, <1>6 DEF Queue, r

\* The head of a queue is older than the rest of it (popleft).
LEMMA TailQueue ==
  ASSUME NEW q, Queue(q), q # <<>>
  PROVE  /\ Queue(Tail(q)) /\ In(Tail(q)) \subseteq In(q)
         /\ Head(q) \in In(q) /\ Head(q) \in Numbers
         /\ \A x \in In(Tail(q)) : Head(q) < x
  BY DEF Queue, In, Ordered, Numbers

\* The same for a bounded queue that gives up its oldest frame (_inbound, _outbound).
LEMMA EnqueueQueue ==
  ASSUME NEW q, Queue(q), NEW f \in Numbers, \A x \in In(q) : x < f
  PROVE  Queue(Enqueue(q, f)) /\ In(Enqueue(q, f)) \subseteq In(q) \cup {f}
  <1>1. CASE Len(q) >= QUEUE_MAX_FRAMES
    <2>1. q # <<>>
      BY <1>1, SizeAssumption DEF Queue
    <2>2. /\ Queue(Tail(q)) /\ In(Tail(q)) \subseteq In(q)
      BY <2>1, TailQueue
    <2>3. Queue(Append(Tail(q), f)) /\ In(Append(Tail(q), f)) = In(Tail(q)) \cup {f}
      BY <2>2, AppendQueue
    <2> QED BY <1>1, <2>2, <2>3 DEF Enqueue
  <1>2. CASE ~(Len(q) >= QUEUE_MAX_FRAMES)
    BY <1>2, AppendQueue DEF Enqueue
  <1> QED BY <1>1, <1>2

----------------------------------------------------------------------------
(* The caller's frames. *)

\* Both directions start in order.
LEMMA InitInOrder == Init => InOrder
  BY EmptyQueue DEF Init, InOrder, CallerInOrder, AgentInOrder, Precede, Held

\* OnFrameReceived: the new frame is newer than all others of the caller.
LEMMA ReceivedInOrder == CallerInOrder /\ EnqueueInbound => CallerInOrder'
  <1> SUFFICES ASSUME CallerInOrder, EnqueueInbound PROVE CallerInOrder'
    OBVIOUS
  <1>1. rtp + 1 \in Numbers /\ \A x \in In(inbound) : x < rtp + 1
    <2>1. \A x \in In(inbound) : x \in Nat /\ x <= rtp
      BY InNumbers DEF CallerInOrder, Numbers
    <2> QED BY <2>1 DEF CallerInOrder, Numbers
  <1>2. Queue(inbound') /\ In(inbound') \subseteq In(inbound) \cup {rtp + 1}
    BY <1>1, EnqueueQueue DEF CallerInOrder, EnqueueInbound
  <1>3. \A x \in In(heard) \cup In(wireIn) \cup Held : x \in Nat /\ x < rtp + 1
    BY InNumbers DEF CallerInOrder, Held, Numbers
  <1>4. \A x \in In(inbound) : x \in Nat /\ x <= rtp + 1
    BY InNumbers DEF CallerInOrder, Numbers
  <1>5. Held' = Held
    BY DEF EnqueueInbound, Held
  <1> QED BY <1>1, <1>2, <1>3, <1>4, <1>5 DEF CallerInOrder, EnqueueInbound, Precede

\* WriterTakes: the frame in the writer's hand is older than what stays in the queue.
LEMMA TakesInOrder == CallerInOrder /\ WriterTakes => CallerInOrder'
  <1> SUFFICES ASSUME CallerInOrder, WriterTakes PROVE CallerInOrder'
    OBVIOUS
  <1>1. /\ Queue(inbound') /\ In(inbound') \subseteq In(inbound)
        /\ hand' \in In(inbound) /\ hand' \in Numbers
        /\ \A x \in In(inbound') : hand' < x
    BY TailQueue DEF CallerInOrder, WriterTakes
  <1>2. Held = {} /\ Held' = {hand'}
    BY <1>1 DEF WriterTakes, Held, Numbers
  <1> QED BY <1>1, <1>2 DEF CallerInOrder, WriterTakes, Precede, Numbers

\* WriterSends: the frame goes behind those on the wire, or is lost.
LEMMA SendsInOrder == CallerInOrder /\ WriterSends => CallerInOrder'
  <1> SUFFICES ASSUME CallerInOrder, WriterSends PROVE CallerInOrder'
    OBVIOUS
  <1>1. Held = {hand} /\ Held' = {} /\ hand \in Numbers
    BY DEF CallerInOrder, WriterSends, Held, Numbers
  <1>2. CASE wireIn' = wireIn
    BY <1>1, <1>2 DEF CallerInOrder, WriterSends, Precede
  <1>3. CASE wireIn' = Append(wireIn, hand)
    <2>1. \A x \in In(wireIn) : x < hand
      BY <1>1 DEF CallerInOrder, Precede
    <2>2. Queue(wireIn') /\ In(wireIn') = In(wireIn) \cup {hand}
      BY <1>1, <1>3, <2>1, AppendQueue DEF CallerInOrder
    <2> QED BY <1>1, <2>2 DEF CallerInOrder, WriterSends, Precede
  <1> QED BY <1>2, <1>3 DEF WriterSends

\* WorkerReads: the worker gets the oldest frame on the wire.
LEMMA ReadsInOrder == CallerInOrder /\ WorkerReads => CallerInOrder'
  <1> SUFFICES ASSUME CallerInOrder, WorkerReads PROVE CallerInOrder'
    OBVIOUS
  <1> DEFINE f == Head(wireIn)
  <1>1. /\ Queue(wireIn') /\ In(wireIn') \subseteq In(wireIn)
        /\ f \in In(wireIn) /\ f \in Numbers /\ \A x \in In(wireIn') : f < x
    BY TailQueue DEF CallerInOrder, WorkerReads
  <1>2. \A x \in In(heard) : x < f
    BY <1>1 DEF CallerInOrder, Precede
  <1>3. Queue(heard') /\ In(heard') = In(heard) \cup {f}
    BY <1>1, <1>2, AppendQueue DEF CallerInOrder, WorkerReads
  <1> HIDE DEF f
  <1>4. Held' = Held
    BY DEF WorkerReads, Held
  <1> QED BY <1>1, <1>3, <1>4 DEF CallerInOrder, WorkerReads, Precede

\* WorkerLeaves: what is on the wire is gone.
LEMMA LeavesInOrder == CallerInOrder /\ WorkerLeaves => CallerInOrder'
  BY EmptyQueue DEF CallerInOrder, WorkerLeaves, Precede, Held

----------------------------------------------------------------------------
(* The agent's frames. *)

\* WorkerSpeaks: the new frame is newer than all others of the agent.
LEMMA SpeaksInOrder == AgentInOrder /\ WorkerSpeaks => AgentInOrder'
  <1> SUFFICES ASSUME AgentInOrder, WorkerSpeaks PROVE AgentInOrder'
    OBVIOUS
  <1>1. \A x \in In(played) \cup In(outbound) \cup In(wireOut) : x \in Nat /\ x < speech + 1
    BY InNumbers DEF AgentInOrder, Numbers
  <1>2. Queue(wireOut') /\ In(wireOut') = In(wireOut) \cup {speech + 1}
    BY <1>1, AppendQueue DEF AgentInOrder, WorkerSpeaks, Numbers
  <1> QED BY <1>1, <1>2 DEF AgentInOrder, WorkerSpeaks, Precede

\* ReaderEnqueues: the oldest frame on the wire goes behind those in the queue.
LEMMA ReaderInOrder == AgentInOrder /\ ReaderEnqueues => AgentInOrder'
  <1> SUFFICES ASSUME AgentInOrder, ReaderEnqueues PROVE AgentInOrder'
    OBVIOUS
  <1> DEFINE f == Head(wireOut)
  <1>1. /\ Queue(wireOut') /\ In(wireOut') \subseteq In(wireOut)
        /\ f \in In(wireOut) /\ f \in Numbers /\ \A x \in In(wireOut') : f < x
    BY TailQueue DEF AgentInOrder, ReaderEnqueues
  <1>2. \A x \in In(outbound) : x < f
    BY <1>1 DEF AgentInOrder, Precede
  <1>3. Queue(outbound') /\ In(outbound') \subseteq In(outbound) \cup {f}
    BY <1>1, <1>2, EnqueueQueue DEF AgentInOrder, ReaderEnqueues
  <1> HIDE DEF f
  <1> QED BY <1>1, <1>3 DEF AgentInOrder, ReaderEnqueues, Precede

\* OnFrameRequested: the caller hears the oldest frame of the queue.
LEMMA PlaysInOrder == AgentInOrder /\ DequeueOutbound => AgentInOrder'
  <1> SUFFICES ASSUME AgentInOrder, DequeueOutbound PROVE AgentInOrder'
    OBVIOUS
  <1> DEFINE f == Head(outbound)
  <1>1. /\ Queue(outbound') /\ In(outbound') \subseteq In(outbound)
        /\ f \in In(outbound) /\ f \in Numbers /\ \A x \in In(outbound') : f < x
    BY TailQueue DEF AgentInOrder, DequeueOutbound
  <1>2. \A x \in In(played) : x < f
    BY <1>1 DEF AgentInOrder, Precede
  <1>3. Queue(played') /\ In(played') = In(played) \cup {f}
    BY <1>1, <1>2, AppendQueue DEF AgentInOrder, DequeueOutbound
  <1> HIDE DEF f
  <1> QED BY <1>1, <1>3 DEF AgentInOrder, DequeueOutbound, Precede

\* Close: what the worker has sent and nobody has read is gone.
LEMMA CloseInOrder == AgentInOrder /\ Close => AgentInOrder'
  BY EmptyQueue DEF AgentInOrder, Close, Precede

----------------------------------------------------------------------------
(* The invariant, and what it says of both directions. *)

\* The caller's half of InOrder looks at the caller's places only, the agent's at the
\* agent's.
LEMMA UnchangedCaller == CallerInOrder /\ UNCHANGED inVars => CallerInOrder'
  BY DEF CallerInOrder, inVars, Held

\* The same for the agent.
LEMMA UnchangedAgent == AgentInOrder /\ UNCHANGED outVars => AgentInOrder'
  BY DEF AgentInOrder, outVars

\* Every step of a thread leaves both directions in order.
LEMMA NextInOrder == InOrder /\ [Next]_vars => InOrder'
  <1> SUFFICES ASSUME InOrder, [Next]_vars PROVE InOrder'
    OBVIOUS
  <1> USE DEF InOrder
  <1>1. CASE AcceptWorker
    BY <1>1, UnchangedCaller, UnchangedAgent DEF AcceptWorker
  <1>2. CASE AttachMedia
    BY <1>2, UnchangedCaller, UnchangedAgent DEF AttachMedia
  <1>3. CASE OnFrameReceived
    BY <1>3, ReceivedInOrder, UnchangedAgent DEF OnFrameReceived, EnqueueInbound
  <1>4. CASE OnFrameRequested
    BY <1>4, PlaysInOrder, UnchangedCaller DEF OnFrameRequested, DequeueOutbound
  <1>5. CASE WriterTakes
    BY <1>5, TakesInOrder, UnchangedAgent DEF WriterTakes
  <1>6. CASE WriterSends
    BY <1>6, SendsInOrder, UnchangedAgent DEF WriterSends
  <1>7. CASE ReaderEnqueues
    BY <1>7, ReaderInOrder, UnchangedCaller DEF ReaderEnqueues
  <1>8. CASE Close
    BY <1>8, CloseInOrder, UnchangedCaller DEF Close
  <1>9. CASE WorkerReads
    BY <1>9, ReadsInOrder, UnchangedAgent DEF WorkerReads
  <1>10. CASE WorkerSpeaks
    BY <1>10, SpeaksInOrder, UnchangedCaller DEF WorkerSpeaks
  <1>11. CASE WorkerLeaves
    BY <1>11, LeavesInOrder, UnchangedAgent DEF WorkerLeaves
  <1>12. CASE UNCHANGED vars
    BY <1>12, UnchangedCaller, UnchangedAgent DEF vars
  <1> QED
    BY <1>1, <1>2, <1>3, <1>4, <1>5, <1>6, <1>7, <1>8, <1>9, <1>10, <1>11, <1>12 DEF Next

\* audio_bridge.py, _write_loop and _read_loop: wherever a frame is, those that are ahead
\* of it on its way were produced before it.
THEOREM FramesStayInOrder == Spec => []InOrder
  BY InitInOrder, NextInOrder, PTL DEF Spec

\* A new frame is what the abstract producer hands in, and one that is read what arrives;
\* every other step is a stutter of its direction.
LEMMA CallerStep ==
  InOrder /\ [Next]_vars => [CallerToWorker!Next]_(CallerToWorker!vars)
  <1> SUFFICES ASSUME InOrder, Next,
                      ~(UNCHANGED <<rtp, heard>>)
               PROVE  CallerToWorker!Next
    BY DEF vars, inVars, CallerToWorker!vars
  <1>1. CASE OnFrameReceived
    <2>1. rtp < Frames /\ rtp' = rtp + 1 /\ heard' = heard
      BY <1>1 DEF OnFrameReceived, EnqueueInbound
    <2> QED BY <2>1 DEF CallerToWorker!Next, CallerToWorker!Produce
  <1>2. CASE WorkerReads
    <2> DEFINE f == Head(wireIn)
    <2>1. f \in In(wireIn) /\ f \in Numbers
      BY <1>2, TailQueue DEF WorkerReads, InOrder, CallerInOrder
    <2>2. f <= rtp /\ \A x \in In(heard) : x < f
      BY <2>1 DEF InOrder, CallerInOrder, Precede
    <2>3. CallerToWorker!Newest(heard) \in Nat /\ CallerToWorker!Newest(heard) < f
      <3>1. CASE heard = <<>>
        BY <3>1, <2>1 DEF CallerToWorker!Newest, Numbers
      <3>2. CASE heard # <<>>
        <4>1. heard[Len(heard)] \in In(heard) /\ heard[Len(heard)] \in Numbers
          BY <3>2 DEF InOrder, CallerInOrder, Queue, In
        <4> QED BY <3>2, <4>1, <2>2 DEF CallerToWorker!Newest, Numbers
      <3> QED BY <3>1, <3>2
    <2>4. f \in CallerToWorker!Newest(heard) + 1 .. rtp
      BY <2>1, <2>2, <2>3 DEF InOrder, CallerInOrder, Numbers
    <2>5. heard' = Append(heard, f) /\ rtp' = rtp
      BY <1>2 DEF WorkerReads
    <2> QED BY <2>4, <2>5 DEF CallerToWorker!Next, CallerToWorker!Arrive
  <1> QED
    BY <1>1, <1>2 DEF Next, AcceptWorker, AttachMedia, OnFrameRequested, DequeueOutbound,
       WriterTakes, WriterSends, ReaderEnqueues, Close, WorkerSpeaks, WorkerLeaves, inVars

\* The same for the frames of the agent.
LEMMA AgentStep ==
  InOrder /\ [Next]_vars => [WorkerToCaller!Next]_(WorkerToCaller!vars)
  <1> SUFFICES ASSUME InOrder, Next,
                      ~(UNCHANGED <<speech, played>>)
               PROVE  WorkerToCaller!Next
    BY DEF vars, outVars, WorkerToCaller!vars
  <1>1. CASE WorkerSpeaks
    <2>1. speech < Frames /\ speech' = speech + 1 /\ played' = played
      BY <1>1 DEF WorkerSpeaks
    <2> QED BY <2>1 DEF WorkerToCaller!Next, WorkerToCaller!Produce
  <1>2. CASE OnFrameRequested
    <2> DEFINE f == Head(outbound)
    <2>1. f \in In(outbound) /\ f \in Numbers
      BY <1>2, TailQueue DEF OnFrameRequested, DequeueOutbound, InOrder, AgentInOrder
    <2>2. f <= speech /\ \A x \in In(played) : x < f
      BY <2>1 DEF InOrder, AgentInOrder, Precede
    <2>3. WorkerToCaller!Newest(played) \in Nat /\ WorkerToCaller!Newest(played) < f
      <3>1. CASE played = <<>>
        BY <3>1, <2>1 DEF WorkerToCaller!Newest, Numbers
      <3>2. CASE played # <<>>
        <4>1. played[Len(played)] \in In(played) /\ played[Len(played)] \in Numbers
          BY <3>2 DEF InOrder, AgentInOrder, Queue, In
        <4> QED BY <3>2, <4>1, <2>2 DEF WorkerToCaller!Newest, Numbers
      <3> QED BY <3>1, <3>2
    <2>4. f \in WorkerToCaller!Newest(played) + 1 .. speech
      BY <2>1, <2>2, <2>3 DEF InOrder, AgentInOrder, Numbers
    <2>5. played' = Append(played, f) /\ speech' = speech
      BY <1>2 DEF OnFrameRequested, DequeueOutbound
    <2> QED BY <2>4, <2>5 DEF WorkerToCaller!Next, WorkerToCaller!Arrive
  <1> QED
    BY <1>1, <1>2 DEF Next, AcceptWorker, AttachMedia, OnFrameReceived, EnqueueInbound,
       WriterTakes, WriterSends, ReaderEnqueues, Close, WorkerReads, WorkerLeaves, outVars

\* audio_bridge.py, its docstring under "Backpressure": whatever its two threads and the
\* media thread do, and whatever overflows, each direction of a call's audio loses frames at
\* most: what arrives arrives once and in order.
THEOREM AudioIsLossyFifo == Spec => AudioKeepsOrder
  <1>1. Init => CallerToWorker!Init /\ WorkerToCaller!Init
    BY DEF Init, CallerToWorker!Init, WorkerToCaller!Init
  <1> QED
    BY <1>1, FramesStayInOrder, CallerStep, AgentStep, PTL
       DEF Spec, AudioKeepsOrder, CallerToWorker!Spec, WorkerToCaller!Spec
=============================================================================
